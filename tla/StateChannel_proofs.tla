------------------------ MODULE StateChannel_proofs ------------------------
(***************************************************************************)
(* Theorems about a whole channel, for every deposit, reserve and window   *)
(* its users may choose, every amount they pay, and any number of          *)
(* transactions under way, of answers lost and of restarts.                *)
(***************************************************************************)
EXTENDS StateChannel, OffChainState_proofs

-----------------------------------------------------------------------------
(* Nodes and words.                                                        *)
LEMMA OtherNode ==
  ASSUME NEW n \in Nodes
  PROVE  /\ Other(n) \in Nodes /\ Other(n) # n /\ Other(Other(n)) = n
         /\ \A k \in Nodes : k = n \/ k = Other(n)
         /\ MeAlice(Other(n)) = ~MeAlice(n)
  BY StateChannelAssumption DEF Nodes, Other, MeAlice

LEMMA OneStamp ==
  ASSUME NEW n \in Nodes, NEW ts \in Nat
  PROVE  StampedBy(n, ts) <=> ~StampedBy(Other(n), ts)
<1>1. ts % 2 = 0 \/ ts % 2 = 1
  OBVIOUS
<1> QED
  BY <1>1, StateChannelAssumption DEF Nodes, Other, StampedBy

-----------------------------------------------------------------------------
(* The inductive invariant.                                                *)
IsEntry(e, ts) ==
  /\ e.app_id = AppId /\ e.timestamp = ts
  /\ e.alice_balance \in Nat /\ e.bob_balance \in Nat

\* That a log that is not empty has a latest state is part of being one, for
\* Latest is a CHOOSE.
IsLog(l) ==
  /\ DOMAIN l \subseteq 1..MaxTime
  /\ \A ts \in DOMAIN l : IsEntry(l[ts], ts)
  /\ DOMAIN l = {} \/ \E ts \in DOMAIN l : \A other \in DOMAIN l : other <= ts

Typed ==
  /\ round \in 1..MaxRound
  /\ opening.stage \in {"no", "created", "asking", "approved", "open", "failed"}
  /\ known \in [Nodes -> BOOLEAN] /\ deleting \in [Nodes -> SUBSET {"call", "watchtower"}]
  /\ clock \in [Nodes -> 0..MaxTime]
  /\ losses \in 0..MaxLosses /\ restarts \in 0..MaxRestarts
  /\ orderly \in BOOLEAN /\ agreed \subseteq Nat \X Nat
  /\ log = [n \in Nodes |-> log[n]]
  /\ \A n \in Nodes : IsLog(log[n])

\* Nobody has a state from the future: readings of a clock are fresh.
Fresh ==
  \A n, k \in Nodes : \A ts \in DOMAIN log[n] : StampedBy(k, ts) => ts <= clock[k]

\* Signed by both, in the fields the contract verifies the signatures from, or
\* the other way round.
SignedBy(e, first, second) ==
  /\ e.alice_signature =
       SignState(AppId, first, e.alice_balance, e.bob_balance, e.timestamp)
  /\ e.bob_signature =
       SignState(AppId, second, e.alice_balance, e.bob_balance, e.timestamp)

Proper(e) == SignedBy(e, Alice, Bob)
Swapped(e) == SignedBy(e, Bob, Alice)
Unsigned(e) == e.alice_signature = NoSignature /\ e.bob_signature = NoSignature

\* A split of the deposit, which is there: up to a wrap, once somebody has paid
\* more than there was.
Splits(e) ==
  /\ e.alice_balance \in Nat /\ e.bob_balance \in Nat
  /\ e.alice_balance \in Words /\ e.bob_balance \in Words
  /\ Uint(e.alice_balance + e.bob_balance) = opening.amount
  /\ ~AllowOverdraft => e.alice_balance + e.bob_balance = opening.amount
  /\ app.total_deposit = opening.amount
  /\ <<e.alice_balance, e.bob_balance>> \in agreed

\* A state both have signed: only Bob may have the signatures the wrong way
\* round, and only in the states of his own payments.
Shared(n, e) ==
  /\ Splits(e)
  /\ Proper(e) \/ (n = Bob /\ StampedBy(Bob, e.timestamp) /\ Swapped(e))

\* A first state: Bob may have approved before the deposit was there.
First(n, e) ==
  /\ Unsigned(e) /\ StampedBy(n, e.timestamp) /\ e.bob_balance = 0
  /\ \/ e.alice_balance = opening.amount
          /\ (n = Bob => app.total_deposit = opening.amount)
     \/ n = Bob /\ e.alice_balance = 0

Logs ==
  \A n \in Nodes : \A ts \in DOMAIN log[n] :
    First(n, log[n][ts]) \/ Shared(n, log[n][ts])

\* As long as nobody has forgotten anything, somebody can prove the split.
Proves(e, alice, bob) == Proper(e) /\ e.alice_balance = alice /\ e.bob_balance = bob

Provable(alice, bob) ==
  restarts = 0 =>
    \E n \in Nodes : \E ts \in DOMAIN log[n] : Proves(log[n][ts], alice, bob)

Enforceable(c) == Splits(c) /\ Provable(c.alice_balance, c.bob_balance)

GoodTxn(t) ==
  /\ t.sender \in Nodes
  /\ t.kind \in {"fund", "initiate", "cooperative", "dispute", "finalize"}
  /\ t.kind = "fund" =>
       /\ t = Txn("fund", Alice, Call(opening.amount, 0, 0, NoSignature, NoSignature))
       /\ t.call.alice_balance = opening.amount /\ app.total_deposit = 0
  /\ t.kind \in {"initiate", "dispute"} =>
       \/ Unsigned(t.call) \/ Swapped(t.call)
       \/ Proper(t.call) /\ Enforceable(t.call)
  /\ t.kind \in {"initiate", "dispute", "cooperative"} => t.call.timestamp \in Nat
  /\ t.kind = "cooperative" => Enforceable(t.call)

Txns == \A t \in mempool : GoodTxn(t)

\* Until Bob has approved nobody has a state, and only the deposit is under way.
Phases ==
  /\ opening.stage = "no" => app = NoApp
  /\ opening.stage \in {"no", "created"} => mempool = {}
  /\ opening.stage = "created" => app.total_deposit = 0
  /\ opening.stage \in {"no", "created", "asking"} =>
       /\ payout = <<>>
       /\ opening.stage # "no" => app.timeout = 0
       /\ \A n \in Nodes : ~known[n] /\ DOMAIN log[n] = {}
       /\ \A t \in mempool : t.kind = "fund"
  /\ opening.stage \in {"no", "created", "asking", "approved"} =>
       agreed = {} /\ ~known[Alice] /\ DOMAIN log[Alice] = {}

Contract ==
  opening.stage # "no" =>
    /\ app \in AppState
    /\ opening.amount \in Deposits \ {0}
    /\ app.total_deposit \in {0, opening.amount}
    /\ app.escrow = IF payout = <<>> THEN app.total_deposit ELSE 0
    /\ (app.timeout = 0 /\ payout = <<>>) =>
         app.latest_alice_balance = app.total_deposit /\ app.latest_bob_balance = 0
    /\ (app.timeout # 0 \/ payout # <<>>) =>
         /\ app.total_deposit = opening.amount
         /\ app.latest_alice_balance + app.latest_bob_balance = opening.amount
         /\ <<app.latest_alice_balance, app.latest_bob_balance>> \in agreed
         /\ Provable(app.latest_alice_balance, app.latest_bob_balance)

Paid ==
  payout # <<>> =>
    \E alice, bob \in Nat :
      /\ payout = <<alice - MinTxnFee, bob - MinTxnFee>>
      /\ payout \in Nat \X Nat
      /\ Provable(alice, bob)

SInv == Typed /\ Fresh /\ Logs /\ Txns /\ Phases /\ Contract /\ Paid

-----------------------------------------------------------------------------
(* When nobody cheats or pays on during a close.                           *)
HasSplit(e, alice, bob) == e.alice_balance = alice /\ e.bob_balance = bob

NewestSplit(alice, bob) ==
  (restarts = 0 \/ (losses = 0 /\ restarts = 1)) =>
    \E n \in Nodes : HasLatest(log[n]) /\ HasSplit(Latest(log[n]), alice, bob)

NewestTxns ==
  \A t \in mempool :
    (t.kind = "cooperative" \/ (t.kind = "initiate" /\ Proper(t.call))) =>
      NewestSplit(t.call.alice_balance, t.call.bob_balance)

NewestOnChain ==
  /\ (opening.stage # "no" /\ app.timeout # 0 /\ payout = <<>>) =>
       NewestSplit(app.latest_alice_balance, app.latest_bob_balance)
  /\ payout # <<>> =>
       \E alice, bob \in Nat :
         /\ payout = <<alice - MinTxnFee, bob - MinTxnFee>>
         /\ NewestSplit(alice, bob)

\* As long as nothing is lost or forgotten, the nodes have one newest state.
Mirrored ==
  (losses = 0 /\ restarts = 0) =>
    \/ \A n \in Nodes : \A ts \in DOMAIN log[n] : Unsigned(log[n][ts])
    \/ LET a == Latest(log[Alice])
           b == Latest(log[Bob])
       IN  /\ HasLatest(log[Alice]) /\ HasLatest(log[Bob])
           /\ a.timestamp = b.timestamp
           /\ HasSplit(a, b.alice_balance, b.bob_balance)

NInv == NewestTxns /\ NewestOnChain /\ Mirrored

-----------------------------------------------------------------------------
(* Logs.                                                                   *)
LEMMA LatestIsEntry ==
  ASSUME NEW l, IsLog(l), HasLatest(l)
  PROVE  /\ LatestTimestamp(l) \in DOMAIN l
         /\ LatestTimestamp(l) \in 1..MaxTime
         /\ Latest(l) = l[LatestTimestamp(l)]
         /\ IsEntry(Latest(l), LatestTimestamp(l))
         /\ \A ts \in DOMAIN l : ts <= LatestTimestamp(l)
<1>1. \E ts \in DOMAIN l : \A other \in DOMAIN l : other <= ts
  BY DEF IsLog, HasLatest
<1>2. /\ LatestTimestamp(l) \in DOMAIN l
      /\ \A ts \in DOMAIN l : ts <= LatestTimestamp(l)
  BY <1>1 DEF LatestTimestamp
<1> QED
  BY <1>2 DEF IsLog, Latest

LEMMA LogHasLatest ==
  ASSUME NEW l, IsLog(l)
  PROVE  HasLatest(l) <=> DOMAIN l # {}
  BY DEF IsLog, HasLatest

LEMMA StoreParts ==
  ASSUME NEW l, NEW e, NEW t, e.timestamp = t
  PROVE  /\ DOMAIN Store(l, e) = DOMAIN l \cup {t}
         /\ Store(l, e)[t] = e
         /\ \A ts \in DOMAIN l : ts # t => Store(l, e)[ts] = l[ts]
  BY DEF Store

LEMMA StoreIsLog ==
  ASSUME NEW l, IsLog(l), NEW e, NEW t \in 1..MaxTime, IsEntry(e, t)
  PROVE  IsLog(Store(l, e))
<1>1. e.timestamp = t
  BY DEF IsEntry
<1>2. /\ DOMAIN Store(l, e) = DOMAIN l \cup {t}
      /\ Store(l, e)[t] = e
      /\ \A ts \in DOMAIN l : ts # t => Store(l, e)[ts] = l[ts]
  BY <1>1 DEF Store
<1>3. \A ts \in DOMAIN Store(l, e) : IsEntry(Store(l, e)[ts], ts)
  <2>1. ASSUME NEW ts \in DOMAIN l, ts # t
        PROVE  IsEntry(Store(l, e)[ts], ts)
    <3>1. Store(l, e)[ts] = l[ts]
      BY <1>2, <2>1
    <3> QED
      BY <3>1 DEF IsLog
  <2> QED
    BY <1>2, <2>1
<1>4. \E ts \in DOMAIN Store(l, e) : \A other \in DOMAIN Store(l, e) : other <= ts
  <2>1. t \in Int /\ DOMAIN l \subseteq Int
    BY DEF IsLog
  <2>2. CASE DOMAIN l = {}
    <3>1. t <= t
      BY <2>1
    <3> QED
      BY <1>2, <2>2, <3>1
  <2>3. CASE DOMAIN l # {}
    <3>1. PICK m \in DOMAIN l : \A other \in DOMAIN l : other <= m
      BY <2>3 DEF IsLog
    <3>2. CASE t <= m
      BY <1>2, <3>1, <3>2
    <3>3. CASE ~(t <= m)
      <4>1. \A other \in DOMAIN l \cup {t} : other <= t
        BY <2>1, <3>1, <3>3
      <4> QED
        BY <1>2, <4>1
    <3> QED
      BY <3>2, <3>3
  <2> QED
    BY <2>2, <2>3
<1>5. DOMAIN Store(l, e) \subseteq 1..MaxTime
  BY <1>2 DEF IsLog
<1> QED
  BY <1>3, <1>4, <1>5 DEF IsLog

LEMMA EmptyIsLog == IsLog(EmptyLog) /\ DOMAIN EmptyLog = {}
  BY DEF IsLog, EmptyLog

\* A node stores a state under a timestamp it has none of.
LEMMA SavedLog ==
  ASSUME Typed, NEW me \in Nodes, NEW e, NEW t \in 1..MaxTime, IsEntry(e, t),
         log' = [log EXCEPT ![me] = Store(@, e)]
  PROVE  /\ log' = [n \in Nodes |-> log'[n]]
         /\ \A n \in Nodes : IsLog(log'[n])
         /\ DOMAIN log'[me] = DOMAIN log[me] \cup {t}
         /\ log'[me][t] = e
         /\ \A ts \in DOMAIN log[me] : ts # t => log'[me][ts] = log[me][ts]
         /\ log'[Other(me)] = log[Other(me)]
<1>1. log = [n \in Nodes |-> log[n]] /\ \A n \in Nodes : IsLog(log[n])
  BY DEF Typed
<1>2. /\ log' = [n \in Nodes |-> log'[n]]
      /\ log'[me] = Store(log[me], e)
      /\ \A n \in Nodes : n # me => log'[n] = log[n]
  BY <1>1
<1>3. IsLog(Store(log[me], e))
  BY <1>1, StoreIsLog
<1>4. \A n \in Nodes : IsLog(log'[n])
  BY <1>1, <1>2, <1>3
<1>5. e.timestamp = t
  BY DEF IsEntry
<1>6. /\ DOMAIN log'[me] = DOMAIN log[me] \cup {t}
      /\ log'[me][t] = e
      /\ \A ts \in DOMAIN log[me] : ts # t => log'[me][ts] = log[me][ts]
  BY <1>2, <1>5 DEF Store
<1>7. log'[Other(me)] = log[Other(me)]
  BY <1>2, OtherNode
<1> QED
  BY <1>2, <1>4, <1>6, <1>7

-----------------------------------------------------------------------------
(* Signatures.                                                             *)
LEMMA StateSigned ==
  ASSUME NEW a \in AppState, NEW call
  PROVE  BothSigned(a, STATE_UPDATE, call) <=> Proper(call)
  BY DEF AppState, BothSigned, Proper, SignedBy, SignState

LEMMA OneSignatureEach ==
  ASSUME NEW a \in AppState, NEW tag, NEW call, Unsigned(call)
  PROVE  ~BothSigned(a, tag, call)
<1> DEFINE c == Commitment(tag, a.app_id, call.alice_balance, call.bob_balance,
                           call.timestamp)
<1>1. Sign(Alice, c).key = Alice /\ Sign(Bob, c).key = Bob
  BY DEF Sign
<1>2. Sign(Alice, c) # Sign(Bob, c)
  BY <1>1, StateChannelAssumption
<1> QED
  BY <1>2 DEF Unsigned, BothSigned, AppState

\* A dispute takes closing signatures, and nobody has any in a state.
LEMMA NoDispute ==
  ASSUME NEW a \in AppState, NEW call,
         Unsigned(call) \/ Swapped(call) \/ Proper(call)
  PROVE  ~DisputeTakesEffect(a, call)
<1>1. \A key, id, x, y, ts : SignState(id, key, x, y, ts).over.tag = STATE_UPDATE
  BY DEF SignState, Sign, Commitment
<1>2. \A key, id, x, y, ts :
        Sign(key, Commitment(CLOSE_CHANNEL, id, x, y, ts)).over.tag = CLOSE_CHANNEL
  BY DEF Sign, Commitment
<1>3. STATE_UPDATE # CLOSE_CHANNEL
  BY DEF STATE_UPDATE, CLOSE_CHANNEL
<1>4. BothSigned(a, CLOSE_CHANNEL, call) => call.alice_signature.over.tag = CLOSE_CHANNEL
  BY <1>2 DEF BothSigned
<1>5. Swapped(call) \/ Proper(call) => call.alice_signature.over.tag = STATE_UPDATE
  BY <1>1 DEF Swapped, Proper, SignedBy
<1>6. ~BothSigned(a, CLOSE_CHANNEL, call)
  BY <1>3, <1>4, <1>5, OneSignatureEach
<1> QED
  BY <1>6 DEF DisputeTakesEffect

LEMMA ProperIsSigned ==
  ASSUME NEW e, Proper(e)
  PROVE  ~Unsigned(e)
<1> DEFINE c == Commitment(STATE_UPDATE, AppId, e.alice_balance, e.bob_balance, e.timestamp)
<1>1. Sign(Alice, c).key = Alice /\ Sign(Bob, c).key = Bob
  BY DEF Sign
<1>2. Sign(Alice, c) # Sign(Bob, c)
  BY <1>1, StateChannelAssumption
<1> QED
  BY <1>2 DEF Unsigned, Proper, SignedBy, SignState

LEMMA SwappedIsSigned ==
  ASSUME NEW e, Swapped(e)
  PROVE  ~Unsigned(e)
<1> DEFINE c == Commitment(STATE_UPDATE, AppId, e.alice_balance, e.bob_balance, e.timestamp)
<1>1. Sign(Alice, c).key = Alice /\ Sign(Bob, c).key = Bob
  BY DEF Sign
<1>2. Sign(Alice, c) # Sign(Bob, c)
  BY <1>1, StateChannelAssumption
<1> QED
  BY <1>2 DEF Unsigned, Swapped, SignedBy, SignState

LEMMA SwappedIsNotProper ==
  ASSUME NEW e, Swapped(e)
  PROVE  ~Proper(e)
<1>1. \A key, id, x, y, ts : SignState(id, key, x, y, ts).key = key
  BY DEF SignState, Sign
<1> QED
  BY <1>1, StateChannelAssumption DEF Swapped, Proper, SignedBy

-----------------------------------------------------------------------------
(* What a step leaves true that leaves the contract alone and forgets      *)
(* nothing, unless it is a restart.                                        *)
LogKept ==
  \A n \in Nodes : \A ts \in DOMAIN log[n] :
    ts \in DOMAIN log'[n] /\ log'[n][ts] = log[n][ts]

Remembers == restarts' # 0 \/ (restarts' = restarts /\ LogKept)

LEMMA ProvableStays ==
  ASSUME NEW alice, NEW bob, Provable(alice, bob), Remembers
  PROVE  Provable(alice, bob)'
<1> SUFFICES ASSUME restarts' = 0
             PROVE  \E n \in Nodes : \E ts \in DOMAIN log'[n] :
                      Proves(log'[n][ts], alice, bob)
  BY DEF Provable
<1>1. restarts = 0 /\ LogKept
  BY DEF Remembers
<1>2. PICK n \in Nodes : \E ts \in DOMAIN log[n] : Proves(log[n][ts], alice, bob)
  BY <1>1 DEF Provable
<1>3. PICK ts \in DOMAIN log[n] : Proves(log[n][ts], alice, bob)
  BY <1>2
<1>4. ts \in DOMAIN log'[n] /\ log'[n][ts] = log[n][ts]
  BY <1>1 DEF LogKept
<1> QED
  BY <1>3, <1>4

LEMMA SplitsStays ==
  ASSUME NEW c, Splits(c), opening'.amount = opening.amount,
         app'.total_deposit = app.total_deposit, agreed \subseteq agreed'
  PROVE  Splits(c)'
  BY DEF Splits

LEMMA TxnStays ==
  ASSUME NEW t, GoodTxn(t), opening'.amount = opening.amount,
         app'.total_deposit = app.total_deposit, agreed \subseteq agreed', Remembers
  PROVE  GoodTxn(t)'
<1>1. Enforceable(t.call) => Enforceable(t.call)'
  <2> SUFFICES ASSUME Enforceable(t.call) PROVE Enforceable(t.call)'
    OBVIOUS
  <2>1. Splits(t.call) /\ Provable(t.call.alice_balance, t.call.bob_balance)
    BY DEF Enforceable
  <2>2. Splits(t.call)'
    BY <2>1, SplitsStays
  <2>3. Provable(t.call.alice_balance, t.call.bob_balance)'
    BY <2>1, ProvableStays
  <2> QED
    BY <2>2, <2>3 DEF Enforceable
<1> QED
  BY <1>1 DEF GoodTxn

LEMMA StateStays ==
  ASSUME NEW n, NEW e, First(n, e) \/ Shared(n, e), opening'.amount = opening.amount,
         app'.total_deposit = app.total_deposit, agreed \subseteq agreed'
  PROVE  (First(n, e) \/ Shared(n, e))'
  BY SplitsStays DEF First, Shared

LEMMA ContractStays ==
  ASSUME Contract, app' = app, payout' = payout, opening'.amount = opening.amount,
         opening.stage = "no" => opening'.stage = "no", agreed \subseteq agreed', Remembers
  PROVE  Contract'
<1> SUFFICES ASSUME opening'.stage # "no" PROVE Contract'
  BY DEF Contract
<1>1. opening.stage # "no"
  OBVIOUS
<1>2. Provable(app.latest_alice_balance, app.latest_bob_balance) =>
        Provable(app.latest_alice_balance, app.latest_bob_balance)'
  BY ProvableStays
<1> QED
  BY <1>1, <1>2 DEF Contract, Provable

LEMMA PaidStays ==
  ASSUME Paid, payout' = payout, Remembers
  PROVE  Paid'
<1> SUFFICES ASSUME payout # <<>> PROVE Paid'
  BY DEF Paid
<1>1. PICK alice \in Nat, bob \in Nat :
        /\ payout = <<alice - MinTxnFee, bob - MinTxnFee>>
        /\ payout \in Nat \X Nat
        /\ Provable(alice, bob)
  BY DEF Paid
<1>2. Provable(alice, bob)'
  BY <1>1, ProvableStays
<1> QED
  BY <1>1, <1>2 DEF Paid

LEMMA StepKeeps ==
  ASSUME SInv, Typed', Fresh', Phases',
         app' = app, payout' = payout, opening'.amount = opening.amount,
         opening.stage = "no" => opening'.stage = "no", agreed \subseteq agreed', Remembers,
         \A n \in Nodes : \A ts \in DOMAIN log'[n] :
           \/ ts \in DOMAIN log[n] /\ log'[n][ts] = log[n][ts]
           \/ First(n, log[n][ts])' \/ Shared(n, log[n][ts])',
         \A t \in mempool' : t \in mempool \/ GoodTxn(t)'
  PROVE  SInv'
<1>1. Logs'
  <2> SUFFICES ASSUME NEW n \in Nodes, NEW ts \in DOMAIN log'[n]
               PROVE  (First(n, log[n][ts]) \/ Shared(n, log[n][ts]))'
    BY DEF Logs
  <2>1. CASE ts \in DOMAIN log[n] /\ log'[n][ts] = log[n][ts]
    <3>1. PICK e : e = log[n][ts]
      OBVIOUS
    <3>2. First(n, e) \/ Shared(n, e)
      BY <2>1, <3>1 DEF SInv, Logs
    <3>3. (First(n, e) \/ Shared(n, e))'
      BY <3>2, StateStays
    <3> QED
      BY <2>1, <3>1, <3>3
  <2> QED
    BY <2>1
<1>2. Txns'
  <2> SUFFICES ASSUME NEW t \in mempool' PROVE GoodTxn(t)'
    BY DEF Txns
  <2>1. CASE t \in mempool
    BY <2>1, TxnStays DEF SInv, Txns
  <2> QED
    BY <2>1
<1>3. Contract' /\ Paid'
  BY ContractStays, PaidStays DEF SInv
<1> QED
  BY <1>1, <1>2, <1>3 DEF SInv

LEMMA QuietStep ==
  ASSUME SInv, UNCHANGED <<app, payout, opening, clock>>,
         \A n \in Nodes : known'[n] => known[n],
         known' \in [Nodes -> BOOLEAN],
         deleting' \in [Nodes -> SUBSET {"call", "watchtower"}],
         round' \in 1..MaxRound, losses' \in 0..MaxLosses, restarts' \in 0..MaxRestarts,
         orderly' \in BOOLEAN, agreed' \subseteq Nat \X Nat,
         agreed' = agreed \/ (agreed \subseteq agreed' /\ \A n \in Nodes : known[n]),
         log' = [n \in Nodes |-> log'[n]],
         \A n \in Nodes : log'[n] = log[n] \/ log'[n] = EmptyLog,
         Remembers,
         \A t \in mempool' : t \in mempool \/ ((\E n \in Nodes : known[n]) /\ GoodTxn(t)')
  PROVE  SInv'
<1>1. Typed /\ Fresh /\ Phases
  BY DEF SInv
<1>2. ASSUME NEW n \in Nodes
      PROVE  /\ IsLog(log'[n])
             /\ DOMAIN log'[n] \subseteq DOMAIN log[n]
             /\ \A ts \in DOMAIN log'[n] : log'[n][ts] = log[n][ts]
  BY <1>1, EmptyIsLog DEF Typed
<1>3. Typed'
  BY <1>1, <1>2 DEF Typed
<1>4. Fresh'
  BY <1>1, <1>2 DEF Fresh
<1>5. Phases'
  <2>1. Alice \in Nodes
    BY DEF Nodes
  <2>2. opening.stage \in {"no", "created", "asking", "approved"} =>
          agreed' = {} /\ ~known'[Alice] /\ DOMAIN log'[Alice] = {}
    BY <1>1, <1>2, <2>1 DEF Phases
  <2>3. opening.stage \in {"no", "created", "asking"} => mempool' \subseteq mempool
    BY <1>1 DEF Phases
  <2>4. opening.stage \in {"no", "created", "asking"} =>
          \A n \in Nodes : ~known'[n] /\ DOMAIN log'[n] = {}
    BY <1>1, <1>2 DEF Phases
  <2> QED
    BY <1>1, <2>2, <2>3, <2>4 DEF Phases
<1> QED
  BY <1>2, <1>3, <1>4, <1>5, StepKeeps

-----------------------------------------------------------------------------
(* Calls that send a transaction.                                          *)
LEMMA CallIsGood ==
  ASSUME SInv, NEW n \in Nodes, NEW ts \in DOMAIN log[n],
         NEW kind \in {"initiate", "dispute"}
  PROVE  GoodTxn(Txn(kind, n, CallOf(log[n][ts])))
<1>1. PICK e : e = log[n][ts]
  OBVIOUS
<1>2. PICK c : c = CallOf(e)
  OBVIOUS
<1>3. /\ c.alice_balance = e.alice_balance /\ c.bob_balance = e.bob_balance
      /\ c.timestamp = e.timestamp
      /\ c.alice_signature = e.alice_signature /\ c.bob_signature = e.bob_signature
  BY <1>2 DEF CallOf, Call
<1>4. c.timestamp \in Nat
  <2>1. IsLog(log[n])
    BY DEF SInv, Typed
  <2> QED
    BY <1>1, <1>3, <2>1 DEF IsLog, IsEntry
<1>5. First(n, e) \/ Shared(n, e)
  BY <1>1 DEF SInv, Logs
<1>6. Unsigned(c) \/ Swapped(c) \/ (Proper(c) /\ Enforceable(c))
  <2>1. First(n, e) => Unsigned(c)
    BY <1>3 DEF First, Unsigned
  <2>2. Swapped(e) => Swapped(c)
    BY <1>3 DEF Swapped, SignedBy
  <2>3. ASSUME Splits(e), Proper(e) PROVE Proper(c) /\ Enforceable(c)
    <3>1. Proper(c)
      BY <1>3, <2>3 DEF Proper, SignedBy
    <3>2. Splits(c)
      BY <1>3, <2>3 DEF Splits
    <3>3. Provable(c.alice_balance, c.bob_balance)
      BY <1>1, <1>3, <2>3 DEF Provable, Proves
    <3> QED
      BY <3>1, <3>2, <3>3 DEF Enforceable
  <2> QED
    BY <1>5, <2>1, <2>2, <2>3 DEF Shared
<1>7. PICK t : t = Txn(kind, n, c)
  OBVIOUS
<1>8. t.kind = kind /\ t.sender = n /\ t.call = c
  BY <1>7 DEF Txn
<1>9. GoodTxn(t)
  BY <1>4, <1>6, <1>8 DEF GoodTxn
<1> QED
  BY <1>1, <1>2, <1>7, <1>9

LEMMA SubmitStep ==
  ASSUME SInv, NEW n \in Nodes, known[n], NEW t, GoodTxn(t)', Submit(t),
         UNCHANGED <<opening, known, log, clock, losses, restarts>>,
         deleting' \in [Nodes -> SUBSET {"call", "watchtower"}],
         orderly' \in BOOLEAN, agreed' \subseteq Nat \X Nat,
         agreed' = agreed \/ (agreed \subseteq agreed' /\ \A k \in Nodes : known[k])
  PROVE  SInv'
<1>1. UNCHANGED <<app, round, payout>> /\ mempool' = mempool \cup {t}
  BY DEF Submit
<1>2. Remembers
  BY DEF Remembers, LogKept
<1>3. /\ known' \in [Nodes -> BOOLEAN] /\ round' \in 1..MaxRound
      /\ losses' \in 0..MaxLosses /\ restarts' \in 0..MaxRestarts
      /\ log' = [k \in Nodes |-> log'[k]]
  BY <1>1 DEF SInv, Typed
<1>4. \A x \in mempool' : x \in mempool \/ ((\E k \in Nodes : known[k]) /\ GoodTxn(x)')
  BY <1>1
<1>5. \A k \in Nodes : (known'[k] => known[k]) /\ log'[k] = log[k]
  OBVIOUS
<1> QED
  BY <1>1, <1>2, <1>3, <1>4, <1>5, QuietStep

\* A state of one's log goes into an initiation or a dispute.
LEMMA SendStateStep ==
  ASSUME SInv, NEW n \in Nodes, known[n], NEW ts \in DOMAIN log[n],
         NEW kind \in {"initiate", "dispute"},
         Submit(Txn(kind, n, CallOf(log[n][ts]))),
         UNCHANGED <<opening, known, log, clock, losses, restarts, agreed>>,
         deleting' \in [Nodes -> SUBSET {"call", "watchtower"}],
         orderly' \in BOOLEAN
  PROVE  SInv'
<1>1. PICK t : t = Txn(kind, n, CallOf(log[n][ts]))
  OBVIOUS
<1>2. GoodTxn(t)
  BY <1>1, CallIsGood
<1>3. Submit(t) /\ app' = app /\ Remembers
  BY <1>1 DEF Submit, Remembers, LogKept
<1>4. GoodTxn(t)'
  BY <1>2, <1>3, TxnStays
<1>5. agreed' \subseteq Nat \X Nat
  BY DEF SInv, Typed
<1> QED
  BY <1>3, <1>4, <1>5, SubmitStep

LEMMA InitiateStep ==
  ASSUME SInv, NEW n \in Nodes, InitiateCloseChannel(n)
  PROVE  SInv'
<1>1. IsLog(log[n]) /\ HasLatest(log[n]) /\ known[n]
  BY DEF SInv, Typed, InitiateCloseChannel
<1>2. /\ LatestTimestamp(log[n]) \in DOMAIN log[n]
      /\ Latest(log[n]) = log[n][LatestTimestamp(log[n])]
  BY <1>1, LatestIsEntry
<1>3. /\ Submit(Txn("initiate", n, CallOf(log[n][LatestTimestamp(log[n])])))
      /\ UNCHANGED <<opening, known, log, clock, losses, restarts, agreed, deleting>>
  BY <1>2 DEF InitiateCloseChannel, nodes
<1>4. orderly' \in BOOLEAN /\ deleting' \in [Nodes -> SUBSET {"call", "watchtower"}]
  BY <1>3 DEF SInv, Typed, InitiateCloseChannel, Disturbed
<1> QED
  BY <1>1, <1>2, <1>3, <1>4, SendStateStep

LEMMA CheatStep ==
  ASSUME SInv, NEW n \in Nodes, TryToCheat(n)
  PROVE  SInv'
<1>1. PICK e \in HighestBalanceStates(MeAlice(n), log[n]) :
        Submit(Txn("initiate", n, CallOf(e)))
  BY DEF TryToCheat
<1>2. PICK ts \in DOMAIN log[n] : e = log[n][ts]
  BY <1>1 DEF HighestBalanceStates
<1>3. /\ known[n]
      /\ UNCHANGED <<opening, known, log, clock, losses, restarts, agreed, deleting>>
  BY DEF TryToCheat, nodes
<1>4. orderly' \in BOOLEAN /\ deleting' \in [Nodes -> SUBSET {"call", "watchtower"}]
  BY <1>3 DEF SInv, Typed, TryToCheat, Disturbed
<1> QED
  BY <1>1, <1>2, <1>3, <1>4, SendStateStep

LEMMA DisputeStep ==
  ASSUME SInv, NEW n \in Nodes, WatchtowerDisputes(n)
  PROVE  SInv'
<1>1. IsLog(log[n]) /\ HasLatest(log[n]) /\ known[n]
  BY DEF SInv, Typed, WatchtowerDisputes
<1>2. /\ LatestTimestamp(log[n]) \in DOMAIN log[n]
      /\ Latest(log[n]) = log[n][LatestTimestamp(log[n])]
  BY <1>1, LatestIsEntry
<1>3. /\ Submit(Txn("dispute", n, CallOf(log[n][LatestTimestamp(log[n])])))
      /\ UNCHANGED <<opening, known, log, clock, losses, restarts, agreed, orderly>>
      /\ deleting' = [deleting EXCEPT ![n] = @ \cup {"watchtower"}]
  BY <1>2 DEF WatchtowerDisputes, history
<1>4. orderly' \in BOOLEAN /\ deleting' \in [Nodes -> SUBSET {"call", "watchtower"}]
  BY <1>3 DEF SInv, Typed
<1> QED
  BY <1>1, <1>2, <1>3, <1>4, SendStateStep

LEMMA FinalizeStep ==
  ASSUME SInv, NEW n \in Nodes, FinalizeCloseChannel(n)
  PROVE  SInv'
<1>1. PICK t : t = Txn("finalize", n, NoCall)
  OBVIOUS
<1>2. t.kind = "finalize" /\ t.sender = n
  BY <1>1 DEF Txn
<1>3. GoodTxn(t)'
  BY <1>2 DEF GoodTxn
<1>4. /\ known[n] /\ Submit(t)
      /\ UNCHANGED <<opening, known, log, clock, losses, restarts, agreed>>
      /\ deleting' = [deleting EXCEPT ![n] = @ \cup {"call"}]
  BY <1>1 DEF FinalizeCloseChannel
<1>5. orderly' \in BOOLEAN /\ deleting' \in [Nodes -> SUBSET {"call", "watchtower"}]
  BY <1>4 DEF SInv, Typed, FinalizeCloseChannel, Disturbed
<1>6. agreed' \subseteq Nat \X Nat
  BY <1>4 DEF SInv, Typed
<1> QED
  BY <1>3, <1>4, <1>5, <1>6, SubmitStep

\* A state that both have is one both have signed, and one of them has it with
\* the signatures the right way round.
LEMMA CommonState ==
  ASSUME SInv, NEW n \in Nodes, NEW ts \in DOMAIN log[n], ts \in DOMAIN log[Other(n)],
         log[n][ts].alice_balance = log[Other(n)][ts].alice_balance,
         log[n][ts].bob_balance = log[Other(n)][ts].bob_balance
  PROVE  Splits(log[n][ts]) /\ Provable(log[n][ts].alice_balance, log[n][ts].bob_balance)
<1>1. Other(n) \in Nodes
  BY OtherNode
<1>2. ts \in Nat /\ log[n][ts].timestamp = ts /\ log[Other(n)][ts].timestamp = ts
  BY <1>1 DEF SInv, Typed, IsLog, IsEntry
<1>3. PICK k \in Nodes : k \in {n, Other(n)} /\ ~StampedBy(k, ts)
  BY <1>1, <1>2, OneStamp
<1>4. PICK e : e = log[k][ts]
  OBVIOUS
<1>5. /\ ts \in DOMAIN log[k] /\ e.timestamp = ts
      /\ e.alice_balance = log[n][ts].alice_balance
      /\ e.bob_balance = log[n][ts].bob_balance
  BY <1>2, <1>3, <1>4
<1>6. First(k, e) \/ Shared(k, e)
  BY <1>4, <1>5 DEF SInv, Logs
<1>7. Splits(e) /\ Proper(e)
  BY <1>3, <1>5, <1>6 DEF First, Shared
<1>8. Splits(log[n][ts])
  BY <1>5, <1>7 DEF Splits
<1>9. Provable(log[n][ts].alice_balance, log[n][ts].bob_balance)
  BY <1>4, <1>5, <1>7 DEF Provable, Proves
<1> QED
  BY <1>8, <1>9

LEMMA CooperateParts ==
  ASSUME SInv, NEW n \in Nodes, CooperativeCloseChannel(n)
  PROVE  /\ \A k \in Nodes : known[k]
         /\ HasLatest(log[n]) /\ HasLatest(log[Other(n)])
         /\ LatestTimestamp(log[n]) \in DOMAIN log[n]
         /\ Latest(log[n]) = log[n][LatestTimestamp(log[n])]
         /\ Latest(log[n]).timestamp \in Nat
         /\ Splits(Latest(log[n]))
         /\ Provable(Latest(log[n]).alice_balance, Latest(log[n]).bob_balance)
<1> DEFINE m == Other(n)
           mine == Latest(log[n])
           theirs == Latest(log[m])
<1>1. m \in Nodes /\ \A k \in Nodes : k = n \/ k = m
  BY OtherNode
<1>2. /\ known[n] /\ known[m] /\ HasLatest(log[n]) /\ HasLatest(log[m])
      /\ VerifyClose(AppId, theirs.alice_balance, theirs.bob_balance,
                     SignClose(AppId, n, mine.alice_balance, mine.bob_balance,
                               mine.timestamp), n, theirs.timestamp)
  BY DEF CooperativeCloseChannel
<1>3. /\ mine.alice_balance = theirs.alice_balance
      /\ mine.bob_balance = theirs.bob_balance
      /\ mine.timestamp = theirs.timestamp
  BY <1>2, SameClose
<1>4. IsLog(log[n]) /\ IsLog(log[m])
  BY <1>1 DEF SInv, Typed
<1>5. /\ LatestTimestamp(log[n]) \in DOMAIN log[n]
      /\ LatestTimestamp(log[n]) \in 1..MaxTime
      /\ mine = log[n][LatestTimestamp(log[n])]
      /\ IsEntry(mine, LatestTimestamp(log[n]))
  BY <1>2, <1>4, LatestIsEntry
<1>6. /\ LatestTimestamp(log[m]) \in DOMAIN log[m]
      /\ theirs = log[m][LatestTimestamp(log[m])]
      /\ IsEntry(theirs, LatestTimestamp(log[m]))
  BY <1>2, <1>4, LatestIsEntry
<1>7. LatestTimestamp(log[n]) = LatestTimestamp(log[m])
  BY <1>3, <1>5, <1>6 DEF IsEntry
<1>8. Splits(mine) /\ Provable(mine.alice_balance, mine.bob_balance)
  BY <1>3, <1>5, <1>6, <1>7, CommonState
<1>9. mine.timestamp \in Nat
  BY <1>5 DEF IsEntry
<1> QED
  BY <1>1, <1>2, <1>5, <1>8, <1>9

LEMMA CooperateStep ==
  ASSUME SInv, NEW n \in Nodes, CooperativeCloseChannel(n)
  PROVE  SInv'
<1>1. /\ \A k \in Nodes : known[k]
      /\ Latest(log[n]).timestamp \in Nat
      /\ Splits(Latest(log[n]))
      /\ Provable(Latest(log[n]).alice_balance, Latest(log[n]).bob_balance)
  BY CooperateParts
<1>2. PICK e : e = Latest(log[n])
  OBVIOUS
<1>3. PICK c : c = Call(e.alice_balance, e.bob_balance, e.timestamp,
                        SignClose(AppId, Alice, e.alice_balance, e.bob_balance, e.timestamp),
                        SignClose(AppId, Bob, e.alice_balance, e.bob_balance, e.timestamp))
  OBVIOUS
<1>4. PICK t : t = Txn("cooperative", n, c)
  OBVIOUS
<1>5. /\ Submit(t)
      /\ deleting' = [deleting EXCEPT ![n] = @ \cup {"call"}]
      /\ agreed' = agreed \cup {<<e.alice_balance, e.bob_balance>>}
      /\ Disturbed(ClosingBegun)
      /\ UNCHANGED <<opening, known, log, clock, losses, restarts>>
  BY <1>2, <1>3, <1>4 DEF CooperativeCloseChannel
<1>6. /\ c.alice_balance = e.alice_balance /\ c.bob_balance = e.bob_balance
      /\ c.timestamp = e.timestamp
      /\ t.kind = "cooperative" /\ t.sender = n /\ t.call = c
  BY <1>3, <1>4 DEF Call, Txn
<1>7. GoodTxn(t)
  <2>1. Enforceable(c)
    BY <1>1, <1>2, <1>6 DEF Enforceable, Splits
  <2> QED
    BY <1>1, <1>2, <1>6, <2>1 DEF GoodTxn
<1>8. GoodTxn(t)'
  <2>1. app' = app /\ Remembers /\ agreed \subseteq agreed'
    BY <1>5 DEF Submit, Remembers, LogKept
  <2> QED
    BY <1>5, <1>7, <2>1, TxnStays
<1>9. /\ agreed \subseteq agreed' /\ agreed' \subseteq Nat \X Nat
  BY <1>1, <1>2, <1>5 DEF Splits, SInv, Typed
<1>10. orderly' \in BOOLEAN /\ deleting' \in [Nodes -> SUBSET {"call", "watchtower"}]
  BY <1>5 DEF SInv, Typed, Disturbed
<1> QED
  BY <1>1, <1>5, <1>8, <1>9, <1>10, SubmitStep

-----------------------------------------------------------------------------
(* Steps of the nodes and the ledger that send nothing and record nothing. *)
LEMMA DeleteStep ==
  ASSUME SInv, NEW n \in Nodes, NEW who \in {"call", "watchtower"}, DeleteRecord(n, who)
  PROVE  SInv'
<1>1. /\ known' = [known EXCEPT ![n] = FALSE]
      /\ deleting' = [deleting EXCEPT ![n] = @ \ {who}]
      /\ UNCHANGED <<app, round, mempool, payout, opening, log, clock, losses, restarts,
                     orderly, agreed>>
  BY DEF DeleteRecord, chain, history
<1>2. Typed
  BY DEF SInv
<1>3. /\ known' \in [Nodes -> BOOLEAN]
      /\ \A k \in Nodes : known'[k] => known[k]
      /\ deleting' \in [Nodes -> SUBSET {"call", "watchtower"}]
  BY <1>1, <1>2 DEF Typed
<1>4. /\ round' \in 1..MaxRound /\ losses' \in 0..MaxLosses
      /\ restarts' \in 0..MaxRestarts /\ orderly' \in BOOLEAN
      /\ agreed' \subseteq Nat \X Nat /\ log' = [k \in Nodes |-> log'[k]]
  BY <1>1, <1>2 DEF Typed
<1>5. Remembers
  BY <1>1 DEF Remembers, LogKept
<1>6. \A t \in mempool' : t \in mempool
  BY <1>1
<1> QED
  BY <1>1, <1>3, <1>4, <1>5, <1>6, QuietStep

LEMMA IdleStep ==
  ASSUME SInv,
         UNCHANGED <<app, payout, opening, known, log, deleting, clock, losses, restarts,
                     orderly, agreed>>,
         round' \in 1..MaxRound, mempool' \subseteq mempool
  PROVE  SInv'
<1>1. Typed
  BY DEF SInv
<1>2. /\ known' \in [Nodes -> BOOLEAN]
      /\ \A k \in Nodes : (known'[k] => known[k]) /\ log'[k] = log[k]
      /\ deleting' \in [Nodes -> SUBSET {"call", "watchtower"}]
      /\ losses' \in 0..MaxLosses
      /\ restarts' \in 0..MaxRestarts /\ orderly' \in BOOLEAN
      /\ agreed' \subseteq Nat \X Nat /\ log' = [k \in Nodes |-> log'[k]]
  BY <1>1 DEF Typed
<1>3. Remembers
  BY DEF Remembers, LogKept
<1> QED
  BY <1>2, <1>3, QuietStep

LEMMA NextRoundStep ==
  ASSUME SInv, NextRound
  PROVE  SInv'
<1>1. round' \in 1..MaxRound
  BY StateChannelAssumption DEF NextRound, SInv, Typed
<1> QED
  BY <1>1, IdleStep DEF NextRound, nodes, history

LEMMA NoEffectStep ==
  ASSUME SInv, NEW t \in mempool, TakeWithoutEffect(t)
  PROVE  SInv'
<1>1. round' \in 1..MaxRound
  BY DEF TakeWithoutEffect, SInv, Typed
<1>2. mempool' \subseteq mempool
  BY DEF TakeWithoutEffect
<1> QED
  BY <1>1, <1>2, IdleStep DEF TakeWithoutEffect, nodes, history

-----------------------------------------------------------------------------
(* Openings that fail, and restarts.                                       *)
LEMMA FailStep ==
  ASSUME SInv, opening.stage # "no", opening' = Opening("failed", opening.amount),
         UNCHANGED <<app, round, payout, mempool, clock, orderly, agreed>>,
         known' \in [Nodes -> BOOLEAN],
         deleting' \in [Nodes -> SUBSET {"call", "watchtower"}],
         losses' \in 0..MaxLosses, restarts' \in 0..MaxRestarts,
         log' = [n \in Nodes |-> log'[n]],
         \A n \in Nodes : log'[n] = log[n] \/ log'[n] = EmptyLog,
         Remembers
  PROVE  SInv'
<1>1. Typed /\ Fresh
  BY DEF SInv
<1>2. opening'.stage = "failed" /\ opening'.amount = opening.amount
  BY DEF Opening
<1>3. ASSUME NEW n \in Nodes
      PROVE  /\ IsLog(log'[n])
             /\ DOMAIN log'[n] \subseteq DOMAIN log[n]
             /\ \A ts \in DOMAIN log'[n] : log'[n][ts] = log[n][ts]
  BY <1>1, EmptyIsLog DEF Typed
<1>4. Typed'
  BY <1>1, <1>2, <1>3 DEF Typed
<1>5. Fresh'
  BY <1>1, <1>3 DEF Fresh
<1>6. Phases'
  BY <1>2 DEF Phases
<1> QED
  BY <1>2, <1>3, <1>4, <1>5, <1>6, StepKeeps

LEMMA RejectStep ==
  ASSUME SInv, OpenReject \/ OpenLost
  PROVE  SInv'
<1>1. /\ opening.stage # "no" /\ opening' = Opening("failed", opening.amount)
      /\ UNCHANGED <<app, round, payout, mempool, known, log, deleting, clock, restarts,
                     orderly, agreed>>
  BY DEF OpenReject, OpenLost, chain, history
<1>2. losses' \in 0..MaxLosses
  BY StateChannelAssumption DEF OpenReject, OpenLost, SInv, Typed
<1>3. /\ known' \in [Nodes -> BOOLEAN]
      /\ deleting' \in [Nodes -> SUBSET {"call", "watchtower"}]
      /\ restarts' \in 0..MaxRestarts
      /\ log' = [n \in Nodes |-> log'[n]]
      /\ \A n \in Nodes : log'[n] = log[n]
  BY <1>1 DEF SInv, Typed
<1>4. Remembers
  BY <1>1 DEF Remembers, LogKept
<1> QED
  BY <1>1, <1>2, <1>3, <1>4, FailStep

LEMMA RestartStep ==
  ASSUME SInv, NEW n \in Nodes, Restart(n)
  PROVE  SInv'
<1>1. /\ restarts < MaxRestarts /\ restarts' = restarts + 1
      /\ known' = [known EXCEPT ![n] = FALSE]
      /\ log' = [log EXCEPT ![n] = EmptyLog]
      /\ deleting' = [deleting EXCEPT ![n] = {}]
      /\ UNCHANGED <<app, round, mempool, payout, clock, losses, orderly, agreed>>
      /\ \/ opening.stage # "no" /\ opening' = Opening("failed", opening.amount)
         \/ UNCHANGED opening
  BY DEF Restart, chain, history
<1>2. Typed
  BY DEF SInv
<1>3. restarts' \in 0..MaxRestarts /\ restarts' # 0
  BY <1>1, <1>2, StateChannelAssumption DEF Typed
<1>4. /\ known' \in [Nodes -> BOOLEAN]
      /\ \A k \in Nodes : known'[k] => known[k]
      /\ deleting' \in [Nodes -> SUBSET {"call", "watchtower"}]
  BY <1>1, <1>2 DEF Typed
<1>5. /\ log' = [k \in Nodes |-> log'[k]]
      /\ \A k \in Nodes : log'[k] = log[k] \/ log'[k] = EmptyLog
  BY <1>1, <1>2 DEF Typed
<1>6. Remembers
  BY <1>3 DEF Remembers
<1>7. /\ round' \in 1..MaxRound /\ losses' \in 0..MaxLosses /\ orderly' \in BOOLEAN
      /\ agreed' \subseteq Nat \X Nat
  BY <1>1, <1>2 DEF Typed
<1>8. CASE opening.stage # "no" /\ opening' = Opening("failed", opening.amount)
  BY <1>1, <1>3, <1>4, <1>5, <1>6, <1>7, <1>8, FailStep
<1>9. CASE UNCHANGED opening
  <2>1. \A t \in mempool' : t \in mempool
    BY <1>1
  <2> QED
    BY <1>1, <1>3, <1>4, <1>5, <1>6, <1>7, <1>9, <2>1, QuietStep
<1> QED
  BY <1>1, <1>8, <1>9

-----------------------------------------------------------------------------
(* Openings.                                                               *)
LEMMA CreatedType ==
  ASSUME NEW penalty \in Penalties, NEW window \in Windows
  PROVE  /\ Created(AppId, Alice, Bob, penalty, window) \in AppState
         /\ Created(AppId, Alice, Bob, penalty, window).timeout = 0
         /\ Created(AppId, Alice, Bob, penalty, window).total_deposit = 0
         /\ Created(AppId, Alice, Bob, penalty, window).escrow = 0
         /\ Created(AppId, Alice, Bob, penalty, window).latest_alice_balance = 0
         /\ Created(AppId, Alice, Bob, penalty, window).latest_bob_balance = 0
  BY DEF Created, AppState

LEMMA CreateStep ==
  ASSUME SInv, NEW amount \in Deposits, NEW penalty \in Penalties, NEW window \in Windows,
         OpenCreate(amount, penalty, window)
  PROVE  SInv'
<1>1. /\ opening.stage = "no" /\ amount # 0
      /\ app' = Created(AppId, Alice, Bob, penalty, window)
      /\ opening' = Opening("created", amount)
      /\ UNCHANGED <<round, mempool, payout, known, log, deleting, clock, losses, restarts,
                     orderly, agreed>>
  BY DEF OpenCreate, OpenCommand, history
<1>2. opening'.stage = "created" /\ opening'.amount = amount
  BY <1>1 DEF Opening
<1>3. Typed /\ Fresh /\ Phases
  BY DEF SInv
<1>4. /\ mempool = {} /\ payout = <<>> /\ agreed = {} /\ ~known[Alice]
      /\ DOMAIN log[Alice] = {}
      /\ \A n \in Nodes : ~known[n] /\ DOMAIN log[n] = {}
  BY <1>1, <1>3 DEF Phases
<1>5. /\ app' \in AppState /\ app'.timeout = 0
      /\ app'.total_deposit = 0 /\ app'.escrow = 0
      /\ app'.latest_alice_balance = 0 /\ app'.latest_bob_balance = 0
  BY <1>1, CreatedType
<1>6. Typed'
  BY <1>1, <1>2, <1>3 DEF Typed
<1>7. Fresh' /\ Logs'
  BY <1>1, <1>4 DEF Fresh, Logs
<1>8. Txns' /\ Paid'
  BY <1>1, <1>4 DEF Txns, Paid
<1>9. Phases'
  BY <1>1, <1>2, <1>4, <1>5 DEF Phases
<1>10. Contract'
  BY <1>1, <1>2, <1>4, <1>5 DEF Contract
<1> QED
  BY <1>6, <1>7, <1>8, <1>9, <1>10 DEF SInv

LEMMA SetupStep ==
  ASSUME SInv, OpenSetup
  PROVE  SInv'
<1>1. PICK t : t = Txn("fund", Alice, Call(opening.amount, 0, 0, NoSignature, NoSignature))
  OBVIOUS
<1>2. t.kind = "fund" /\ t.sender = Alice /\ t.call.alice_balance = opening.amount
  BY <1>1 DEF Txn, Call
<1>3. /\ opening.stage = "created" /\ mempool' = mempool \cup {t}
      /\ opening' = Opening("asking", opening.amount)
      /\ UNCHANGED <<app, round, payout, known, log, deleting, clock, losses, restarts,
                     orderly, agreed>>
  BY <1>1 DEF OpenSetup, Submit, history
<1>4. opening'.stage = "asking" /\ opening'.amount = opening.amount
  BY <1>3 DEF Opening
<1>5. Typed /\ Fresh /\ Phases /\ Contract
  BY DEF SInv
<1>6. /\ mempool = {} /\ payout = <<>> /\ app.timeout = 0 /\ app.total_deposit = 0
      /\ agreed = {} /\ ~known[Alice] /\ DOMAIN log[Alice] = {}
      /\ \A n \in Nodes : ~known[n] /\ DOMAIN log[n] = {}
  BY <1>3, <1>5 DEF Phases
<1>7. Typed'
  BY <1>3, <1>4, <1>5 DEF Typed
<1>8. Fresh'
  BY <1>3, <1>5 DEF Fresh
<1>9. Phases'
  BY <1>2, <1>3, <1>4, <1>6 DEF Phases
<1>10. GoodTxn(t)'
  BY <1>1, <1>2, <1>3, <1>4, <1>6 DEF GoodTxn, Nodes
<1>11. Remembers
  BY <1>3 DEF Remembers, LogKept
<1> QED
  BY <1>3, <1>4, <1>7, <1>8, <1>9, <1>10, <1>11, StepKeeps

\* A reading of a clock is newer than anything the node has stamped.
LEMMA NowParts ==
  ASSUME Typed, Fresh, NEW by \in Nodes, NEW ts \in Now(by)
  PROVE  /\ ts \in 1..MaxTime /\ StampedBy(by, ts) /\ ts > clock[by]
         /\ \A n \in Nodes : ts \notin DOMAIN log[n]
<1>1. ts \in 1..MaxTime /\ StampedBy(by, ts) /\ ts > clock[by]
  BY DEF Now
<1>2. clock[by] \in Int
  BY DEF Typed
<1>3. ~(ts <= clock[by])
  BY <1>1, <1>2
<1>4. \A n \in Nodes : ts \notin DOMAIN log[n]
  BY <1>1, <1>3 DEF Fresh
<1> QED
  BY <1>1, <1>4

LEMMA FreshStays ==
  ASSUME Typed, Fresh, NEW by \in Nodes, NEW ts \in Now(by),
         clock' = [clock EXCEPT ![by] = ts],
         \A n \in Nodes : DOMAIN log'[n] \subseteq DOMAIN log[n] \cup {ts}
  PROVE  Fresh' /\ clock' \in [Nodes -> 0..MaxTime]
<1>1. /\ ts \in 1..MaxTime /\ StampedBy(by, ts) /\ ts > clock[by]
  BY NowParts
<1>2. clock \in [Nodes -> 0..MaxTime] /\ \A n \in Nodes : DOMAIN log[n] \subseteq 1..MaxTime
  BY DEF Typed, IsLog
<1>3. clock' \in [Nodes -> 0..MaxTime]
  BY <1>1, <1>2
<1>4. \A k \in Nodes : clock'[k] = IF k = by THEN ts ELSE clock[k]
  BY <1>2
<1>5. ASSUME NEW n \in Nodes, NEW k \in Nodes, NEW us \in DOMAIN log'[n], StampedBy(k, us)
      PROVE  us <= clock'[k]
  <2>1. CASE us = ts
    <3>1. k = by
      BY <1>1, <1>5, <2>1, OneStamp, OtherNode
    <3> QED
      BY <1>1, <1>4, <2>1, <3>1
  <2>2. CASE us \in DOMAIN log[n]
    <3>1. us <= clock[k]
      BY <1>5, <2>2 DEF Fresh
    <3>2. us \in Int /\ clock[k] \in Int /\ clock[by] \in Int /\ ts \in Int
      BY <1>1, <1>2, <2>2
    <3>3. CASE k = by
      <4>1. us <= clock[by] /\ clock'[k] = ts
        BY <1>4, <3>1, <3>3
      <4> QED
        BY <1>1, <3>2, <4>1
    <3>4. CASE k # by
      BY <1>4, <3>1, <3>4
    <3> QED
      BY <3>3, <3>4
  <2> QED
    BY <2>1, <2>2
<1> QED
  BY <1>3, <1>5 DEF Fresh

LEMMA DepositFits ==
  ASSUME Contract, opening.stage # "no"
  PROVE  opening.amount \in Small \ {0} /\ opening.amount \in Nat
<1>1. Deposits \subseteq Small
  BY StateChannelAssumption DEF Small, Half
<1>2. opening.amount \in Deposits \ {0}
  BY DEF Contract
<1>3. \A x \in Small : x \in Nat
  BY DEF Small
<1> QED
  BY <1>1, <1>2, <1>3

LEMMA InitialParts ==
  ASSUME NEW alice \in Nat, NEW bob \in Nat, NEW ts
  PROVE  /\ IsEntry(InitialState(alice, bob, ts), ts)
         /\ Unsigned(InitialState(alice, bob, ts))
         /\ InitialState(alice, bob, ts).timestamp = ts
         /\ InitialState(alice, bob, ts).alice_balance = alice
         /\ InitialState(alice, bob, ts).bob_balance = bob
  BY DEF InitialState, OffChainEntry, IsEntry, Unsigned

\* A node records the channel and its first state.
LEMMA OpenStep ==
  ASSUME SInv, NEW n \in Nodes, NEW ts \in Now(n), NEW e, IsEntry(e, ts), First(n, e)',
         known' = [known EXCEPT ![n] = TRUE],
         log' = [log EXCEPT ![n] = Store(@, e)],
         clock' = [clock EXCEPT ![n] = ts],
         NEW stage \in {"approved", "open"}, opening' = Opening(stage, opening.amount),
         stage = "approved" => n = Bob /\ opening.stage = "asking",
         opening.stage # "no",
         UNCHANGED <<app, round, payout, mempool, deleting, losses, restarts, orderly, agreed>>
  PROVE  SInv'
<1>1. Typed /\ Fresh /\ Phases
  BY DEF SInv
<1>2. opening'.stage = stage /\ opening'.amount = opening.amount
  BY DEF Opening
<1>3. ts \in 1..MaxTime /\ \A k \in Nodes : ts \notin DOMAIN log[k]
  BY <1>1, NowParts
<1>4. /\ log' = [k \in Nodes |-> log'[k]]
      /\ \A k \in Nodes : IsLog(log'[k])
      /\ DOMAIN log'[n] = DOMAIN log[n] \cup {ts}
      /\ log'[n][ts] = e
      /\ \A us \in DOMAIN log[n] : us # ts => log'[n][us] = log[n][us]
      /\ log'[Other(n)] = log[Other(n)]
  BY <1>1, <1>3, SavedLog
<1>5. \A k \in Nodes : k = n \/ k = Other(n)
  BY OtherNode
<1>6. Fresh' /\ clock' \in [Nodes -> 0..MaxTime]
  <2>1. \A k \in Nodes : DOMAIN log'[k] \subseteq DOMAIN log[k] \cup {ts}
    BY <1>4, <1>5
  <2> QED
    BY <1>1, <2>1, FreshStays
<1>7. known' \in [Nodes -> BOOLEAN]
  BY <1>1 DEF Typed
<1>8. Typed'
  BY <1>1, <1>2, <1>4, <1>6, <1>7 DEF Typed
<1>9. Phases'
  <2>1. CASE stage = "open"
    BY <1>2, <2>1 DEF Phases
  <2>2. CASE stage = "approved"
    <3>1. n = Bob /\ opening.stage = "asking"
      BY <2>2
    <3>2. agreed = {} /\ ~known[Alice] /\ DOMAIN log[Alice] = {}
      BY <1>1, <3>1 DEF Phases
    <3>3. Alice \in Nodes /\ Alice # n /\ Other(n) = Alice
      BY <3>1, StateChannelAssumption DEF Nodes, Other
    <3>4. agreed' = {} /\ ~known'[Alice] /\ DOMAIN log'[Alice] = {}
      BY <1>1, <1>4, <3>2, <3>3 DEF Typed
    <3> QED
      BY <1>2, <2>2, <3>4 DEF Phases
  <2> QED
    BY <2>1, <2>2
<1>10. Remembers
  <2>1. LogKept
    BY <1>3, <1>4, <1>5 DEF LogKept
  <2> QED
    BY <2>1 DEF Remembers
<1>11. \A k \in Nodes : \A us \in DOMAIN log'[k] :
         \/ us \in DOMAIN log[k] /\ log'[k][us] = log[k][us]
         \/ First(k, log[k][us])' \/ Shared(k, log[k][us])'
  <2>1. First(n, log[n][ts])'
    BY <1>4
  <2> QED
    BY <1>4, <1>5, <2>1
<1> QED
  BY <1>2, <1>6, <1>8, <1>9, <1>10, <1>11, StepKeeps

LEMMA ApproveStep ==
  ASSUME SInv, NEW ts \in Now(Bob), OpenApprove(ts)
  PROVE  SInv'
<1>1. Bob \in Nodes /\ Typed /\ Fresh /\ Phases /\ Contract
  BY DEF SInv, Nodes
<1>2. /\ opening.stage = "asking"
      /\ UNCHANGED <<app, round, payout, mempool, deleting, losses, restarts, orderly, agreed>>
      /\ opening' = Opening("approved", opening.amount)
      /\ known' = [known EXCEPT ![Bob] = TRUE]
      /\ clock' = [clock EXCEPT ![Bob] = ts]
  BY DEF OpenApprove, OpenSaved, chain, history
<1>3. payout = <<>> /\ app.timeout = 0
  BY <1>1, <1>2 DEF Phases
<1>4. /\ app.latest_alice_balance = app.total_deposit /\ app.latest_bob_balance = 0
      /\ app.total_deposit \in {0, opening.amount}
      /\ app.latest_alice_balance \in Nat /\ app.latest_bob_balance \in Nat
  BY <1>1, <1>2, <1>3 DEF Contract, AppState
<1>5. PICK e : e = InitialState(app.latest_alice_balance, app.latest_bob_balance, ts)
  OBVIOUS
<1>6. /\ IsEntry(e, ts) /\ Unsigned(e) /\ e.timestamp = ts
      /\ e.alice_balance = app.latest_alice_balance /\ e.bob_balance = app.latest_bob_balance
  BY <1>4, <1>5, InitialParts
<1>7. log' = [log EXCEPT ![Bob] = Store(@, e)]
  BY <1>5 DEF OpenApprove, OpenSaved
<1>8. First(Bob, e)'
  <2>1. StampedBy(Bob, e.timestamp)
    BY <1>1, <1>6, NowParts
  <2>2. opening'.amount = opening.amount /\ app' = app
    BY <1>2 DEF Opening
  <2> QED
    BY <1>4, <1>6, <2>1, <2>2 DEF First
<1>9. "approved" \in {"approved", "open"}
  OBVIOUS
<1> QED
  BY <1>1, <1>2, <1>6, <1>7, <1>8, <1>9, OpenStep

LEMMA OpenedStep ==
  ASSUME SInv, NEW ts \in Now(Alice), OpenApproved(ts)
  PROVE  SInv'
<1>1. Alice \in Nodes /\ Alice # Bob /\ Typed /\ Fresh /\ Phases /\ Contract
  BY StateChannelAssumption DEF SInv, Nodes
<1>2. /\ opening.stage = "approved"
      /\ UNCHANGED <<app, round, payout, mempool, deleting, losses, restarts, orderly, agreed>>
      /\ opening' = Opening("open", opening.amount)
      /\ known' = [known EXCEPT ![Alice] = TRUE]
      /\ clock' = [clock EXCEPT ![Alice] = ts]
  BY DEF OpenApproved, OpenSaved, chain, history
<1>3. opening.amount \in Nat
  BY <1>1, <1>2, DepositFits
<1>4. PICK e : e = InitialState(opening.amount, 0, ts)
  OBVIOUS
<1>5. /\ IsEntry(e, ts) /\ Unsigned(e) /\ e.timestamp = ts
      /\ e.alice_balance = opening.amount /\ e.bob_balance = 0
  BY <1>3, <1>4, InitialParts
<1>6. log' = [log EXCEPT ![Alice] = Store(@, e)]
  BY <1>4 DEF OpenApproved, OpenSaved
<1>7. First(Alice, e)'
  <2>1. StampedBy(Alice, e.timestamp)
    BY <1>1, <1>5, NowParts
  <2>2. opening'.amount = opening.amount
    BY <1>2 DEF Opening
  <2> QED
    BY <1>1, <1>5, <2>1, <2>2 DEF First
<1>8. "open" \in {"approved", "open"} /\ "open" # "approved"
  OBVIOUS
<1> QED
  BY <1>1, <1>2, <1>5, <1>6, <1>7, <1>8, OpenStep

-----------------------------------------------------------------------------
(* Payments.                                                               *)
LEMMA SmallWord ==
  ASSUME NEW x \in Small
  PROVE  x \in Words /\ x \in Nat /\ Uint(x) = x
<1>1. x \in Words /\ x \in Nat
  BY HalfType DEF Small, Words
<1> QED
  BY <1>1, SmallUint

LEMMA EntryParts ==
  ASSUME SInv, opening.stage # "no", NEW n \in Nodes, NEW ts \in DOMAIN log[n]
  PROVE  LET e == log[n][ts]
             sum == e.alice_balance + e.bob_balance
         IN  /\ e.alice_balance \in Words /\ e.bob_balance \in Words
             /\ n = Alice => Uint(sum) = opening.amount
             /\ (n = Bob /\ Uint(sum) = opening.amount) =>
                  app.total_deposit = opening.amount
             /\ ~AllowOverdraft => sum = Uint(sum) /\ sum \in Small
<1>1. PICK e : e = log[n][ts]
  OBVIOUS
<1>2. PICK d : d = opening.amount
  OBVIOUS
<1>3. d \in Small /\ d # 0 /\ d \in Nat /\ Uint(d) = d /\ d \in Words
  BY <1>2, DepositFits, SmallWord DEF SInv
<1>4. e.alice_balance \in Nat /\ e.bob_balance \in Nat
  BY <1>1 DEF SInv, Typed, IsLog, IsEntry
<1>5. First(n, e) \/ Shared(n, e)
  BY <1>1 DEF SInv, Logs
<1>6. PICK a, b : a = e.alice_balance /\ b = e.bob_balance
  OBVIOUS
<1>7. a \in Nat /\ b \in Nat
  BY <1>4, <1>6
<1>8. Alice # Bob /\ 0 \in Small
  BY HalfType, StateChannelAssumption DEF Small
<1>9. CASE First(n, e)
  <2>1. /\ b = 0
        /\ a = d \/ (n = Bob /\ a = 0)
        /\ (a = d /\ n = Bob) => app.total_deposit = d
    BY <1>2, <1>3, <1>6, <1>9 DEF First
  <2>2. a \in Small /\ b \in Small /\ a + b = a
    BY <1>3, <1>7, <1>8, <2>1
  <2>3. a \in Words /\ b \in Words /\ Uint(a + b) = a
    BY <2>2, SmallWord
  <2>4. n = Alice => Uint(a + b) = d
    BY <1>8, <2>1, <2>3
  <2>5. (n = Bob /\ Uint(a + b) = d) => app.total_deposit = d
    BY <2>1, <2>3
  <2> QED
    BY <1>1, <1>2, <1>6, <2>2, <2>3, <2>4, <2>5
<1>10. CASE Shared(n, e)
  <2>1. /\ a \in Words /\ b \in Words /\ Uint(a + b) = d /\ app.total_deposit = d
        /\ ~AllowOverdraft => a + b = d
    BY <1>2, <1>6, <1>10 DEF Shared, Splits
  <2> QED
    BY <1>1, <1>2, <1>3, <1>6, <2>1
<1> QED
  BY <1>5, <1>9, <1>10

\* The two states a payment stores.
LEMMA StoredParts ==
  ASSUME NEW n \in Nodes, NEW ts, NEW r,
         r.alice_balance \in Nat, r.bob_balance \in Nat, r.timestamp = ts, r.from = n,
         r.signature = SignState(AppId, n, r.alice_balance, r.bob_balance, ts)
  PROVE  LET m == Other(n)
             received == ReceiverEntry(AppId, m, MeAlice(m), r)
             paid == PayerEntry(AppId, r, ReceiverSignature(AppId, m, r))
         IN  /\ IsEntry(received, ts) /\ IsEntry(paid, ts)
             /\ received.alice_balance = r.alice_balance
             /\ received.bob_balance = r.bob_balance
             /\ paid.alice_balance = r.alice_balance /\ paid.bob_balance = r.bob_balance
             /\ Proper(received)
             /\ n = Alice => Proper(paid)
             /\ n = Bob => Swapped(paid)
<1> DEFINE m == Other(n)
           received == ReceiverEntry(AppId, m, MeAlice(m), r)
           paid == PayerEntry(AppId, r, ReceiverSignature(AppId, m, r))
<1>1. /\ received.app_id = AppId /\ received.timestamp = ts
      /\ received.alice_balance = r.alice_balance /\ received.bob_balance = r.bob_balance
      /\ received.alice_signature = IF MeAlice(m) THEN ReceiverSignature(AppId, m, r)
                                                  ELSE r.signature
      /\ received.bob_signature = IF MeAlice(m) THEN r.signature
                                                ELSE ReceiverSignature(AppId, m, r)
  BY DEF ReceiverEntry, OffChainEntry
<1>2. /\ paid.app_id = AppId /\ paid.timestamp = ts
      /\ paid.alice_balance = r.alice_balance /\ paid.bob_balance = r.bob_balance
      /\ paid.alice_signature = r.signature
      /\ paid.bob_signature = ReceiverSignature(AppId, m, r)
  BY DEF PayerEntry, OffChainEntry
<1>3. ReceiverSignature(AppId, m, r)
        = SignState(AppId, m, r.alice_balance, r.bob_balance, ts)
  BY DEF ReceiverSignature
<1>4. \/ n = Alice /\ m = Bob /\ ~MeAlice(m)
      \/ n = Bob /\ m = Alice /\ MeAlice(m)
  BY StateChannelAssumption DEF Nodes, Other, MeAlice
<1> HIDE DEF m, received, paid
<1>5. IsEntry(received, ts) /\ IsEntry(paid, ts)
  BY <1>1, <1>2 DEF IsEntry
<1>6. Proper(received)
  BY <1>1, <1>3, <1>4 DEF Proper, SignedBy
<1>7. n = Alice => Proper(paid)
  BY <1>2, <1>3, <1>4, StateChannelAssumption DEF Proper, SignedBy
<1>8. n = Bob => Swapped(paid)
  BY <1>2, <1>3, <1>4, StateChannelAssumption DEF Swapped, SignedBy
<1> QED
  BY <1>1, <1>2, <1>5, <1>6, <1>7, <1>8 DEF m, received, paid

LEMMA PayParts ==
  ASSUME SInv, NEW n \in Nodes, NEW amount \in Amounts, NEW ts \in Now(n),
         NEW answered \in BOOLEAN, Pay(n, amount, ts, answered)
  PROVE  \E received, paid :
           /\ IsEntry(received, ts) /\ IsEntry(paid, ts)
           /\ HasSplit(paid, received.alice_balance, received.bob_balance)
           /\ Shared(Other(n), received)' /\ Shared(n, paid)'
           /\ agreed' = agreed \cup {<<received.alice_balance, received.bob_balance>>}
           /\ opening.stage \in {"open", "failed"}
           /\ HasLatest(log[n]) /\ HasLatest(log[Other(n)])
           /\ LatestTimestamp(log[Other(n)]) < ts
           /\ IF answered
              THEN /\ log' = [log EXCEPT ![Other(n)] = Store(log[Other(n)], received),
                                         ![n] = Store(log[n], paid)]
                   /\ losses' = losses
              ELSE /\ log' = [log EXCEPT ![Other(n)] = Store(log[Other(n)], received)]
                   /\ losses < MaxLosses /\ losses' = losses + 1
<1>1. PICK m : m = Other(n)
  OBVIOUS
<1>2. /\ m \in Nodes /\ m # n
      /\ (n = Alice /\ m = Bob) \/ (n = Bob /\ m = Alice)
  <2>1. n = Alice \/ n = Bob
    BY DEF Nodes
  <2> QED
    BY <1>1, <2>1, StateChannelAssumption DEF Nodes, Other
<1>3. PICK mine, last : mine = Latest(log[n]) /\ last = Latest(log[m])
  OBVIOUS
<1>4. PICK r : r = PayRequest(AppId, n, MeAlice(n), mine, amount, ts)
  OBVIOUS
<1>5. PICK received, paid :
        /\ received = ReceiverEntry(AppId, m, MeAlice(m), r)
        /\ paid = PayerEntry(AppId, r, ReceiverSignature(AppId, m, r))
  OBVIOUS
<1>6. /\ known[n] /\ known[m] /\ HasLatest(log[n]) /\ HasLatest(log[m])
      /\ ~AllowOverdraft => amount <= BalanceOf(MeAlice(n), mine)
      /\ Beneficial(MeAlice(m), last, r, app.penalty_reserve)
      /\ agreed' = agreed \cup {<<r.alice_balance, r.bob_balance>>}
      /\ UNCHANGED <<app, opening>>
  BY <1>1, <1>3, <1>4 DEF Pay, MayPay, PayAcceptable, chain
<1>7. IF answered
      THEN /\ log' = [log EXCEPT ![m] = Store(log[m], received), ![n] = Store(log[n], paid)]
           /\ losses' = losses
      ELSE /\ log' = [log EXCEPT ![m] = Store(log[m], received)]
           /\ losses < MaxLosses /\ losses' = losses + 1
  BY <1>1, <1>3, <1>4, <1>5 DEF Pay
<1>8. opening.stage \in {"open", "failed"}
  <2>1. known[Alice]
    BY <1>2, <1>6
  <2> QED
    BY <2>1 DEF SInv, Typed, Phases
<1>9. opening.stage # "no"
  BY <1>8
<1>10. IsLog(log[n]) /\ IsLog(log[m])
  BY <1>2 DEF SInv, Typed
<1>11. /\ LatestTimestamp(log[n]) \in DOMAIN log[n] /\ mine = log[n][LatestTimestamp(log[n])]
  BY <1>3, <1>6, <1>10, LatestIsEntry
<1>12. /\ LatestTimestamp(log[m]) \in DOMAIN log[m] /\ last = log[m][LatestTimestamp(log[m])]
       /\ last.timestamp = LatestTimestamp(log[m])
  BY <1>3, <1>6, <1>10, LatestIsEntry DEF IsEntry
<1>13. PICK d : d = opening.amount
  OBVIOUS
<1>14. /\ mine.alice_balance \in Words /\ mine.bob_balance \in Words
       /\ n = Alice => Uint(mine.alice_balance + mine.bob_balance) = d
       /\ (n = Bob /\ Uint(mine.alice_balance + mine.bob_balance) = d) =>
            app.total_deposit = d
       /\ ~AllowOverdraft =>
            /\ mine.alice_balance + mine.bob_balance
                 = Uint(mine.alice_balance + mine.bob_balance)
            /\ mine.alice_balance + mine.bob_balance \in Small
  BY <1>9, <1>11, <1>13, EntryParts
<1>15. /\ last.alice_balance \in Words /\ last.bob_balance \in Words
       /\ m = Alice => Uint(last.alice_balance + last.bob_balance) = d
       /\ (m = Bob /\ Uint(last.alice_balance + last.bob_balance) = d) =>
            app.total_deposit = d
  BY <1>2, <1>9, <1>12, <1>13, EntryParts
<1>16. /\ amount \in Nat /\ amount \in Words
       /\ MeAlice(n) \in BOOLEAN /\ MeAlice(m) \in BOOLEAN
       /\ mine.alice_balance \in Nat /\ mine.bob_balance \in Nat
  BY <1>14, StateChannelAssumption DEF MeAlice, Words
<1>17. /\ r.alice_balance \in Words /\ r.bob_balance \in Words
       /\ Uint(r.alice_balance + r.bob_balance)
            = Uint(mine.alice_balance + mine.bob_balance)
  BY <1>4, <1>14, <1>16, RequestSums
<1>18. /\ r.alice_balance \in Nat /\ r.bob_balance \in Nat
       /\ r.from = n /\ r.timestamp = ts
       /\ r.signature = SignState(AppId, n, r.alice_balance, r.bob_balance, ts)
  BY <1>4, <1>14, <1>16, RequestTyped
<1>19. /\ Uint(r.alice_balance + r.bob_balance)
            = Uint(last.alice_balance + last.bob_balance)
       /\ last.timestamp < r.timestamp
  BY <1>6, <1>15, <1>16, <1>17, BeneficialWords
<1>20. Uint(r.alice_balance + r.bob_balance) = d /\ app.total_deposit = d
  BY <1>2, <1>14, <1>15, <1>17, <1>19
<1>21. ~AllowOverdraft => r.alice_balance + r.bob_balance = d
  <2>1. ASSUME ~AllowOverdraft
        PROVE  r.alice_balance + r.bob_balance = mine.alice_balance + mine.bob_balance
    <3>1. mine.alice_balance \in Small /\ mine.bob_balance \in Small
      <4>1. PICK a, b : a = mine.alice_balance /\ b = mine.bob_balance
        OBVIOUS
      <4>2. a \in Nat /\ b \in Nat /\ a + b \in Small
        BY <1>14, <1>16, <2>1, <4>1
      <4> QED
        BY <4>1, <4>2, HalfType DEF Small
    <3>2. /\ mine.alice_balance + mine.bob_balance \in Small
          /\ amount <= BalanceOf(MeAlice(n), mine)
      BY <1>6, <1>14, <2>1
    <3> QED
      BY <1>4, <1>16, <3>1, <3>2, RequestParts
  <2> QED
    BY <1>14, <1>17, <1>20, <2>1
<1>22. /\ IsEntry(received, ts) /\ IsEntry(paid, ts)
       /\ received.alice_balance = r.alice_balance
       /\ received.bob_balance = r.bob_balance
       /\ paid.alice_balance = r.alice_balance /\ paid.bob_balance = r.bob_balance
       /\ Proper(received)
       /\ n = Alice => Proper(paid)
       /\ n = Bob => Swapped(paid)
  BY <1>1, <1>5, <1>18, StoredParts
<1>23. Splits(received)' /\ Splits(paid)'
  BY <1>6, <1>13, <1>17, <1>18, <1>22, <1>20, <1>21 DEF Splits
<1>24. StampedBy(n, ts) /\ paid.timestamp = ts
  BY <1>22 DEF Now, IsEntry
<1>25. Shared(m, received)' /\ Shared(n, paid)'
  BY <1>2, <1>22, <1>23, <1>24 DEF Shared
<1>26. /\ HasSplit(paid, received.alice_balance, received.bob_balance)
       /\ agreed' = agreed \cup {<<received.alice_balance, received.bob_balance>>}
       /\ LatestTimestamp(log[m]) < ts
  BY <1>6, <1>12, <1>18, <1>19, <1>22 DEF HasSplit
<1> QED
  BY <1>1, <1>6, <1>7, <1>8, <1>22, <1>25, <1>26

\* What the two logs are after a payment.
LEMMA PaidLogs ==
  ASSUME Typed, Fresh, NEW n \in Nodes, NEW ts \in Now(n), NEW received, NEW paid,
         IsEntry(received, ts), IsEntry(paid, ts),
         \/ log' = [log EXCEPT ![Other(n)] = Store(log[Other(n)], received),
                               ![n] = Store(log[n], paid)]
         \/ log' = [log EXCEPT ![Other(n)] = Store(log[Other(n)], received)]
  PROVE  /\ log' = [k \in Nodes |-> log'[k]]
         /\ \A k \in Nodes : IsLog(log'[k])
         /\ \A k \in Nodes : DOMAIN log'[k] \subseteq DOMAIN log[k] \cup {ts}
         /\ LogKept
         /\ DOMAIN log'[Other(n)] = DOMAIN log[Other(n)] \cup {ts}
         /\ log'[Other(n)][ts] = received
         /\ ts \in DOMAIN log'[n] => log'[n][ts] = paid
<1>1. PICK m : m = Other(n)
  OBVIOUS
<1>2. m \in Nodes /\ m # n /\ \A k \in Nodes : k = n \/ k = m
  BY <1>1, OtherNode
<1>3. /\ log = [k \in Nodes |-> log[k]] /\ IsLog(log[n]) /\ IsLog(log[m])
      /\ ts \in 1..MaxTime /\ ts \notin DOMAIN log[n] /\ ts \notin DOMAIN log[m]
  BY <1>2, NowParts DEF Typed
<1>4. received.timestamp = ts /\ paid.timestamp = ts
  BY DEF IsEntry
<1>5. /\ log' = [k \in Nodes |-> log'[k]]
      /\ log'[m] = Store(log[m], received)
      /\ log'[n] = log[n] \/ log'[n] = Store(log[n], paid)
  BY <1>1, <1>2, <1>3
<1>6. IsLog(log'[m]) /\ IsLog(log'[n])
  BY <1>3, <1>5, StoreIsLog
<1>7. /\ DOMAIN log'[m] = DOMAIN log[m] \cup {ts} /\ log'[m][ts] = received
      /\ \A us \in DOMAIN log[m] : us # ts => log'[m][us] = log[m][us]
  BY <1>4, <1>5 DEF Store
<1>8. /\ DOMAIN log'[n] = DOMAIN log[n] \/ DOMAIN log'[n] = DOMAIN log[n] \cup {ts}
      /\ ts \in DOMAIN log'[n] => log'[n][ts] = paid
      /\ \A us \in DOMAIN log[n] : us # ts => log'[n][us] = log[n][us]
  BY <1>3, <1>4, <1>5 DEF Store
<1>9. LogKept
  BY <1>2, <1>3, <1>7, <1>8 DEF LogKept
<1> QED
  BY <1>1, <1>2, <1>5, <1>6, <1>7, <1>8, <1>9

LEMMA PayStep ==
  ASSUME SInv, NEW n \in Nodes, NEW amount \in Amounts, NEW ts \in Now(n),
         NEW answered \in BOOLEAN, Pay(n, amount, ts, answered)
  PROVE  SInv'
<1>1. Typed /\ Fresh /\ Phases
  BY DEF SInv
<1>2. PICK received, paid :
        /\ IsEntry(received, ts) /\ IsEntry(paid, ts)
        /\ HasSplit(paid, received.alice_balance, received.bob_balance)
        /\ Shared(Other(n), received)' /\ Shared(n, paid)'
        /\ agreed' = agreed \cup {<<received.alice_balance, received.bob_balance>>}
        /\ opening.stage \in {"open", "failed"}
        /\ HasLatest(log[n]) /\ HasLatest(log[Other(n)])
        /\ LatestTimestamp(log[Other(n)]) < ts
        /\ IF answered
           THEN /\ log' = [log EXCEPT ![Other(n)] = Store(log[Other(n)], received),
                                      ![n] = Store(log[n], paid)]
                /\ losses' = losses
           ELSE /\ log' = [log EXCEPT ![Other(n)] = Store(log[Other(n)], received)]
                /\ losses < MaxLosses /\ losses' = losses + 1
  BY PayParts
<1>3. /\ UNCHANGED <<app, round, mempool, payout, opening, known, deleting, restarts>>
      /\ clock' = [clock EXCEPT ![n] = ts]
      /\ orderly' = (orderly /\ ~ClosingBegun)
  BY DEF Pay, chain, Disturbed
<1>4. \/ log' = [log EXCEPT ![Other(n)] = Store(log[Other(n)], received),
                            ![n] = Store(log[n], paid)]
      \/ log' = [log EXCEPT ![Other(n)] = Store(log[Other(n)], received)]
  BY <1>2
<1>5. /\ log' = [k \in Nodes |-> log'[k]]
      /\ \A k \in Nodes : IsLog(log'[k])
      /\ \A k \in Nodes : DOMAIN log'[k] \subseteq DOMAIN log[k] \cup {ts}
      /\ LogKept
      /\ DOMAIN log'[Other(n)] = DOMAIN log[Other(n)] \cup {ts}
      /\ log'[Other(n)][ts] = received
      /\ ts \in DOMAIN log'[n] => log'[n][ts] = paid
  BY <1>1, <1>2, <1>4, PaidLogs
<1>6. Fresh' /\ clock' \in [Nodes -> 0..MaxTime]
  BY <1>1, <1>3, <1>5, FreshStays
<1>7. losses' \in 0..MaxLosses
  BY <1>1, <1>2, StateChannelAssumption DEF Typed
<1>8. orderly' \in BOOLEAN
  BY <1>1, <1>3 DEF Typed
<1>9. agreed' \subseteq Nat \X Nat
  BY <1>1, <1>2 DEF Typed, IsEntry
<1>10. Typed'
  BY <1>1, <1>3, <1>5, <1>6, <1>7, <1>8, <1>9 DEF Typed
<1>11. Phases'
  BY <1>2, <1>3 DEF Phases
<1>12. Remembers /\ agreed \subseteq agreed'
  BY <1>2, <1>3, <1>5 DEF Remembers
<1>13. \A k \in Nodes : \A us \in DOMAIN log'[k] :
         \/ us \in DOMAIN log[k] /\ log'[k][us] = log[k][us]
         \/ First(k, log[k][us])' \/ Shared(k, log[k][us])'
  <2>1. ASSUME NEW k \in Nodes, NEW us \in DOMAIN log'[k], us \in DOMAIN log[k]
        PROVE  log'[k][us] = log[k][us]
    BY <1>5, <2>1 DEF LogKept
  <2>2. ASSUME NEW k \in Nodes, ts \in DOMAIN log'[k]
        PROVE  Shared(k, log[k][ts])'
    <3>1. CASE k = n
      BY <1>2, <1>5, <2>2, <3>1
    <3>2. CASE k = Other(n)
      BY <1>2, <1>5, <3>2
    <3> QED
      BY <3>1, <3>2, OtherNode
  <2> QED
    BY <1>5, <2>1, <2>2
<1> QED
  BY <1>3, <1>6, <1>10, <1>11, <1>12, <1>13, StepKeeps

-----------------------------------------------------------------------------
(* The ledger.                                                             *)
LEMMA TakenParts ==
  ASSUME SInv, NEW t \in mempool
  PROVE  /\ GoodTxn(t)
         /\ opening.stage \notin {"no", "created"}
         /\ t.kind # "fund" => opening.stage # "asking"
         /\ app \in AppState
         /\ opening.amount \in Nat \ {0}
<1>1. opening.stage \notin {"no", "created"}
  BY DEF SInv, Phases
<1>2. t.kind # "fund" => opening.stage # "asking"
  BY DEF SInv, Phases
<1>3. app \in AppState /\ opening.amount \in Deposits \ {0}
  BY <1>1 DEF SInv, Contract
<1>4. opening.amount \in Nat
  BY <1>1, DepositFits DEF SInv
<1> QED
  BY <1>1, <1>2, <1>3, <1>4 DEF SInv, Txns

LEMMA LedgerStep ==
  ASSUME SInv, opening.stage \notin {"no", "created", "asking"},
         app'.total_deposit = app.total_deposit,
         mempool' \subseteq mempool,
         UNCHANGED <<round, opening, known, log, deleting, clock, losses, restarts,
                     orderly, agreed>>,
         Contract', Paid'
  PROVE  SInv'
<1>1. Typed' /\ Fresh'
  BY DEF SInv, Typed, Fresh
<1>2. Logs'
  <2>1. ASSUME NEW n \in Nodes, NEW ts \in DOMAIN log[n]
        PROVE  (First(n, log[n][ts]) \/ Shared(n, log[n][ts]))'
    <3>1. PICK e : e = log[n][ts]
      OBVIOUS
    <3>2. First(n, e) \/ Shared(n, e)
      BY <3>1 DEF SInv, Logs
    <3>3. (First(n, e) \/ Shared(n, e))'
      BY <3>2, StateStays
    <3> QED
      BY <3>1, <3>3
  <2> QED
    BY <2>1 DEF Logs
<1>3. Txns'
  <2>1. Remembers
    BY DEF Remembers, LogKept
  <2> QED
    BY <2>1, TxnStays DEF SInv, Txns
<1>4. Phases'
  BY DEF SInv, Phases
<1> QED
  BY <1>1, <1>2, <1>3, <1>4 DEF SInv

LEMMA FundedFields ==
  ASSUME NEW a \in AppState, NEW amount \in Nat
  PROVE  /\ Funded(a, amount) \in AppState
         /\ Funded(a, amount).timeout = a.timeout
         /\ Funded(a, amount).total_deposit = amount
         /\ Funded(a, amount).escrow = a.escrow + amount
         /\ Funded(a, amount).latest_alice_balance = amount
         /\ Funded(a, amount).latest_bob_balance = a.latest_bob_balance
<1> DEFINE total == a.escrow + amount
<1>1. a.escrow \in Nat /\ total \in Nat
  BY DEF AppState
<1>2. Funded(a, amount) = [a EXCEPT !.latest_alice_balance = amount,
                                    !.total_deposit = amount, !.escrow = total]
  BY DEF Funded
<1> HIDE DEF total
<1>3. /\ Funded(a, amount) \in AppState
      /\ Funded(a, amount).timeout = a.timeout
      /\ Funded(a, amount).total_deposit = amount
      /\ Funded(a, amount).escrow = total
      /\ Funded(a, amount).latest_alice_balance = amount
      /\ Funded(a, amount).latest_bob_balance = a.latest_bob_balance
  BY <1>1, <1>2 DEF AppState
<1> QED
  BY <1>3 DEF total

LEMMA FundStep ==
  ASSUME SInv, NEW t \in mempool, t.kind = "fund", TakeState(t)
  PROVE  SInv'
<1>1. PICK d : d = opening.amount
  OBVIOUS
<1>2. /\ GoodTxn(t) /\ app \in AppState /\ d \in Nat \ {0}
      /\ opening.stage \notin {"no", "created"}
  BY <1>1, TakenParts
<1>3. /\ t = Txn("fund", Alice, Call(d, 0, 0, NoSignature, NoSignature))
      /\ app.total_deposit = 0 /\ t.call.alice_balance = d
  BY <1>1, <1>2 DEF GoodTxn
<1>4. /\ app' = Funded(app, d) /\ mempool' = mempool \ {t}
      /\ UNCHANGED <<round, payout, opening, known, log, deleting, clock, losses, restarts,
                     orderly, agreed>>
  BY <1>3 DEF TakeState, Recorded, nodes, history
<1>5. /\ app' \in AppState /\ app'.timeout = app.timeout /\ app'.total_deposit = d
      /\ app'.escrow = app.escrow + d /\ app'.latest_alice_balance = d
      /\ app'.latest_bob_balance = app.latest_bob_balance
  BY <1>2, <1>4, FundedFields
<1>6. /\ app.timeout = 0 /\ payout = <<>> /\ app.escrow = 0
      /\ app.latest_bob_balance = 0
  BY <1>1, <1>2, <1>3 DEF SInv, Contract
<1>7. \A c : ~Splits(c)
  BY <1>1, <1>2, <1>3 DEF Splits
<1>8. Typed' /\ Fresh'
  BY <1>4 DEF SInv, Typed, Fresh
<1>9. Logs'
  <2>1. ASSUME NEW n \in Nodes, NEW ts \in DOMAIN log[n]
        PROVE  First(n, log[n][ts])'
    <3>1. First(n, log[n][ts])
      BY <1>7 DEF SInv, Logs, Shared
    <3> QED
      BY <1>1, <1>4, <1>5, <3>1 DEF First
  <2> QED
    BY <1>4, <2>1 DEF Logs
<1>10. Txns'
  <2>1. ASSUME NEW x \in mempool'
        PROVE  GoodTxn(x)'
    <3>1. x \in mempool /\ x # t /\ GoodTxn(x)
      BY <1>4 DEF SInv, Txns
    <3>2. x.kind # "fund"
      BY <1>1, <1>3, <3>1 DEF GoodTxn
    <3>3. x.kind # "cooperative" /\ ~Enforceable(x.call)
      BY <1>7, <3>1 DEF GoodTxn, Enforceable
    <3> QED
      BY <3>1, <3>2, <3>3 DEF GoodTxn
  <2> QED
    BY <2>1 DEF Txns
<1>11. Phases'
  BY <1>2, <1>4, <1>5, <1>6 DEF SInv, Phases
<1>12. Contract'
  BY <1>1, <1>2, <1>4, <1>5, <1>6 DEF SInv, Contract
<1>13. Paid'
  BY <1>4, <1>6 DEF Paid
<1> QED
  BY <1>8, <1>9, <1>10, <1>11, <1>12, <1>13 DEF SInv

LEMMA InitiatedFields ==
  ASSUME NEW a \in AppState, NEW call, call.alice_balance \in Nat, call.bob_balance \in Nat,
         call.timestamp \in Nat, NEW sender, NEW r \in Nat \ {0}
  PROVE  LET b == Initiated(a, sender, call, r)
         IN  /\ b \in AppState
             /\ b.timeout # 0
             /\ b.total_deposit = a.total_deposit /\ b.escrow = a.escrow
             /\ b.latest_alice_balance = call.alice_balance
             /\ b.latest_bob_balance = call.bob_balance
<1> DEFINE w == WithState(a, call)
           who == IF sender = a.alice_address THEN "alice" ELSE "bob"
           timeout == r + a.dispute_window
           b == Initiated(a, sender, call, r)
<1>1. /\ w \in AppState /\ w.total_deposit = a.total_deposit /\ w.escrow = a.escrow
      /\ w.latest_alice_balance = call.alice_balance
      /\ w.latest_bob_balance = call.bob_balance
  BY DEF WithState, AppState
<1>2. a.dispute_window \in Nat
  BY StateChannelAssumption DEF AppState
<1>3. timeout \in Nat /\ timeout # 0 /\ who \in {"none", "alice", "bob"}
  BY <1>2
<1>4. b = [w EXCEPT !.closing_initiator = who, !.timeout = timeout]
  BY DEF Initiated
<1> HIDE DEF w, who, timeout, b
<1>5. /\ b \in AppState /\ b.timeout = timeout
      /\ b.total_deposit = w.total_deposit /\ b.escrow = w.escrow
      /\ b.latest_alice_balance = w.latest_alice_balance
      /\ b.latest_bob_balance = w.latest_bob_balance
  BY <1>1, <1>3, <1>4 DEF AppState
<1>6. /\ b \in AppState /\ b.timeout # 0
      /\ b.total_deposit = a.total_deposit /\ b.escrow = a.escrow
      /\ b.latest_alice_balance = call.alice_balance
      /\ b.latest_bob_balance = call.bob_balance
  BY <1>1, <1>3, <1>5
<1> QED
  BY <1>6 DEF b

LEMMA TakeInitiateParts ==
  ASSUME SInv, NEW t \in mempool, t.kind = "initiate", TakeState(t)
  PROVE  /\ opening.stage \notin {"no", "created", "asking"}
         /\ Proper(t.call) /\ Enforceable(t.call)
         /\ t.call.alice_balance + t.call.bob_balance = app.total_deposit
         /\ app' \in AppState /\ app'.timeout # 0
         /\ app'.total_deposit = app.total_deposit /\ app'.escrow = app.escrow
         /\ app'.latest_alice_balance = t.call.alice_balance
         /\ app'.latest_bob_balance = t.call.bob_balance
<1>1. /\ GoodTxn(t) /\ app \in AppState
      /\ opening.stage \notin {"no", "created", "asking"}
  BY TakenParts
<1>2. /\ BothSigned(app, STATE_UPDATE, t.call)
      /\ t.call.alice_balance + t.call.bob_balance = app.total_deposit
      /\ app' = Initiated(app, t.sender, t.call, round)
  BY DEF TakeState, HasEffect, InitiateTakesEffect, SumsToDeposit, Recorded
<1>3. Proper(t.call)
  BY <1>1, <1>2, StateSigned
<1>4. ~Swapped(t.call) /\ ~Unsigned(t.call)
  BY <1>1, <1>2, <1>3, SwappedIsNotProper, OneSignatureEach
<1>5. Enforceable(t.call) /\ t.call.timestamp \in Nat
  BY <1>1, <1>4 DEF GoodTxn
<1>6. /\ t.call.alice_balance \in Nat /\ t.call.bob_balance \in Nat
      /\ round \in Nat \ {0}
  BY <1>5 DEF Enforceable, Splits, SInv, Typed
<1>7. LET b == Initiated(app, t.sender, t.call, round)
      IN  /\ b \in AppState
          /\ b.timeout # 0
          /\ b.total_deposit = app.total_deposit /\ b.escrow = app.escrow
          /\ b.latest_alice_balance = t.call.alice_balance
          /\ b.latest_bob_balance = t.call.bob_balance
  BY <1>1, <1>5, <1>6, InitiatedFields
<1> QED
  BY <1>1, <1>2, <1>3, <1>5, <1>7

\* The ledger takes no dispute of a watchtower.
LEMMA DisputeIsVain ==
  ASSUME SInv, NEW t \in mempool, TakeState(t)
  PROVE  t.kind # "dispute"
<1>1. SUFFICES ASSUME t.kind = "dispute" PROVE FALSE
  OBVIOUS
<1>2. GoodTxn(t) /\ app \in AppState
  BY TakenParts
<1>3. DisputeTakesEffect(app, t.call)
  BY <1>1 DEF TakeState, HasEffect
<1>4. Unsigned(t.call) \/ Swapped(t.call) \/ Proper(t.call)
  BY <1>1, <1>2 DEF GoodTxn
<1> QED
  BY <1>2, <1>3, <1>4, NoDispute

LEMMA TakeStateStep ==
  ASSUME SInv, NEW t \in mempool, TakeState(t)
  PROVE  SInv'
<1>1. CASE t.kind = "fund"
  BY <1>1, FundStep
<1>2. CASE t.kind = "initiate"
  <2>1. /\ opening.stage \notin {"no", "created", "asking"}
        /\ Proper(t.call) /\ Enforceable(t.call)
        /\ t.call.alice_balance + t.call.bob_balance = app.total_deposit
        /\ app' \in AppState /\ app'.timeout # 0
        /\ app'.total_deposit = app.total_deposit /\ app'.escrow = app.escrow
        /\ app'.latest_alice_balance = t.call.alice_balance
        /\ app'.latest_bob_balance = t.call.bob_balance
    BY <1>2, TakeInitiateParts
  <2>2. /\ mempool' \subseteq mempool
        /\ UNCHANGED <<round, payout, opening, known, log, deleting, clock, losses,
                       restarts, orderly, agreed>>
    BY DEF TakeState, nodes, history
  <2>3. Remembers
    BY <2>2 DEF Remembers, LogKept
  <2>4. Paid'
    BY <2>2, <2>3, PaidStays DEF SInv
  <2>5. PICK alice, bob : alice = t.call.alice_balance /\ bob = t.call.bob_balance
    OBVIOUS
  <2>6. /\ app.total_deposit = opening.amount /\ alice + bob = opening.amount
        /\ <<alice, bob>> \in agreed /\ Provable(alice, bob)
    BY <2>1, <2>5 DEF Enforceable, Splits
  <2>7. Provable(alice, bob)'
    BY <2>3, <2>6, ProvableStays
  <2>8. Contract'
    BY <2>1, <2>2, <2>5, <2>6, <2>7 DEF SInv, Contract
  <2> QED
    BY <2>1, <2>2, <2>4, <2>8, LedgerStep
<1>3. t.kind # "dispute"
  BY DisputeIsVain
<1> QED
  BY <1>1, <1>2, <1>3 DEF TakeState

LEMMA PaidOutEmpties ==
  ASSUME NEW a \in AppState
  PROVE  PaidOut(a) = [a EXCEPT !.escrow = 0]
<1>1. PICK e, b, f : e = a.escrow /\ b = a.latest_bob_balance /\ f = MinTxnFee
  OBVIOUS
<1>2. e \in Int /\ b \in Int /\ f \in Int
  BY <1>1, MinTxnFeeAssumption DEF AppState
<1>3. e - (b - f) - (e - b - f) - 2 * f = 0
  BY <1>2
<1>4. PaidOut(a) = [a EXCEPT !.escrow = e - (b - f) - (e - b - f) - 2 * f]
  BY <1>1 DEF PaidOut, BobReceives, AliceReceives
<1> QED
  BY <1>3, <1>4

\* Paying out a split of the deposit empties the escrow.
LEMMA PayoutParts ==
  ASSUME NEW a \in AppState, CanPayOut(a), NEW held \in Nat,
         a.latest_alice_balance + a.latest_bob_balance = held,
         a.escrow \in {0, held}
  PROVE  /\ a.escrow = held /\ held # 0
         /\ AliceReceives(a) = a.latest_alice_balance - MinTxnFee
         /\ BobReceives(a) = a.latest_bob_balance - MinTxnFee
         /\ AliceReceives(a) \in Nat /\ BobReceives(a) \in Nat
         /\ PaidOut(a) \in AppState /\ PaidOut(a).escrow = 0
         /\ PaidOut(a).timeout = a.timeout
         /\ PaidOut(a).total_deposit = a.total_deposit
         /\ PaidOut(a).latest_alice_balance = a.latest_alice_balance
         /\ PaidOut(a).latest_bob_balance = a.latest_bob_balance
<1>1. /\ a.latest_alice_balance \in Nat /\ a.latest_bob_balance \in Nat
      /\ a.escrow \in Nat /\ MinTxnFee \in Nat \ {0}
  BY MinTxnFeeAssumption DEF AppState
<1>2. /\ a.latest_alice_balance >= MinTxnFee /\ a.latest_bob_balance >= MinTxnFee
      /\ a.escrow >= a.latest_alice_balance + a.latest_bob_balance
  BY DEF CanPayOut
<1>3. a.escrow = held /\ held # 0
  BY <1>1, <1>2
<1>4. /\ AliceReceives(a) = a.latest_alice_balance - MinTxnFee
      /\ BobReceives(a) = a.latest_bob_balance - MinTxnFee
      /\ AliceReceives(a) \in Nat /\ BobReceives(a) \in Nat
  BY <1>1, <1>2, <1>3 DEF AliceReceives, BobReceives
<1>5. /\ PaidOut(a) \in AppState /\ PaidOut(a).escrow = 0
      /\ PaidOut(a).timeout = a.timeout
      /\ PaidOut(a).total_deposit = a.total_deposit
      /\ PaidOut(a).latest_alice_balance = a.latest_alice_balance
      /\ PaidOut(a).latest_bob_balance = a.latest_bob_balance
  BY PaidOutEmpties DEF AppState
<1> QED
  BY <1>3, <1>4, <1>5

\* What the ledger is about to pay out is a split both have signed.
LEMMA PayoutSplit ==
  ASSUME SInv, NEW t \in mempool, TakePayout(t)
  PROVE  /\ opening.stage \notin {"no", "created", "asking"}
         /\ opening.amount \in Nat
         /\ Recorded(t) \in AppState /\ CanPayOut(Recorded(t))
         /\ Recorded(t).total_deposit = opening.amount
         /\ app.total_deposit = opening.amount
         /\ Recorded(t).escrow = app.escrow
         /\ app.escrow = IF payout = <<>> THEN opening.amount ELSE 0
         /\ Recorded(t).latest_alice_balance + Recorded(t).latest_bob_balance
              = opening.amount
         /\ <<Recorded(t).latest_alice_balance, Recorded(t).latest_bob_balance>> \in agreed
         /\ Provable(Recorded(t).latest_alice_balance, Recorded(t).latest_bob_balance)
<1>1. /\ GoodTxn(t) /\ app \in AppState /\ opening.amount \in Nat \ {0}
      /\ opening.stage \notin {"no", "created", "asking"}
  BY TakenParts DEF TakePayout
<1>2. /\ app.escrow = IF payout = <<>> THEN app.total_deposit ELSE 0
      /\ (app.timeout = 0 /\ payout = <<>>) => app.latest_bob_balance = 0
      /\ (app.timeout # 0 \/ payout # <<>>) =>
           /\ app.total_deposit = opening.amount
           /\ app.latest_alice_balance + app.latest_bob_balance = opening.amount
           /\ <<app.latest_alice_balance, app.latest_bob_balance>> \in agreed
           /\ Provable(app.latest_alice_balance, app.latest_bob_balance)
  BY <1>1 DEF SInv, Contract
<1>3. CASE t.kind = "cooperative"
  <2>1. /\ Recorded(t) = WithState(app, t.call)
        /\ CanPayOut(WithState(app, t.call))
        /\ t.call.alice_balance + t.call.bob_balance = app.total_deposit
    BY <1>3 DEF TakePayout, Recorded, HasEffect, CoopCloseTakesEffect, SumsToDeposit
  <2>2. Enforceable(t.call) /\ t.call.timestamp \in Nat
    BY <1>1, <1>3 DEF GoodTxn
  <2>3. t.call.alice_balance \in Nat /\ t.call.bob_balance \in Nat
    BY <2>2 DEF Enforceable, Splits
  <2>4. /\ WithState(app, t.call) \in AppState
        /\ WithState(app, t.call).total_deposit = app.total_deposit
        /\ WithState(app, t.call).escrow = app.escrow
        /\ WithState(app, t.call).latest_alice_balance = t.call.alice_balance
        /\ WithState(app, t.call).latest_bob_balance = t.call.bob_balance
    BY <1>1, <2>2, <2>3 DEF WithState, AppState
  <2>5. /\ app.total_deposit = opening.amount
        /\ t.call.alice_balance + t.call.bob_balance = opening.amount
        /\ <<t.call.alice_balance, t.call.bob_balance>> \in agreed
        /\ Provable(t.call.alice_balance, t.call.bob_balance)
    BY <2>1, <2>2 DEF Enforceable, Splits
  <2> QED
    BY <1>1, <1>2, <2>1, <2>4, <2>5
<1>4. CASE t.kind = "finalize"
  <2>1. Recorded(t) = app /\ CanPayOut(app)
    BY <1>4 DEF TakePayout, Recorded, HasEffect, FinalizeTakesEffect
  <2>2. app.latest_bob_balance # 0
    <3>1. app.latest_bob_balance >= MinTxnFee /\ app.latest_bob_balance \in Nat
      BY <1>1, <2>1 DEF CanPayOut, AppState
    <3> QED
      BY <3>1, MinTxnFeeAssumption
  <2>3. app.timeout # 0 \/ payout # <<>>
    BY <1>2, <2>2
  <2> QED
    BY <1>1, <1>2, <2>1, <2>3
<1> QED
  BY <1>3, <1>4 DEF TakePayout

LEMMA TakePayoutParts ==
  ASSUME SInv, NEW t \in mempool, TakePayout(t)
  PROVE  \E alice, bob \in Nat :
           /\ alice = Recorded(t).latest_alice_balance
           /\ bob = Recorded(t).latest_bob_balance
           /\ payout = <<>> /\ payout' = <<alice - MinTxnFee, bob - MinTxnFee>>
           /\ alice - MinTxnFee \in Nat /\ bob - MinTxnFee \in Nat
           /\ alice + bob = opening.amount /\ <<alice, bob>> \in agreed
           /\ Provable(alice, bob)
           /\ app.escrow = opening.amount /\ app.total_deposit = opening.amount
           /\ app.escrow > 0
           /\ app' \in AppState /\ app'.escrow = 0
           /\ app'.total_deposit = opening.amount
           /\ app'.latest_alice_balance = alice /\ app'.latest_bob_balance = bob
<1>1. PICK a : a = Recorded(t)
  OBVIOUS
<1>2. PICK d : d = opening.amount
  OBVIOUS
<1>3. /\ d \in Nat /\ a \in AppState /\ CanPayOut(a)
      /\ a.total_deposit = d /\ app.total_deposit = d
      /\ a.escrow = app.escrow
      /\ app.escrow = IF payout = <<>> THEN d ELSE 0
      /\ a.latest_alice_balance + a.latest_bob_balance = d
      /\ <<a.latest_alice_balance, a.latest_bob_balance>> \in agreed
      /\ Provable(a.latest_alice_balance, a.latest_bob_balance)
  BY <1>1, <1>2, PayoutSplit
<1>4. a.escrow \in {0, d}
  BY <1>3
<1>5. /\ a.escrow = d /\ d # 0
      /\ AliceReceives(a) = a.latest_alice_balance - MinTxnFee
      /\ BobReceives(a) = a.latest_bob_balance - MinTxnFee
      /\ AliceReceives(a) \in Nat /\ BobReceives(a) \in Nat
      /\ PaidOut(a) \in AppState /\ PaidOut(a).escrow = 0
      /\ PaidOut(a).timeout = a.timeout
      /\ PaidOut(a).total_deposit = a.total_deposit
      /\ PaidOut(a).latest_alice_balance = a.latest_alice_balance
      /\ PaidOut(a).latest_bob_balance = a.latest_bob_balance
  BY <1>3, <1>4, PayoutParts
<1>6. app' = PaidOut(a) /\ payout' = <<AliceReceives(a), BobReceives(a)>>
  BY <1>1 DEF TakePayout
<1>7. PICK alice, bob : alice = a.latest_alice_balance /\ bob = a.latest_bob_balance
  OBVIOUS
<1>8. alice \in Nat /\ bob \in Nat
  BY <1>3, <1>7 DEF AppState
<1>9. payout = <<>> /\ app.escrow = d /\ app.escrow > 0
  BY <1>3, <1>5
<1> QED
  BY <1>1, <1>2, <1>3, <1>5, <1>6, <1>7, <1>8, <1>9

LEMMA TakePayoutStep ==
  ASSUME SInv, NEW t \in mempool, TakePayout(t)
  PROVE  SInv'
<1>1. PICK alice \in Nat, bob \in Nat :
           /\ alice = Recorded(t).latest_alice_balance
           /\ bob = Recorded(t).latest_bob_balance
           /\ payout = <<>> /\ payout' = <<alice - MinTxnFee, bob - MinTxnFee>>
           /\ alice - MinTxnFee \in Nat /\ bob - MinTxnFee \in Nat
           /\ alice + bob = opening.amount /\ <<alice, bob>> \in agreed
           /\ Provable(alice, bob)
           /\ app.escrow = opening.amount /\ app.total_deposit = opening.amount
           /\ app.escrow > 0
           /\ app' \in AppState /\ app'.escrow = 0
           /\ app'.total_deposit = opening.amount
           /\ app'.latest_alice_balance = alice /\ app'.latest_bob_balance = bob
  BY TakePayoutParts
<1>2. opening.stage \notin {"no", "created", "asking"}
  BY PayoutSplit
<1>3. /\ mempool' \subseteq mempool
      /\ UNCHANGED <<round, opening, known, log, deleting, clock, losses,
                     restarts, orderly, agreed>>
  BY DEF TakePayout, nodes, history
<1>4. Provable(alice, bob)'
  <2>1. Remembers
    BY <1>3 DEF Remembers, LogKept
  <2> QED
    BY <1>1, <2>1, ProvableStays
<1>5. payout' # <<>>
  BY <1>1
<1>6. Contract'
  BY <1>1, <1>3, <1>4, <1>5 DEF SInv, Contract
<1>7. Paid'
  BY <1>1, <1>4 DEF Paid
<1> QED
  BY <1>1, <1>2, <1>3, <1>6, <1>7, LedgerStep

-----------------------------------------------------------------------------
(* The theorems.                                                           *)
LEMMA InitSInv == Init => SInv
<1> SUFFICES ASSUME Init PROVE SInv
  OBVIOUS
<1>1. opening.stage = "no" /\ opening.amount = 0
  BY DEF Init, Opening
<1>2. \A n \in Nodes : log[n] = EmptyLog /\ DOMAIN log[n] = {} /\ ~known[n]
  BY EmptyIsLog DEF Init
<1>3. Alice \in Nodes
  BY DEF Nodes
<1>4. Typed
  <2>1. /\ round \in 1..MaxRound /\ losses \in 0..MaxLosses /\ restarts \in 0..MaxRestarts
        /\ clock \in [Nodes -> 0..MaxTime]
    BY StateChannelAssumption DEF Init
  <2>2. /\ known \in [Nodes -> BOOLEAN]
        /\ deleting \in [Nodes -> SUBSET {"call", "watchtower"}]
        /\ orderly \in BOOLEAN /\ agreed \subseteq Nat \X Nat
        /\ log = [n \in Nodes |-> log[n]]
    BY DEF Init
  <2> QED
    BY <1>1, <1>2, <2>1, <2>2, EmptyIsLog DEF Typed
<1>5. Fresh /\ Logs
  BY <1>2 DEF Fresh, Logs
<1>6. Txns /\ Paid /\ Contract
  BY <1>1 DEF Init, Txns, Paid, Contract
<1>7. Phases
  BY <1>1, <1>2, <1>3 DEF Init, Phases
<1> QED
  BY <1>4, <1>5, <1>6, <1>7 DEF SInv

LEMMA NextSInv == SInv /\ [Next]_vars => SInv'
<1> SUFFICES ASSUME SInv, [Next]_vars PROVE SInv'
  OBVIOUS
<1>1. ASSUME OpenNext PROVE SInv'
  BY <1>1, CreateStep, SetupStep, ApproveStep, RejectStep, OpenedStep DEF OpenNext
<1>2. ASSUME NEW n \in Nodes, UserNext(n) PROVE SInv'
  BY <1>2, PayStep, InitiateStep, CheatStep, CooperateStep, FinalizeStep DEF UserNext
<1>3. ASSUME NEW n \in Nodes, NodeNext(n) PROVE SInv'
  BY <1>3, DeleteStep, DisputeStep, RestartStep DEF NodeNext
<1>4. ASSUME LedgerNext PROVE SInv'
  BY <1>4, TakeStateStep, TakePayoutStep, NoEffectStep, NextRoundStep
     DEF LedgerNext, TakeTransaction
<1>5. ASSUME UNCHANGED vars PROVE SInv'
  <2>1. round' \in 1..MaxRound /\ mempool' \subseteq mempool
    BY <1>5 DEF vars, SInv, Typed
  <2> QED
    BY <1>5, <2>1, IdleStep DEF vars
<1> QED
  BY <1>1, <1>2, <1>3, <1>4, <1>5 DEF Next

THEOREM ChannelInvariance == Spec => []SInv
  BY InitSInv, NextSInv, PTL DEF Spec

\* Everything stays within its type, the application's global state within its
\* schema: no balance of it ever goes below zero (operation.go 17-18).
THEOREM ChannelTyped == Spec => []TypeOK
<1>1. SInv => TypeOK
  <2> SUFFICES ASSUME SInv PROVE TypeOK
    OBVIOUS
  <2>1. app \in {NoApp} \cup AppState
    BY DEF SInv, Phases, Contract
  <2>2. payout = <<>> \/ payout \in Nat \X Nat
    BY DEF SInv, Paid
  <2>3. \A t \in mempool :
          /\ t.sender \in Nodes
          /\ t.kind \in {"fund", "initiate", "cooperative", "dispute", "finalize"}
    BY DEF SInv, Txns, GoodTxn
  <2> QED
    BY <2>1, <2>2, <2>3 DEF SInv, Typed, TypeOK
<1> QED
  BY ChannelInvariance, <1>1, PTL

LEMMA ProperCall ==
  ASSUME NEW e
  PROVE  Proper(CallOf(e)) <=> Proper(e)
  BY DEF CallOf, Call, Proper, SignedBy

\* Whatever the users do, as long as no node has forgotten its states, one has
\* the proof of what was paid out: the split, signed by both, in the fields the
\* contract verifies (rpcserver.go 300-317, server.go 298-325).
THEOREM PayoutsAreProvable == Spec => []PayoutIsProvable
<1>1. SInv => PayoutIsProvable
  <2> SUFFICES ASSUME SInv, payout # <<>>, restarts = 0
               PROVE  \E n \in Nodes : \E ts \in DOMAIN log[n] :
                        /\ Pays(log[n][ts])
                        /\ BothSigned(app, STATE_UPDATE, CallOf(log[n][ts]))
    BY DEF PayoutIsProvable
  <2>1. PICK alice \in Nat, bob \in Nat :
          payout = <<alice - MinTxnFee, bob - MinTxnFee>> /\ Provable(alice, bob)
    BY DEF SInv, Paid
  <2>2. PICK n \in Nodes : \E ts \in DOMAIN log[n] : Proves(log[n][ts], alice, bob)
    BY <2>1 DEF Provable
  <2>3. PICK ts \in DOMAIN log[n] : Proves(log[n][ts], alice, bob)
    BY <2>2
  <2>4. Pays(log[n][ts])
    BY <2>1, <2>3 DEF Proves, Pays
  <2>5. app \in AppState
    BY DEF SInv, Phases, Contract
  <2>6. BothSigned(app, STATE_UPDATE, CallOf(log[n][ts]))
    BY <2>3, <2>5, StateSigned, ProperCall DEF Proves
  <2> QED
    BY <2>4, <2>6
<1> QED
  BY ChannelInvariance, <1>1, PTL

\* When no user asks to pay more than it has, a node that has been paid, and has
\* kept its record and its states, can close on its own: its deposit is there,
\* though it never looked (server.go 160-190 and 602-616, rpcserver.go 111-118
\* and 363-372).  The hypothesis cannot go: nothing in Pay compares the amount
\* with the balance (rpcserver.go 224).
THEOREM ThePaidCanInitiate ==
  ASSUME ~AllowOverdraft
  PROVE  Spec => []PaidCanInitiate
<1>1. SInv => PaidCanInitiate
  <2> SUFFICES ASSUME SInv, NEW n \in Nodes, known[n], HasLatest(log[n]),
                      ~StampedBy(n, Latest(log[n]).timestamp)
               PROVE  InitiateTakesEffect(app, n, CallOf(Latest(log[n])))
    BY DEF PaidCanInitiate
  <2>1. IsLog(log[n])
    BY DEF SInv, Typed
  <2>2. PICK e : e = Latest(log[n])
    OBVIOUS
  <2>3. /\ LatestTimestamp(log[n]) \in DOMAIN log[n]
        /\ e = log[n][LatestTimestamp(log[n])]
    BY <2>1, <2>2, LatestIsEntry
  <2>4. First(n, e) \/ Shared(n, e)
    BY <2>3 DEF SInv, Logs
  <2>5. Splits(e) /\ Proper(e)
    BY <2>2, <2>4 DEF First, Shared
  <2>6. app \in AppState
    BY DEF SInv, Phases, Contract
  <2>7. BothSigned(app, STATE_UPDATE, CallOf(e))
    BY <2>5, <2>6, StateSigned, ProperCall
  <2>8. SumsToDeposit(app, CallOf(e))
    BY <2>5 DEF Splits, SumsToDeposit, CallOf, Call
  <2>9. IsParty(app, n)
    BY <2>6 DEF AppState, IsParty, Nodes
  <2> QED
    BY <2>2, <2>7, <2>8, <2>9 DEF InitiateTakesEffect
<1> QED
  BY ChannelInvariance, <1>1, PTL

-----------------------------------------------------------------------------
(* The channel implements the escrow.                                      *)
Held == IF app = NoApp THEN 0 ELSE app.escrow
PaidSplit == IF payout = <<>> THEN <<0, 0>> ELSE payout

LEMMA OpenIsApp ==
  ASSUME SInv, opening.stage # "no"
  PROVE  app \in AppState /\ app # NoApp
  BY NoAppAssumption DEF SInv, Contract

LEMMA DepositIsStep ==
  ASSUME SInv, SInv', NEW t \in mempool, t.kind = "fund", TakeState(t)
  PROVE  Escrow!Deposit
<1>1. PICK d : d = opening.amount
  OBVIOUS
<1>2. /\ GoodTxn(t) /\ app \in AppState /\ d \in Nat \ {0}
      /\ opening.stage \notin {"no", "created"}
  BY <1>1, TakenParts
<1>3. app.total_deposit = 0 /\ t.call.alice_balance = d
  BY <1>1, <1>2 DEF GoodTxn
<1>4. app' = Funded(app, d) /\ UNCHANGED <<payout, opening, agreed>>
  BY <1>3 DEF TakeState, Recorded, nodes, history
<1>5. payout = <<>> /\ app.escrow = 0
  BY <1>1, <1>2, <1>3 DEF SInv, Contract
<1>6. app'.escrow = app.escrow + d
  BY <1>2, <1>4, FundedFields
<1>7. app # NoApp /\ app' # NoApp
  <2>1. app' \in AppState
    BY <1>2, <1>4, FundedFields
  <2> QED
    BY <1>2, <2>1, NoAppAssumption
<1>8. Held = 0 /\ Held' = d /\ PaidSplit = <<0, 0>> /\ PaidSplit' = <<0, 0>>
  BY <1>2, <1>4, <1>5, <1>6, <1>7 DEF Held, PaidSplit
<1> QED
  BY <1>2, <1>4, <1>8 DEF Escrow!Deposit, Escrow!Nothing, Held, PaidSplit

LEMMA SettleIsStep ==
  ASSUME SInv, SInv', NEW t \in mempool, TakePayout(t)
  PROVE  Escrow!Settle
<1>1. PICK alice \in Nat, bob \in Nat :
           /\ alice = Recorded(t).latest_alice_balance
           /\ bob = Recorded(t).latest_bob_balance
           /\ payout = <<>> /\ payout' = <<alice - MinTxnFee, bob - MinTxnFee>>
           /\ alice - MinTxnFee \in Nat /\ bob - MinTxnFee \in Nat
           /\ alice + bob = opening.amount /\ <<alice, bob>> \in agreed
           /\ Provable(alice, bob)
           /\ app.escrow = opening.amount /\ app.total_deposit = opening.amount
           /\ app.escrow > 0
           /\ app' \in AppState /\ app'.escrow = 0
           /\ app'.total_deposit = opening.amount
           /\ app'.latest_alice_balance = alice /\ app'.latest_bob_balance = bob
  BY TakePayoutParts
<1>2. opening.stage # "no" /\ agreed' = agreed
  BY PayoutSplit DEF TakePayout, history
<1>3. app # NoApp /\ app' # NoApp
  BY <1>1, <1>2, OpenIsApp, NoAppAssumption
<1>4. PICK pa, pb : pa = alice - MinTxnFee /\ pb = bob - MinTxnFee
  OBVIOUS
<1>5. /\ Held = alice + bob /\ Held' = 0 /\ Held > 0
      /\ payout' = <<pa, pb>> /\ payout' # <<>> /\ PaidSplit' = <<pa, pb>>
      /\ pa >= 0 /\ pb >= 0
  BY <1>1, <1>3, <1>4 DEF Held, PaidSplit
<1>6. PICK split : split = <<alice, bob>>
  OBVIOUS
<1>7. /\ split \in agreed /\ split[1] + split[2] = Held
      /\ PaidSplit' = <<split[1] + 0 - MinTxnFee, split[2] - 0 - MinTxnFee>>
  BY <1>1, <1>4, <1>5, <1>6, MinTxnFeeAssumption
<1>8. PaidSplit'[1] >= 0 /\ PaidSplit'[2] >= 0
  BY <1>5
<1> QED
  BY <1>2, <1>5, <1>7, <1>8 DEF Escrow!Settle, Held, PaidSplit

\* Every other step signs a split or changes nothing the escrow is about.
LEMMA AgreeIsStep ==
  ASSUME SInv', agreed \subseteq agreed', Held' = Held, payout' = payout
  PROVE  Escrow!Agree
<1>1. \A split \in agreed' : split \in Nat \X Nat
  BY DEF SInv, Typed
<1>2. PaidSplit' = PaidSplit
  BY DEF PaidSplit
<1> QED
  BY <1>1, <1>2 DEF Escrow!Agree, Held, PaidSplit

LEMMA EscrowStep ==
  ASSUME SInv, SInv', [Next]_vars
  PROVE  Escrow!Next \/ UNCHANGED Escrow!escrowVars
<1>1. ASSUME OpenNext PROVE Escrow!Agree
  <2>1. payout' = payout /\ agreed' = agreed
    BY <1>1 DEF OpenNext, OpenCreate, OpenSetup, Submit, OpenApprove, OpenReject,
       OpenApproved, OpenLost, chain, history
  <2>2. Held' = Held
    <3>1. ASSUME NEW amount \in Deposits, NEW penalty \in Penalties, NEW window \in Windows,
                 OpenCreate(amount, penalty, window)
          PROVE  Held' = Held
      <4>1. app = NoApp /\ app' = Created(AppId, Alice, Bob, penalty, window)
        BY <3>1 DEF OpenCreate, SInv, Phases
      <4>2. app'.escrow = 0
        BY <4>1, CreatedType
      <4> QED
        BY <4>1, <4>2 DEF Held
    <3>2. ASSUME app' = app PROVE Held' = Held
      BY <3>2 DEF Held
    <3> QED
      BY <1>1, <3>1, <3>2 DEF OpenNext, OpenSetup, Submit, OpenApprove, OpenReject,
         OpenApproved, OpenLost, chain
  <2> QED
    BY <2>1, <2>2, AgreeIsStep
<1>2. ASSUME NEW n \in Nodes, UserNext(n) \/ NodeNext(n) PROVE Escrow!Agree
  <2>1. payout' = payout /\ app' = app /\ agreed \subseteq agreed'
    BY <1>2 DEF UserNext, NodeNext, Pay, InitiateCloseChannel, TryToCheat,
       CooperativeCloseChannel, FinalizeCloseChannel, DeleteRecord, WatchtowerDisputes,
       Restart, Submit, chain, history
  <2>2. Held' = Held
    BY <2>1 DEF Held
  <2> QED
    BY <2>1, <2>2, AgreeIsStep
<1>3. ASSUME NEW t \in mempool, TakeState(t) PROVE Escrow!Next
  <2>1. CASE t.kind = "fund"
    BY <1>3, <2>1, DepositIsStep DEF Escrow!Next
  <2>2. CASE t.kind = "initiate"
    <3>1. app'.escrow = app.escrow /\ app' \in AppState /\ opening.stage # "no"
      BY <1>3, <2>2, TakeInitiateParts
    <3>2. app # NoApp /\ app' # NoApp
      BY <3>1, OpenIsApp, NoAppAssumption
    <3>3. payout' = payout /\ agreed' = agreed /\ Held' = Held
      BY <1>3, <3>1, <3>2 DEF TakeState, history, Held
    <3> QED
      BY <3>3, AgreeIsStep DEF Escrow!Next
  <2>3. t.kind # "dispute"
    BY <1>3, DisputeIsVain
  <2> QED
    BY <1>3, <2>1, <2>2, <2>3 DEF TakeState
<1>4. ASSUME NEW t \in mempool, TakePayout(t) PROVE Escrow!Next
  BY <1>4, SettleIsStep DEF Escrow!Next
<1>5. ASSUME UNCHANGED <<app, payout, agreed>> PROVE Escrow!Agree
  <2>1. Held' = Held /\ agreed \subseteq agreed'
    BY <1>5 DEF Held
  <2> QED
    BY <1>5, <2>1, AgreeIsStep
<1>6. ASSUME NextRound \/ (\E t \in mempool : TakeWithoutEffect(t)) \/ UNCHANGED vars
      PROVE  Escrow!Agree
  BY <1>5, <1>6 DEF NextRound, TakeWithoutEffect, history, vars
<1> QED
  BY <1>1, <1>2, <1>3, <1>4, <1>6
     DEF Next, LedgerNext, TakeTransaction, Escrow!Next

\* Two nodes with their users, watchtowers and restarts, and the ledger between
\* them, are the escrow that the contract alone promises to be: one deposit, and
\* one payout of a split both had signed, with no penalty, for the contract
\* takes none of the disputes a node can raise (payment_contract.py 174-187,
\* watchtower.go 92-112).
THEOREM ChannelRefinesEscrow == Spec => RefinesEscrow
<1>1. Init => Escrow!Init
  <2> SUFFICES ASSUME Init PROVE Escrow!Init
    OBVIOUS
  <2>1. Held = 0 /\ PaidSplit = <<0, 0>> /\ agreed = {}
    BY DEF Init, Held, PaidSplit
  <2> QED
    BY <2>1 DEF Escrow!Init, Escrow!Nothing, Held, PaidSplit
<1>2. SInv /\ SInv' /\ [Next]_vars => [Escrow!Next]_(Escrow!escrowVars)
  BY EscrowStep
<1> QED
  BY ChannelInvariance, <1>1, <1>2, PTL DEF Spec, RefinesEscrow, Escrow!Spec

-----------------------------------------------------------------------------
(* What is paid out is the newest: the steps that leave the states alone.  *)
LEMMA NewestStays ==
  ASSUME NEW alice, NEW bob, NewestSplit(alice, bob), log' = log, restarts' = restarts,
         losses' = 0 => losses = 0
  PROVE  NewestSplit(alice, bob)'
  BY DEF NewestSplit

LEMMA MirroredStays ==
  ASSUME Mirrored, log' = log, restarts' = restarts, losses' = 0 => losses = 0
  PROVE  Mirrored'
  BY DEF Mirrored

\* A state that the call for it sends to the ledger is the newest.
IsNewest(t) ==
  (t.kind = "cooperative" \/ (t.kind = "initiate" /\ Proper(t.call))) =>
    NewestSplit(t.call.alice_balance, t.call.bob_balance)

LEMMA TxnsStayNewest ==
  ASSUME NewestTxns, log' = log, restarts' = restarts, losses' = 0 => losses = 0,
         \A t \in mempool' : t \in mempool \/ IsNewest(t)'
  PROVE  NewestTxns'
<1> SUFFICES ASSUME NEW t \in mempool' PROVE IsNewest(t)'
  BY DEF NewestTxns, IsNewest
<1>1. CASE t \in mempool
  <2>1. IsNewest(t)
    BY <1>1 DEF NewestTxns, IsNewest
  <2> QED
    BY <2>1, NewestStays DEF IsNewest
<1> QED
  BY <1>1

LEMMA ChainStaysNewest ==
  ASSUME NewestOnChain, log' = log, restarts' = restarts, losses' = 0 => losses = 0,
         app' = app, payout' = payout, opening.stage = "no" => opening'.stage = "no"
  PROVE  NewestOnChain'
<1>1. ASSUME opening'.stage # "no", app'.timeout # 0, payout' = <<>>
      PROVE  NewestSplit(app.latest_alice_balance, app.latest_bob_balance)'
  <2>1. NewestSplit(app.latest_alice_balance, app.latest_bob_balance)
    BY <1>1 DEF NewestOnChain
  <2>2. PICK a, b : a = app.latest_alice_balance /\ b = app.latest_bob_balance
    OBVIOUS
  <2>3. NewestSplit(a, b)'
    BY <2>1, <2>2, NewestStays
  <2> QED
    BY <2>2, <2>3
<1>2. ASSUME payout # <<>>
      PROVE  \E alice, bob \in Nat :
               /\ payout = <<alice - MinTxnFee, bob - MinTxnFee>>
               /\ NewestSplit(alice, bob)'
  <2>1. PICK alice \in Nat, bob \in Nat :
          payout = <<alice - MinTxnFee, bob - MinTxnFee>> /\ NewestSplit(alice, bob)
    BY <1>2 DEF NewestOnChain
  <2>2. NewestSplit(alice, bob)'
    BY <2>1, NewestStays
  <2> QED
    BY <2>1, <2>2
<1> QED
  BY <1>1, <1>2 DEF NewestOnChain

LEMMA NewestQuiet ==
  ASSUME NInv, log' = log, restarts' = restarts, losses' = 0 => losses = 0,
         app' = app, payout' = payout, opening.stage = "no" => opening'.stage = "no",
         \A t \in mempool' : t \in mempool \/ IsNewest(t)'
  PROVE  NInv'
  BY MirroredStays, TxnsStayNewest, ChainStaysNewest DEF NInv

\* A node's latest state is a newest one.
LEMMA LatestIsNewest ==
  ASSUME NEW n \in Nodes, HasLatest(log[n]), NEW c,
         HasSplit(c, Latest(log[n]).alice_balance, Latest(log[n]).bob_balance)
  PROVE  NewestSplit(c.alice_balance, c.bob_balance)
  BY DEF NewestSplit, HasSplit

LEMMA SentNewest ==
  ASSUME NInv, NEW t, IsNewest(t), Submit(t), UNCHANGED <<opening, log, losses, restarts>>
  PROVE  NInv'
<1>1. IsNewest(t)'
  BY NewestStays DEF IsNewest
<1>2. app' = app /\ payout' = payout /\ mempool' = mempool \cup {t}
  BY DEF Submit
<1> QED
  BY <1>1, <1>2, NewestQuiet

LEMMA InitiateNewest ==
  ASSUME NInv, NEW n \in Nodes, InitiateCloseChannel(n)
  PROVE  NInv'
<1>1. PICK c : c = CallOf(Latest(log[n]))
  OBVIOUS
<1>2. PICK t : t = Txn("initiate", n, c)
  OBVIOUS
<1>3. t.call = c /\ HasSplit(c, Latest(log[n]).alice_balance, Latest(log[n]).bob_balance)
  BY <1>1, <1>2 DEF Txn, CallOf, Call, HasSplit
<1>4. HasLatest(log[n]) /\ Submit(t) /\ UNCHANGED <<opening, log, losses, restarts>>
  BY <1>1, <1>2 DEF InitiateCloseChannel, nodes
<1>5. IsNewest(t)
  BY <1>3, <1>4, LatestIsNewest DEF IsNewest
<1> QED
  BY <1>4, <1>5, SentNewest

LEMMA CooperateNewest ==
  ASSUME NInv, NEW n \in Nodes, CooperativeCloseChannel(n)
  PROVE  NInv'
<1>1. PICK e : e = Latest(log[n])
  OBVIOUS
<1>2. PICK c : c = Call(e.alice_balance, e.bob_balance, e.timestamp,
                        SignClose(AppId, Alice, e.alice_balance, e.bob_balance, e.timestamp),
                        SignClose(AppId, Bob, e.alice_balance, e.bob_balance, e.timestamp))
  OBVIOUS
<1>3. PICK t : t = Txn("cooperative", n, c)
  OBVIOUS
<1>4. t.call = c /\ HasSplit(c, e.alice_balance, e.bob_balance)
  BY <1>2, <1>3 DEF Txn, Call, HasSplit
<1>5. HasLatest(log[n]) /\ Submit(t) /\ UNCHANGED <<opening, log, losses, restarts>>
  BY <1>1, <1>2, <1>3 DEF CooperativeCloseChannel
<1>6. IsNewest(t)
  BY <1>1, <1>4, <1>5, LatestIsNewest DEF IsNewest
<1> QED
  BY <1>5, <1>6, SentNewest

\* A dispute or a finalization carries no state that the ledger would take.
LEMMA OtherCallsNewest ==
  ASSUME NInv, NEW n \in Nodes, FinalizeCloseChannel(n) \/ WatchtowerDisputes(n)
  PROVE  NInv'
<1>1. \E kind \in {"finalize", "dispute"} : \E c : Submit(Txn(kind, n, c))
  BY DEF FinalizeCloseChannel, WatchtowerDisputes
<1>2. PICK kind \in {"finalize", "dispute"} : \E c : Submit(Txn(kind, n, c))
  BY <1>1
<1>3. PICK c : Submit(Txn(kind, n, c))
  BY <1>2
<1>4. PICK t : t = Txn(kind, n, c)
  OBVIOUS
<1>5. IsNewest(t)
  BY <1>4 DEF Txn, IsNewest
<1>6. UNCHANGED <<opening, log, losses, restarts>>
  BY DEF FinalizeCloseChannel, WatchtowerDisputes
<1> QED
  BY <1>3, <1>4, <1>5, <1>6, SentNewest

-----------------------------------------------------------------------------
(* Openings.                                                               *)

\* Before a payment nobody can enforce a state.
LEMMA NothingToEnforce ==
  ASSUME SInv, agreed = {}
  PROVE  /\ \A t \in mempool : ~(t.kind = "cooperative" \/
                                 (t.kind = "initiate" /\ Proper(t.call)))
         /\ opening.stage # "no" => app.timeout = 0 /\ payout = <<>>
         /\ \A n \in Nodes : \A ts \in DOMAIN log[n] : Unsigned(log[n][ts])
<1>1. \A c : ~Splits(c)
  BY DEF Splits
<1>2. ASSUME NEW t \in mempool,
             t.kind = "cooperative" \/ (t.kind = "initiate" /\ Proper(t.call))
      PROVE  FALSE
  <2>1. GoodTxn(t) /\ ~Enforceable(t.call)
    BY <1>1 DEF SInv, Txns, Enforceable
  <2>2. t.kind = "initiate" /\ Proper(t.call)
    BY <1>2, <2>1 DEF GoodTxn
  <2>3. Unsigned(t.call) \/ Swapped(t.call)
    BY <2>1, <2>2 DEF GoodTxn
  <2>4. ~Swapped(t.call)
    BY <2>2, SwappedIsNotProper
  <2> QED
    BY <2>2, <2>3, <2>4, ProperIsSigned
<1>3. opening.stage # "no" => app.timeout = 0 /\ payout = <<>>
  BY DEF SInv, Contract
<1>4. \A n \in Nodes : \A ts \in DOMAIN log[n] : Unsigned(log[n][ts])
  BY <1>1 DEF SInv, Logs, First, Shared
<1> QED
  BY <1>2, <1>3, <1>4

LEMMA QuietChain ==
  ASSUME mempool' \subseteq mempool,
         \A t \in mempool : ~(t.kind = "cooperative" \/
                              (t.kind = "initiate" /\ Proper(t.call))),
         app'.timeout = 0, payout' = <<>>
  PROVE  NewestTxns' /\ NewestOnChain'
<1>1. NewestTxns'
  BY DEF NewestTxns, Proper, SignedBy
<1>2. NewestOnChain'
  BY DEF NewestOnChain
<1> QED
  BY <1>1, <1>2

LEMMA OpenNewest ==
  ASSUME SInv, NInv, OpenNext
  PROVE  NInv'
<1>1. ASSUME NEW amount \in Deposits, NEW penalty \in Penalties, NEW window \in Windows,
             OpenCreate(amount, penalty, window)
      PROVE  NInv'
  <2>1. /\ opening.stage = "no" /\ app' = Created(AppId, Alice, Bob, penalty, window)
        /\ UNCHANGED <<mempool, payout, log, losses, restarts>>
    BY <1>1 DEF OpenCreate
  <2>2. mempool = {} /\ payout = <<>> /\ app'.timeout = 0
    BY <2>1, CreatedType DEF SInv, Phases, Created
  <2>3. NewestTxns' /\ NewestOnChain'
    BY <2>1, <2>2, QuietChain
  <2>4. Mirrored'
    BY <2>1, MirroredStays DEF NInv
  <2> QED
    BY <2>3, <2>4 DEF NInv
<1>2. ASSUME OpenSetup PROVE NInv'
  <2>1. PICK t : t = Txn("fund", Alice, Call(opening.amount, 0, 0, NoSignature, NoSignature))
    OBVIOUS
  <2>2. IsNewest(t)'
    BY <2>1 DEF Txn, IsNewest
  <2>3. /\ opening.stage = "created" /\ mempool' = mempool \cup {t}
        /\ UNCHANGED <<app, payout, log, losses, restarts>>
    BY <1>2, <2>1 DEF OpenSetup, Submit
  <2> QED
    BY <2>2, <2>3, NewestQuiet
<1>3. ASSUME OpenReject \/ OpenLost PROVE NInv'
  <2>1. /\ opening.stage # "no" /\ UNCHANGED <<app, payout, mempool, log, restarts>>
        /\ losses' = losses \/ losses' = losses + 1
    BY <1>3 DEF OpenReject, OpenLost, chain
  <2>2. losses \in Nat
    BY DEF SInv, Typed
  <2>3. losses' = 0 => losses = 0
    BY <2>1, <2>2
  <2> QED
    BY <2>1, <2>3, NewestQuiet
<1>4. ASSUME NEW n \in Nodes, NEW ts \in Now(n), NEW e, Unsigned(e), e.timestamp = ts,
             agreed = {}, opening.stage # "no",
             log' = [log EXCEPT ![n] = Store(@, e)],
             UNCHANGED <<app, payout, mempool, losses, restarts>>
      PROVE  NInv'
  <2>1. /\ \A t \in mempool : ~(t.kind = "cooperative" \/
                                (t.kind = "initiate" /\ Proper(t.call)))
        /\ opening.stage # "no" => app.timeout = 0 /\ payout = <<>>
        /\ \A k \in Nodes : \A us \in DOMAIN log[k] : Unsigned(log[k][us])
    BY <1>4, NothingToEnforce
  <2>2. NewestTxns' /\ NewestOnChain'
    BY <1>4, <2>1, QuietChain
  <2>3. \A k \in Nodes : \A us \in DOMAIN log'[k] : Unsigned(log'[k][us])
    <3>1. log = [k \in Nodes |-> log[k]]
      BY DEF SInv, Typed
    <3>2. \A k \in Nodes : log'[k] = IF k = n THEN Store(log[n], e) ELSE log[k]
      BY <1>4, <3>1
    <3>3. \A us \in DOMAIN Store(log[n], e) : Unsigned(Store(log[n], e)[us])
      BY <1>4, <2>1 DEF Store
    <3> QED
      BY <2>1, <3>2, <3>3
  <2>4. Mirrored'
    BY <2>3 DEF Mirrored, Unsigned
  <2> QED
    BY <2>2, <2>4 DEF NInv
<1>5. Alice \in Nodes /\ Bob \in Nodes
  BY DEF Nodes
<1>6. ASSUME NEW ts \in Now(Bob), OpenApprove(ts) PROVE NInv'
  <2>1. opening.stage = "asking" /\ agreed = {}
    BY <1>6 DEF OpenApprove, SInv, Phases
  <2>2. PICK e : e = InitialState(app.latest_alice_balance, app.latest_bob_balance, ts)
    OBVIOUS
  <2>3. Unsigned(e) /\ e.timestamp = ts
    BY <2>2 DEF InitialState, OffChainEntry, Unsigned
  <2>4. /\ log' = [log EXCEPT ![Bob] = Store(@, e)]
        /\ UNCHANGED <<app, payout, mempool, losses, restarts>>
    BY <1>6, <2>2 DEF OpenApprove, OpenSaved, chain
  <2> QED
    BY <1>4, <1>5, <2>1, <2>3, <2>4
<1>7. ASSUME NEW ts \in Now(Alice), OpenApproved(ts) PROVE NInv'
  <2>1. opening.stage = "approved" /\ agreed = {}
    BY <1>7 DEF OpenApproved, SInv, Phases
  <2>2. PICK e : e = InitialState(opening.amount, 0, ts)
    OBVIOUS
  <2>3. Unsigned(e) /\ e.timestamp = ts
    BY <2>2 DEF InitialState, OffChainEntry, Unsigned
  <2>4. /\ log' = [log EXCEPT ![Alice] = Store(@, e)]
        /\ UNCHANGED <<app, payout, mempool, losses, restarts>>
    BY <1>7, <2>2 DEF OpenApproved, OpenSaved, chain
  <2> QED
    BY <1>4, <1>5, <2>1, <2>3, <2>4
<1> QED
  BY <1>1, <1>2, <1>3, <1>6, <1>7 DEF OpenNext

-----------------------------------------------------------------------------
(* Payments and restarts.                                                  *)
LEMMA LatestStored ==
  ASSUME NEW l, IsLog(l), NEW e, NEW ts \in 1..MaxTime, IsEntry(e, ts),
         \A other \in DOMAIN l : other < ts
  PROVE  HasLatest(Store(l, e)) /\ Latest(Store(l, e)) = e
<1>1. e.timestamp = ts /\ DOMAIN l \subseteq 1..MaxTime
  BY DEF IsEntry, IsLog
<1>2. PICK s : s = Store(l, e)
  OBVIOUS
<1>3. DOMAIN s = DOMAIN l \cup {ts} /\ s[ts] = e
  BY <1>1, <1>2 DEF Store
<1>4. IsLog(s) /\ HasLatest(s)
  BY <1>2, <1>3, StoreIsLog DEF HasLatest
<1>5. /\ LatestTimestamp(s) \in DOMAIN s /\ Latest(s) = s[LatestTimestamp(s)]
      /\ ts <= LatestTimestamp(s)
  BY <1>3, <1>4, LatestIsEntry
<1>6. LatestTimestamp(s) = ts
  BY <1>1, <1>3, <1>5
<1> QED
  BY <1>2, <1>3, <1>4, <1>5, <1>6

\* A new stamp is newer than anything the two nodes agree on.
LEMMA NewerThanOwn ==
  ASSUME SInv, Mirrored, losses = 0, restarts = 0, NEW n \in Nodes, NEW ts \in Now(n),
         HasLatest(log[n]), LatestTimestamp(log[Other(n)]) < ts, HasLatest(log[Other(n)])
  PROVE  LatestTimestamp(log[n]) < ts
<1> DEFINE own == LatestTimestamp(log[n])
           theirs == LatestTimestamp(log[Other(n)])
<1>1. Typed /\ Fresh /\ Other(n) \in Nodes
  BY OtherNode DEF SInv
<1>2. IsLog(log[n]) /\ IsLog(log[Other(n)])
  BY <1>1 DEF Typed
<1>3. /\ own \in DOMAIN log[n] /\ own \in 1..MaxTime
      /\ Latest(log[n]) = log[n][own] /\ Latest(log[n]).timestamp = own
  BY <1>2, LatestIsEntry DEF IsEntry
<1>4. Latest(log[Other(n)]).timestamp = theirs
  BY <1>2, LatestIsEntry DEF IsEntry
<1>5. CASE \A k \in Nodes : \A us \in DOMAIN log[k] : Unsigned(log[k][us])
  <2>1. Unsigned(log[n][own])
    BY <1>3, <1>5
  <2>2. First(n, log[n][own]) \/ Shared(n, log[n][own])
    BY <1>3 DEF SInv, Logs
  <2>3. ~Proper(log[n][own]) /\ ~Swapped(log[n][own])
    BY <2>1, ProperIsSigned, SwappedIsSigned
  <2>4. StampedBy(n, own)
    BY <1>3, <2>2, <2>3 DEF First, Shared
  <2>5. own <= clock[n]
    BY <1>1, <1>3, <2>4 DEF Fresh
  <2>6. ts > clock[n] /\ ts \in 1..MaxTime /\ clock[n] \in 0..MaxTime
    BY <1>1, NowParts DEF Typed
  <2> QED
    BY <1>3, <2>5, <2>6
<1>6. CASE Latest(log[Alice]).timestamp = Latest(log[Bob]).timestamp
  <2>1. own = theirs
    BY <1>3, <1>4, <1>6 DEF Nodes, Other
  <2> QED
    BY <2>1
<1> QED
  BY <1>5, <1>6 DEF Mirrored

LEMMA PayNewest ==
  ASSUME ~PayWhileClosing, SInv, SInv', NInv, NEW n \in Nodes, NEW amount \in Amounts,
         NEW ts \in Now(n), NEW answered \in BOOLEAN, Pay(n, amount, ts, answered)
  PROVE  NInv'
<1>1. PICK received, paid :
        /\ IsEntry(received, ts) /\ IsEntry(paid, ts)
        /\ HasSplit(paid, received.alice_balance, received.bob_balance)
        /\ Shared(Other(n), received)' /\ Shared(n, paid)'
        /\ agreed' = agreed \cup {<<received.alice_balance, received.bob_balance>>}
        /\ opening.stage \in {"open", "failed"}
        /\ HasLatest(log[n]) /\ HasLatest(log[Other(n)])
        /\ LatestTimestamp(log[Other(n)]) < ts
        /\ IF answered
           THEN /\ log' = [log EXCEPT ![Other(n)] = Store(log[Other(n)], received),
                                      ![n] = Store(log[n], paid)]
                /\ losses' = losses
           ELSE /\ log' = [log EXCEPT ![Other(n)] = Store(log[Other(n)], received)]
                /\ losses < MaxLosses /\ losses' = losses + 1
  BY PayParts
<1>2. ~ClosingBegun /\ app' = app /\ mempool' = mempool /\ payout' = payout
  BY DEF Pay, MayPay, chain
<1>3. app # NoApp
  BY <1>1, OpenIsApp
<1>4. /\ \A t \in mempool : t.kind = "fund"
      /\ app.timeout = 0 /\ payout = <<>>
  BY <1>2, <1>3 DEF ClosingBegun
<1>5. NewestTxns' /\ NewestOnChain'
  BY <1>2, <1>4, QuietChain
<1>6. Mirrored'
  <2> SUFFICES ASSUME losses' = 0, restarts' = 0 PROVE Mirrored'
    BY DEF Mirrored
  <2>1. restarts = 0 /\ losses \in Nat
    BY DEF Pay, SInv, Typed
  <2>2. answered /\ losses = 0
    BY <1>1, <2>1
  <2>3. PICK m : m = Other(n)
    OBVIOUS
  <2>4. m \in Nodes /\ m # n /\ \A k \in Nodes : k = n \/ k = m
    BY <2>3, OtherNode
  <2>5. Typed /\ Mirrored
    BY DEF SInv, NInv
  <2>6. ts \in 1..MaxTime
    BY <2>5, NowParts DEF SInv
  <2>7. LatestTimestamp(log[n]) < ts
    BY <1>1, <2>1, <2>2, <2>5, NewerThanOwn
  <2>8. /\ log'[n] = Store(log[n], paid) /\ log'[m] = Store(log[m], received)
    <3>1. log = [k \in Nodes |-> log[k]]
      BY <2>5 DEF Typed
    <3> QED
      BY <1>1, <2>2, <2>3, <2>4, <3>1
  <2>9. \A k \in {n, m} : IsLog(log[k]) /\ \A other \in DOMAIN log[k] : other < ts
    <3>1. ASSUME NEW k \in {n, m}, NEW other \in DOMAIN log[k] PROVE other < ts
      <4>1. IsLog(log[k]) /\ HasLatest(log[k])
        BY <1>1, <2>3, <2>4, <2>5 DEF Typed
      <4>2. /\ other <= LatestTimestamp(log[k]) /\ LatestTimestamp(log[k]) \in 1..MaxTime
            /\ DOMAIN log[k] \subseteq 1..MaxTime
        BY <4>1, LatestIsEntry DEF IsLog
      <4>3. LatestTimestamp(log[k]) < ts
        BY <1>1, <2>3, <2>7
      <4> QED
        BY <2>6, <4>2, <4>3
    <3> QED
      BY <2>4, <2>5, <3>1 DEF Typed
  <2>10. /\ HasLatest(log'[n]) /\ Latest(log'[n]) = paid
    BY <1>1, <2>6, <2>8, <2>9, LatestStored
  <2>11. /\ HasLatest(log'[m]) /\ Latest(log'[m]) = received
    BY <1>1, <2>6, <2>8, <2>9, LatestStored
  <2>12. /\ paid.timestamp = received.timestamp
         /\ paid.alice_balance = received.alice_balance
         /\ paid.bob_balance = received.bob_balance
    BY <1>1 DEF IsEntry, HasSplit
  <2>13. (n = Alice /\ m = Bob) \/ (n = Bob /\ m = Alice)
    BY <2>4 DEF Nodes
  <2>14. LET a == Latest(log'[Alice])
             b == Latest(log'[Bob])
         IN  /\ HasLatest(log'[Alice]) /\ HasLatest(log'[Bob])
             /\ a.timestamp = b.timestamp
             /\ a.alice_balance = b.alice_balance /\ a.bob_balance = b.bob_balance
    BY <2>10, <2>11, <2>12, <2>13
  <2> QED
    BY <2>14 DEF Mirrored, HasSplit
<1> QED
  BY <1>5, <1>6 DEF NInv

\* A node that loses its log leaves the same newest state with the other.
LEMMA RestartKeepsNewest ==
  ASSUME SInv, Mirrored, NEW n \in Nodes, Restart(n), NEW alice, NEW bob,
         Provable(alice, bob), NewestSplit(alice, bob)
  PROVE  NewestSplit(alice, bob)'
<1> SUFFICES ASSUME losses' = 0, restarts' = 1 PROVE NewestSplit(alice, bob)'
  <2>1. restarts' = restarts + 1 /\ restarts \in Nat
    BY DEF Restart, SInv, Typed
  <2>2. restarts' # 0
    BY <2>1
  <2> QED
    BY <2>2 DEF NewestSplit
<1>1. restarts = 0 /\ losses = 0
  BY DEF Restart, SInv, Typed
<1>2. PICK m : m = Other(n)
  OBVIOUS
<1>3. m \in Nodes /\ m # n /\ \A k \in Nodes : k = n \/ k = m
  BY <1>2, OtherNode
<1>4. log'[m] = log[m]
  BY <1>3 DEF Restart, SInv, Typed
<1>5. PICK k \in Nodes : HasLatest(log[k]) /\ HasSplit(Latest(log[k]), alice, bob)
  BY <1>1 DEF NewestSplit
<1>6. ~(\A j \in Nodes : \A ts \in DOMAIN log[j] : Unsigned(log[j][ts]))
  BY <1>1, ProperIsSigned DEF Provable, Proves
<1>7. /\ HasLatest(log[Alice]) /\ HasLatest(log[Bob])
      /\ Latest(log[Alice]).alice_balance = Latest(log[Bob]).alice_balance
      /\ Latest(log[Alice]).bob_balance = Latest(log[Bob]).bob_balance
  BY <1>1, <1>6 DEF Mirrored, HasSplit
<1>8. HasLatest(log[m]) /\ HasSplit(Latest(log[m]), alice, bob)
  BY <1>3, <1>5, <1>7 DEF HasSplit, Nodes
<1>9. HasLatest(log'[m]) /\ HasSplit(Latest(log'[m]), alice, bob)
  BY <1>4, <1>8
<1> QED
  BY <1>3, <1>9 DEF NewestSplit

LEMMA RestartNewest ==
  ASSUME SInv, SInv', NInv, NEW n \in Nodes, Restart(n)
  PROVE  NInv'
<1>1. /\ restarts' = restarts + 1 /\ UNCHANGED <<app, mempool, payout>>
      /\ opening.stage = "no" => opening'.stage = "no"
  BY DEF Restart, chain
<1>2. restarts' # 0
  BY <1>1 DEF SInv, Typed
<1>3. Mirrored'
  BY <1>2 DEF Mirrored
<1>4. NewestTxns'
  <2> SUFFICES ASSUME NEW t \in mempool,
                      t.kind = "cooperative" \/ (t.kind = "initiate" /\ Proper(t.call))
               PROVE  NewestSplit(t.call.alice_balance, t.call.bob_balance)'
    BY <1>1 DEF NewestTxns, Proper, SignedBy
  <2>1. GoodTxn(t)
    BY DEF SInv, Txns
  <2>2. Enforceable(t.call)
    BY <2>1, SwappedIsNotProper, ProperIsSigned DEF GoodTxn
  <2>3. PICK a, b : a = t.call.alice_balance /\ b = t.call.bob_balance
    OBVIOUS
  <2>4. Provable(a, b) /\ NewestSplit(a, b)
    BY <2>2, <2>3 DEF Enforceable, NInv, NewestTxns
  <2>5. NewestSplit(a, b)'
    BY <2>4, RestartKeepsNewest DEF NInv
  <2> QED
    BY <2>3, <2>5
<1>5. ASSUME opening'.stage # "no", app'.timeout # 0, payout' = <<>>
      PROVE  NewestSplit(app.latest_alice_balance, app.latest_bob_balance)'
  <2>1. opening.stage # "no" /\ app.timeout # 0 /\ payout = <<>>
    BY <1>1, <1>5
  <2>2. PICK a, b : a = app.latest_alice_balance /\ b = app.latest_bob_balance
    OBVIOUS
  <2>3. Provable(a, b) /\ NewestSplit(a, b)
    BY <2>1, <2>2 DEF SInv, Contract, NInv, NewestOnChain
  <2>4. NewestSplit(a, b)'
    BY <2>3, RestartKeepsNewest DEF NInv
  <2> QED
    BY <1>1, <2>2, <2>4
<1>6. ASSUME payout # <<>>
      PROVE  \E alice, bob \in Nat :
               /\ payout = <<alice - MinTxnFee, bob - MinTxnFee>>
               /\ NewestSplit(alice, bob)'
  <2>1. PICK alice \in Nat, bob \in Nat :
          payout = <<alice - MinTxnFee, bob - MinTxnFee>> /\ NewestSplit(alice, bob)
    BY <1>6 DEF NInv, NewestOnChain
  <2>2. PICK a \in Nat, b \in Nat :
          payout = <<a - MinTxnFee, b - MinTxnFee>> /\ Provable(a, b)
    BY <1>6 DEF SInv, Paid
  <2>3. alice - MinTxnFee = a - MinTxnFee /\ bob - MinTxnFee = b - MinTxnFee
    BY <2>1, <2>2
  <2>4. a = alice /\ b = bob
    BY <2>3, MinTxnFeeAssumption
  <2>5. NewestSplit(alice, bob)'
    BY <2>1, <2>2, <2>4, RestartKeepsNewest DEF NInv
  <2> QED
    BY <2>1, <2>5
<1>7. NewestOnChain'
  BY <1>1, <1>5, <1>6 DEF NewestOnChain
<1> QED
  BY <1>3, <1>4, <1>7 DEF NInv

-----------------------------------------------------------------------------
(* The ledger takes the newest.                                            *)
LEMMA TakeNewest ==
  ASSUME SInv, NInv, NEW t \in mempool, TakeState(t)
  PROVE  NInv'
<1>1. /\ mempool' \subseteq mempool
      /\ UNCHANGED <<payout, opening, log, losses, restarts>>
  BY DEF TakeState, nodes
<1>2. NewestTxns' /\ Mirrored'
  BY <1>1, TxnsStayNewest, MirroredStays DEF NInv
<1>3. GoodTxn(t) /\ app \in AppState /\ opening.amount \in Nat \ {0}
      /\ opening.stage \notin {"no", "created"}
  BY TakenParts
<1>4. CASE t.kind = "fund"
  <2>1. app.total_deposit = 0 /\ t.call.alice_balance = opening.amount
    BY <1>3, <1>4 DEF GoodTxn
  <2>2. app.timeout = 0 /\ payout = <<>>
    BY <1>3, <2>1 DEF SInv, Contract
  <2>3. app' = Funded(app, opening.amount)
    BY <1>4, <2>1 DEF TakeState, Recorded
  <2>4. app'.timeout = 0
    BY <1>3, <2>2, <2>3, FundedFields
  <2>5. NewestOnChain'
    BY <1>1, <2>2, <2>4 DEF NewestOnChain
  <2> QED
    BY <1>2, <2>5 DEF NInv
<1>5. CASE t.kind = "initiate"
  <2>1. PICK a, b : a = t.call.alice_balance /\ b = t.call.bob_balance
    OBVIOUS
  <2>2. /\ Proper(t.call) /\ opening.stage # "no"
        /\ app'.latest_alice_balance = a /\ app'.latest_bob_balance = b
    BY <1>5, <2>1, TakeInitiateParts
  <2>3. NewestSplit(a, b)
    BY <1>5, <2>1, <2>2 DEF NInv, NewestTxns
  <2>4. NewestSplit(app.latest_alice_balance, app.latest_bob_balance)'
    BY <1>1, <2>2, <2>3 DEF NewestSplit
  <2>5. ASSUME payout # <<>>
        PROVE  \E alice, bob \in Nat :
                 /\ payout = <<alice - MinTxnFee, bob - MinTxnFee>>
                 /\ NewestSplit(alice, bob)'
    <3>1. PICK alice \in Nat, bob \in Nat :
            payout = <<alice - MinTxnFee, bob - MinTxnFee>> /\ NewestSplit(alice, bob)
      BY <2>5 DEF NInv, NewestOnChain
    <3>2. NewestSplit(alice, bob)'
      BY <1>1, <3>1, NewestStays
    <3> QED
      BY <3>1, <3>2
  <2>6. NewestOnChain'
    BY <1>1, <2>4, <2>5 DEF NewestOnChain
  <2> QED
    BY <1>2, <2>6 DEF NInv
<1>6. t.kind # "dispute"
  BY DisputeIsVain
<1> QED
  BY <1>4, <1>5, <1>6 DEF TakeState

LEMMA PayoutNewest ==
  ASSUME SInv, NInv, NEW t \in mempool, TakePayout(t)
  PROVE  NInv'
<1>1. PICK alice \in Nat, bob \in Nat :
        /\ alice = Recorded(t).latest_alice_balance
        /\ bob = Recorded(t).latest_bob_balance
        /\ payout = <<>> /\ payout' = <<alice - MinTxnFee, bob - MinTxnFee>>
  BY TakePayoutParts
<1>2. /\ mempool' \subseteq mempool /\ UNCHANGED <<opening, log, losses, restarts>>
  BY DEF TakePayout, nodes
<1>3. NewestTxns' /\ Mirrored'
  BY <1>2, TxnsStayNewest, MirroredStays DEF NInv
<1>4. NewestSplit(alice, bob)
  <2>1. app \in AppState /\ opening.stage # "no"
    BY TakenParts
  <2>2. CASE t.kind = "cooperative"
    <3>1. Recorded(t) = WithState(app, t.call)
      BY <2>2 DEF Recorded
    <3>2. alice = t.call.alice_balance /\ bob = t.call.bob_balance
      BY <1>1, <2>1, <3>1 DEF WithState, AppState
    <3> QED
      BY <2>2, <3>2 DEF NInv, NewestTxns
  <2>3. CASE t.kind = "finalize"
    <3>1. Recorded(t) = app /\ CanPayOut(app)
      BY <2>3 DEF TakePayout, Recorded, HasEffect, FinalizeTakesEffect
    <3>2. app.latest_bob_balance >= MinTxnFee /\ app.latest_bob_balance \in Nat
      BY <2>1, <3>1 DEF CanPayOut, AppState
    <3>3. app.latest_bob_balance # 0
      BY <3>2, MinTxnFeeAssumption
    <3>4. app.timeout # 0
      BY <1>1, <2>1, <3>3 DEF SInv, Contract
    <3> QED
      BY <1>1, <2>1, <3>1, <3>4 DEF NInv, NewestOnChain
  <2> QED
    BY <2>2, <2>3 DEF TakePayout
<1>5. payout' # <<>> /\ NewestSplit(alice, bob)'
  BY <1>1, <1>2, <1>4, NewestStays
<1>6. NewestOnChain'
  BY <1>1, <1>5 DEF NewestOnChain
<1> QED
  BY <1>3, <1>6 DEF NInv

LEMMA LedgerNewest ==
  ASSUME SInv, NInv, LedgerNext
  PROVE  NInv'
<1>1. ASSUME NEW t \in mempool, TakeWithoutEffect(t) PROVE NInv'
  <2>1. /\ mempool' \subseteq mempool
        /\ UNCHANGED <<app, payout, opening, log, losses, restarts>>
    BY <1>1 DEF TakeWithoutEffect, nodes
  <2> QED
    BY <2>1, NewestQuiet
<1>2. ASSUME NextRound PROVE NInv'
  <2>1. UNCHANGED <<app, mempool, payout, opening, log, losses, restarts>>
    BY <1>2 DEF NextRound, nodes
  <2> QED
    BY <2>1, NewestQuiet
<1> QED
  BY <1>1, <1>2, TakeNewest, PayoutNewest DEF LedgerNext, TakeTransaction

\* If users neither cheat nor pay on once a close has begun, whatever is paid
\* out is the newest split of one of the two nodes, although the ledger never
\* compares a state with a later one (payment_contract.py 122-163): at the end
\* of a close of any kind, or of two at once, after lost answers, and after a
\* restart of one of the nodes, when the other one's newest state is the same.
THEOREM PayoutsAreNewest ==
  ASSUME ~AllowCheat, ~PayWhileClosing
  PROVE  Spec => []PayoutIsNewest
<1>1. Init => NInv
  <2> SUFFICES ASSUME Init PROVE NInv
    OBVIOUS
  <2>1. opening.stage = "no" /\ mempool = {} /\ payout = <<>>
    BY DEF Init, Opening
  <2>2. \A n \in Nodes : DOMAIN log[n] = {}
    BY EmptyIsLog DEF Init
  <2> QED
    BY <2>1, <2>2 DEF NInv, NewestTxns, NewestOnChain, Mirrored
<1>2. SInv /\ SInv' /\ NInv /\ [Next]_vars => NInv'
  <2> SUFFICES ASSUME SInv, SInv', NInv, [Next]_vars PROVE NInv'
    OBVIOUS
  <2>1. ASSUME NEW n \in Nodes, UserNext(n) PROVE NInv'
    <3>1. ~TryToCheat(n)
      BY DEF TryToCheat
    <3> QED
      BY <2>1, <3>1, PayNewest, InitiateNewest, CooperateNewest, OtherCallsNewest
         DEF UserNext
  <2>2. ASSUME NEW n \in Nodes, NodeNext(n) PROVE NInv'
    <3>1. ASSUME NEW who \in {"call", "watchtower"}, DeleteRecord(n, who) PROVE NInv'
      <4>1. UNCHANGED <<app, mempool, payout, opening, log, losses, restarts>>
        BY <3>1 DEF DeleteRecord, chain
      <4> QED
        BY <4>1, NewestQuiet
    <3> QED
      BY <2>2, <3>1, OtherCallsNewest, RestartNewest DEF NodeNext
  <2>3. ASSUME UNCHANGED vars PROVE NInv'
    BY <2>3, NewestQuiet DEF vars
  <2> QED
    BY <2>1, <2>2, <2>3, OpenNewest, LedgerNewest DEF Next
<1>3. NInv => PayoutIsNewest
  BY DEF NInv, NewestOnChain, NewestSplit, HasSplit, PayoutIsNewest, Pays
<1> QED
  BY ChannelInvariance, <1>1, <1>2, <1>3, PTL DEF Spec
=============================================================================
