----------------------- MODULE ChannelRegistry_proofs -----------------------
(***************************************************************************)
(* Theorems about what two nodes remember of the channels between them,    *)
(* for any number of channels, payments and faults, any deposits, and any  *)
(* two clocks that never show the same reading.                            *)
(***************************************************************************)
EXTENDS ChannelRegistry, OffChainState_proofs, SequenceTheorems

-----------------------------------------------------------------------------
(* The inductive invariants.                                               *)
ChannelApp ==
  [app_id : Nat, alice_address : Nodes, bob_address : Nodes,
   penalty_reserve : {Penalty}, dispute_window : {1},
   timeout : {0}, closing_initiator : {"none"},
   latest_alice_balance : Nat, latest_bob_balance : Nat,
   latest_timestamp : Nat, total_deposit : Nat, escrow : Nat]

\* A timestamp that one of the clocks has shown.
Past(ts) == \E n \in Nodes : \E t \in 1..now : ts = 2 * t + skew[n]

IsEntry(e, ts) ==
  /\ e.timestamp = ts /\ e.app_id \in Ids
  /\ e.alice_balance \in Nat /\ e.bob_balance \in Nat

\* What the ledger shows of a channel's deposit: all of it or nothing.
Found(id, found) == found[1] + found[2] \in {0, Deposits[id]}

IsOpening(o) ==
  /\ o \in [app_id : Ids, opener : Nodes,
            stage : {"asking", "recorded", "approved", "saved"}, awaited : BOOLEAN,
            found : Nat \X Nat]
  /\ Found(o.app_id, o.found)

\* What the payer has signed.
IsPayment(p) ==
  /\ p = [payer |-> p.payer, app_id |-> p.app_id, req |-> p.req, stage |-> p.stage]
  /\ p.payer \in Nodes /\ p.app_id \in Ids /\ p.stage \in {"asking", "approved"}
  /\ p.req.from = p.payer /\ Past(p.req.timestamp)
  /\ p.req.alice_balance \in Nat /\ p.req.bob_balance \in Nat
  /\ p.req.signature = SignState(p.app_id, p.payer, p.req.alice_balance,
                                 p.req.bob_balance, p.req.timestamp)

\* A deposit has been taken once or not yet, and the balances recorded split it.
IsApp(a, id) ==
  /\ a \in ChannelApp /\ a.app_id = id
  /\ a.total_deposit \in {0, Deposits[id]} /\ a.escrow \in {0, a.total_deposit}
  /\ a.latest_alice_balance + a.latest_bob_balance = a.total_deposit

AppsTyped ==
  /\ apps \in Seq(ChannelApp) /\ Len(apps) <= MaxApps
  /\ \A id \in Ids : IsApp(apps[id], id)

LogsTyped ==
  /\ log = [n \in Nodes |-> log[n]]
  /\ \A n \in Nodes :
       /\ Ordered(log[n])
       /\ \A ts \in DOMAIN log[n] : Past(ts) /\ IsEntry(log[n][ts], ts)

ClocksTyped ==
  /\ now \in 0..MaxTime
  /\ skew \in [Nodes -> Skews] /\ \E n \in Nodes : skew[n] = 0

CountersTyped ==
  /\ losses \in Nat /\ restarts \in Nat /\ losses + restarts <= MaxFaults
  /\ overlaps \subseteq {"opening", "payment"}

Typed ==
  /\ AppsTyped /\ LogsTyped /\ ClocksTyped /\ CountersTyped
  /\ record \in [Nodes -> {0} \cup Ids] /\ closing \in [Nodes -> {0} \cup Ids]
  /\ \A o \in openings : IsOpening(o)
  /\ \A p \in payments : IsPayment(p)

\* Two payments have two timestamps.
Distinct == \A p, q \in payments : p.req.timestamp = q.req.timestamp => p = q

SamePayment(e, f) ==
  /\ e.app_id = f.app_id
  /\ e.alice_balance = f.alice_balance /\ e.bob_balance = f.bob_balance

\* A payment has left no trace in its payer's log, and none in the receiver's
\* before it is approved.
Trace(p) ==
  LET n == p.payer
      ts == p.req.timestamp
  IN  /\ ts \notin DOMAIN log[n]
      /\ ts \in DOMAIN log[Other(n)] =>
           /\ p.stage = "approved"
           /\ log[Other(n)][ts].app_id = p.app_id
           /\ log[Other(n)][ts].alice_balance = p.req.alice_balance
           /\ log[Other(n)][ts].bob_balance = p.req.bob_balance

Unmixed ==
  \A n, m \in Nodes : \A ts \in DOMAIN log[n] \cap DOMAIN log[m] :
    SamePayment(log[n][ts], log[m][ts])

RInv == Typed /\ Distinct /\ (\A p \in payments : Trace(p)) /\ Unmixed

\* While openings follow one another.
Partner(o) == Other(o.opener)

Halfway(o) ==
  /\ o.stage = "recorded" => record[Partner(o)] \in {o.app_id, 0}
  /\ o.stage = "saved" => record[o.opener] \in {o.app_id, 0}

OneByOne ==
  "opening" \notin overlaps =>
    /\ \A o, q \in openings : o = q
    /\ \A o \in openings : Halfway(o)

Agree == \A n, m \in Nodes : record[n] = record[m] \/ record[n] = 0 \/ record[m] = 0

\* What an opening has done to the records so far, when no answer is lost: an
\* opener that nobody waits for any more has restarted.
Progress(o) ==
  /\ o.stage = "asking" => Agree
  /\ o.stage = "approved" => record[Partner(o)] \in {o.app_id, 0}
  /\ o.stage = "saved" => \A n \in Nodes : record[n] \in {o.app_id, 0}
  /\ o.stage \in {"asking", "recorded"} /\ ~o.awaited => record[o.opener] = 0

Agreeing ==
  ("opening" \notin overlaps /\ losses = 0) =>
    /\ openings = {} => Agree
    /\ \A o \in openings : Progress(o)

\* While openings overlap with nothing: a node whose clock is not behind never
\* starts from the state of an earlier channel.
Leading(n) == skew[n] >= skew[Other(n)]

Midway(n) ==
  \E o \in openings : (o.stage = "recorded" /\ Partner(o) = n)
                      \/ (o.stage = "saved" /\ o.opener = n)

Splits(e, id) == e.alice_balance + e.bob_balance = Deposits[id]

Empty(e) == e.alice_balance = 0 /\ e.bob_balance = 0

Acceptable(e) == Splits(e, e.app_id) \/ (Empty(e) /\ e.alice_signature = NoSignature)

FittingLogs == \A n \in Nodes : \A ts \in DOMAIN log[n] : Acceptable(log[n][ts])

FitsLatest(n) ==
  (Leading(n) /\ record[n] # 0 /\ HasLatest(log[n]) /\ ~Midway(n)) =>
    Splits(Latest(log[n]), record[n]) \/ Empty(Latest(log[n]))

FittingLatest == \A n \in Nodes : FitsLatest(n)

FittingPayments ==
  \A p \in payments :
    /\ record[p.payer] \in {p.app_id, 0}
    /\ p.req.alice_balance \in Small /\ p.req.bob_balance \in Small
    /\ p.stage = "approved" => Splits(p.req, p.app_id)
    /\ Leading(p.payer) => Splits(p.req, p.app_id) \/ Empty(p.req)

Fitted ==
  /\ openings = {} \/ payments = {}
  /\ FittingLogs /\ FittingLatest /\ FittingPayments

Fitting == overlaps = {} => Fitted

-----------------------------------------------------------------------------
(* Nodes and clocks.                                                       *)
LEMMA OtherNode ==
  ASSUME NEW n \in Nodes
  PROVE  /\ Other(n) \in Nodes /\ Other(n) # n /\ Other(Other(n)) = n
         /\ \A k \in Nodes : k = n \/ k = Other(n)
<1>1. PICK a \in Nodes, b \in Nodes : a # b /\ Nodes = {a, b}
  BY RegistryAssumption
<1>2. \A k \in Nodes : Other(k) \in Nodes /\ Other(k) # k
  BY <1>1 DEF Other
<1> QED
  BY <1>1, <1>2

LEMMA DepositType ==
  ASSUME NEW id \in 1..MaxApps
  PROVE  Deposits[id] \in Small /\ Deposits[id] \in Nat
  BY RegistryAssumption, HalfType DEF Small, Half

\* No clock has shown the next reading before.
LEMMA ReadingIsFresh ==
  ASSUME ClocksTyped, NEW n \in Nodes
  PROVE  Reading(n) \in Nat \ {0} /\ ~Past(Reading(n))
<1>1. PICK m : m = Other(n)
  OBVIOUS
<1>2. m \in Nodes /\ \A k \in Nodes : k = n \/ k = m
  BY <1>1, OtherNode
<1>3. PICK t, s, r : t = now /\ s = skew[n] /\ r = skew[m]
  OBVIOUS
<1>4. /\ t \in Nat /\ s \in Nat /\ r \in Nat
      /\ s = 0 \/ r = 0
      /\ s = 0 \/ s % 2 = 1
      /\ r = 0 \/ r % 2 = 1
  BY <1>2, <1>3, RegistryAssumption DEF ClocksTyped
<1>5. \A u \in 1..t : 2 * u + s # 2 * (t + 1) + s
  BY <1>4
<1>6. ASSUME NEW u \in 1..t, 2 * u + r = 2 * (t + 1) + s
      PROVE  FALSE
  <2>1. CASE r = 0 /\ s = 0
    BY <1>4, <1>6, <2>1
  <2>2. CASE r % 2 = 1 /\ s = 0
    BY <1>4, <1>6, <2>2
  <2>3. CASE s % 2 = 1 /\ r = 0
    BY <1>4, <1>6, <2>3
  <2> QED
    BY <1>4, <2>1, <2>2, <2>3
<1>7. Reading(n) = 2 * (t + 1) + s
  BY <1>3 DEF Reading
<1>8. ~Past(2 * (t + 1) + s)
  BY <1>2, <1>3, <1>5, <1>6 DEF Past
<1> QED
  BY <1>4, <1>7, <1>8

\* A node whose clock is not behind reads what is newer than anything.
LEMMA ReadingIsNewer ==
  ASSUME ClocksTyped, NEW n \in Nodes, Leading(n), NEW ts, Past(ts)
  PROVE  ts < Reading(n)
<1>1. PICK k \in Nodes, t \in 1..now : ts = 2 * t + skew[k]
  BY DEF Past
<1>2. skew[k] \in Nat /\ skew[n] \in Nat /\ now \in Nat
  BY RegistryAssumption DEF ClocksTyped
<1>3. skew[k] <= skew[n]
  BY <1>2, OtherNode DEF Leading
<1> QED
  BY <1>1, <1>2, <1>3 DEF Reading

LEMMA OneLeads ==
  ASSUME ClocksTyped, NEW n \in Nodes
  PROVE  Leading(n) \/ Leading(Other(n))
<1>1. Other(n) \in Nodes /\ Other(Other(n)) = n
  BY OtherNode
<1>2. skew[n] \in Nat /\ skew[Other(n)] \in Nat
  BY <1>1, RegistryAssumption DEF ClocksTyped
<1> QED
  BY <1>1, <1>2 DEF Leading

LEMMA PastStays ==
  ASSUME ClocksTyped, NEW ts, Past(ts), skew' = skew,
         now' = now \/ now' = now + 1
  PROVE  Past(ts)'
<1>1. 1..now \subseteq 1..now'
  BY DEF ClocksTyped
<1> QED
  BY <1>1 DEF Past

LEMMA ReadClock ==
  ASSUME ClocksTyped, CountersTyped, NEW n \in Nodes, NEW ts, ts = Reading(n), ClockRead,
         skew' = skew
  PROVE  /\ ClocksTyped' /\ Past(ts)' /\ ~Past(ts) /\ ts \in Nat \ {0}
         /\ now' = now + 1
<1>1. now' = now + 1 /\ now' \in 1..now' /\ now' \in 0..MaxTime
  BY RegistryAssumption DEF ClockRead, ClocksTyped, CountersTyped
<1>2. ts = 2 * now' + skew[n]
  BY <1>1 DEF Reading
<1>3. Past(ts)'
  BY <1>1, <1>2 DEF Past
<1>4. ~Past(ts) /\ ts \in Nat \ {0}
  BY ReadingIsFresh
<1> QED
  BY <1>1, <1>3, <1>4 DEF ClocksTyped

-----------------------------------------------------------------------------
(* What stays typed.                                                       *)
LEMMA IdsParts ==
  ASSUME AppsTyped, NEW id \in Ids
  PROVE  /\ id \in Nat \ {0} /\ id \in 1..MaxApps
         /\ IsApp(apps[id], id)
<1>1. Len(apps) \in Nat /\ Len(apps) <= MaxApps /\ MaxApps \in Nat
  BY LenProperties, RegistryAssumption DEF AppsTyped
<1> QED
  BY <1>1 DEF AppsTyped, Ids

LEMMA PartsStay ==
  ASSUME ClocksTyped, Ids \subseteq Ids', skew' = skew, now' = now \/ now' = now + 1
  PROVE  /\ \A ts : Past(ts) => Past(ts)'
         /\ \A e, ts : IsEntry(e, ts) => IsEntry(e, ts)'
         /\ \A o : IsOpening(o) => IsOpening(o)'
         /\ \A p : IsPayment(p) => IsPayment(p)'
<1>1. \A ts : Past(ts) => Past(ts)'
  BY PastStays
<1>2. \A e, ts : IsEntry(e, ts) => IsEntry(e, ts)'
  BY DEF IsEntry
<1>3. \A o : IsOpening(o) => IsOpening(o)'
  BY DEF IsOpening
<1>4. \A p : IsPayment(p) => IsPayment(p)'
  BY <1>1 DEF IsPayment
<1> QED
  BY <1>1, <1>2, <1>3, <1>4

\* A step that writes no state into a log.
LEMMA LogsStay ==
  ASSUME Typed, Ids \subseteq Ids', skew' = skew, now' = now \/ now' = now + 1,
         log' = [n \in Nodes |-> log'[n]],
         \A n \in Nodes : log'[n] = log[n] \/ log'[n] = EmptyLog
  PROVE  LogsTyped'
<1>1. ClocksTyped /\ LogsTyped
  BY DEF Typed
<1>2. /\ \A ts : Past(ts) => Past(ts)'
      /\ \A e, ts : IsEntry(e, ts) => IsEntry(e, ts)'
  BY <1>1, PartsStay
<1>3. ASSUME NEW n \in Nodes
      PROVE  /\ Ordered(log'[n])
             /\ \A ts \in DOMAIN log'[n] : Past(ts)' /\ IsEntry(log[n][ts], ts)'
  <2>1. CASE log'[n] = EmptyLog
    BY <2>1, EmptyOrdered
  <2>2. CASE log'[n] = log[n]
    <3>1. Ordered(log[n])
      BY <1>1 DEF LogsTyped
    <3>2. ASSUME NEW ts \in DOMAIN log[n]
          PROVE  Past(ts)' /\ IsEntry(log[n][ts], ts)'
      <4>1. Past(ts) /\ IsEntry(log[n][ts], ts)
        BY <1>1 DEF LogsTyped
      <4>2. PICK e : e = log[n][ts]
        OBVIOUS
      <4>3. Past(ts)' /\ IsEntry(e, ts)'
        BY <1>2, <4>1, <4>2
      <4> QED
        BY <2>2, <4>2, <4>3 DEF IsEntry
    <3> QED
      BY <2>2, <3>1, <3>2
  <2> QED
    BY <2>1, <2>2
<1> QED
  BY <1>3 DEF LogsTyped, IsEntry

\* What storing a state does to the logs.
Stored(n, ts, e) ==
  /\ log' = [k \in Nodes |-> log'[k]]
  /\ log'[n] = Store(log[n], e) /\ log'[Other(n)] = log[Other(n)]
  /\ DOMAIN log'[n] = DOMAIN log[n] \cup {ts} /\ log'[n][ts] = e
  /\ \A us \in DOMAIN log[n] : us # ts => log'[n][us] = log[n][us]

LEMMA StoreLog ==
  ASSUME LogsTyped, NEW n \in Nodes, NEW ts, NEW e, e.timestamp = ts,
         log' = [log EXCEPT ![n] = Store(@, e)]
  PROVE  Stored(n, ts, e)
<1>1. Other(n) \in Nodes /\ Other(n) # n
  BY OtherNode
<1>2. /\ log' = [k \in Nodes |-> log'[k]]
      /\ log'[n] = Store(log[n], e)
      /\ log'[Other(n)] = log[Other(n)]
  BY <1>1 DEF LogsTyped
<1>3. /\ DOMAIN log'[n] = DOMAIN log[n] \cup {ts} /\ log'[n][ts] = e
      /\ \A us \in DOMAIN log[n] : us # ts => log'[n][us] = log[n][us]
  BY <1>2 DEF Store
<1> QED
  BY <1>2, <1>3 DEF Stored

\* A step that stores one state keeps the logs typed.
LEMMA StoreStep ==
  ASSUME Typed, UNCHANGED <<apps, skew>>, now' = now \/ now' = now + 1,
         NEW n \in Nodes, NEW ts \in Nat \ {0}, Past(ts)', NEW e, IsEntry(e, ts),
         log' = [log EXCEPT ![n] = Store(@, e)]
  PROVE  LogsTyped'
<1>1. ClocksTyped /\ LogsTyped /\ Ids' = Ids /\ e.timestamp = ts
  BY DEF Typed, Ids, IsEntry
<1>2. \A us : Past(us) => Past(us)'
  BY <1>1, PartsStay
<1>3. \A k \in Nodes : k = n \/ k = Other(n)
  BY OtherNode
<1>4. Other(n) \in Nodes /\ Other(n) # n
  BY OtherNode
<1>5. /\ log' = [k \in Nodes |-> log'[k]]
      /\ log'[n] = Store(log[n], e) /\ log'[Other(n)] = log[Other(n)]
      /\ DOMAIN log'[n] = DOMAIN log[n] \cup {ts} /\ log'[n][ts] = e
      /\ \A us \in DOMAIN log[n] : us # ts => log'[n][us] = log[n][us]
  <2>1. Stored(n, ts, e)
    BY <1>1, StoreLog
  <2> QED
    BY <2>1 DEF Stored
<1>6. Ordered(log[n]) /\ Ordered(log[Other(n)])
  BY <1>1, <1>4 DEF LogsTyped
<1>7. Ordered(log'[n])
  BY <1>1, <1>5, <1>6, StoreOrdered
<1>8. \A k \in Nodes : \A us \in DOMAIN log[k] : Past(us) /\ IsEntry(log[k][us], us)
  BY <1>1 DEF LogsTyped
<1>9. ASSUME NEW k \in Nodes, NEW us \in DOMAIN log'[k]
      PROVE  Past(us)' /\ IsEntry(log[k][us], us)'
  <2>1. ASSUME us \in DOMAIN log[k], log'[k][us] = log[k][us]
        PROVE  Past(us)' /\ IsEntry(log[k][us], us)'
    <3>1. Past(us) /\ IsEntry(log[k][us], us)
      BY <1>8, <2>1
    <3> QED
      BY <1>1, <1>2, <2>1, <3>1 DEF IsEntry
  <2>2. CASE k = n /\ us = ts
    BY <1>1, <1>5, <2>2 DEF IsEntry
  <2>3. CASE k = n /\ us # ts
    BY <1>5, <2>1, <2>3
  <2>4. CASE k = Other(n)
    BY <1>5, <2>1, <2>4
  <2> QED
    BY <1>3, <2>2, <2>3, <2>4
<1>10. \A k \in Nodes : Ordered(log'[k])
  BY <1>3, <1>5, <1>6, <1>7
<1> QED
  BY <1>5, <1>9, <1>10 DEF LogsTyped, IsEntry

\* A step that leaves the ledger and the clocks alone and stores no state.
LEMMA QuietTyped ==
  ASSUME Typed, UNCHANGED <<apps, now, skew>>, CountersTyped',
         log' = [n \in Nodes |-> log'[n]],
         \A n \in Nodes : log'[n] = log[n] \/ log'[n] = EmptyLog,
         record' \in [Nodes -> {0} \cup Ids], closing' \in [Nodes -> {0} \cup Ids],
         \A o \in openings' : IsOpening(o),
         \A p \in payments' : IsPayment(p)
  PROVE  Typed'
<1>1. Ids' = Ids /\ ClocksTyped /\ AppsTyped
  BY DEF Ids, Typed
<1>2. ClocksTyped' /\ AppsTyped'
  BY <1>1 DEF ClocksTyped, AppsTyped
<1>3. LogsTyped'
  BY <1>1, LogsStay
<1>4. /\ \A o : IsOpening(o) => IsOpening(o)'
      /\ \A p : IsPayment(p) => IsPayment(p)'
  BY <1>1, PartsStay
<1> QED
  BY <1>1, <1>2, <1>3, <1>4 DEF Typed

LEMMA QuietStep ==
  ASSUME RInv, Typed', payments' \subseteq payments,
         \A n \in Nodes : log'[n] = log[n] \/ log'[n] = EmptyLog
  PROVE  RInv'
<1>1. Distinct'
  BY DEF RInv, Distinct
<1>2. ASSUME NEW n \in Nodes
      PROVE  DOMAIN log'[n] \subseteq DOMAIN log[n] /\ (DOMAIN log'[n] # {} => log'[n] = log[n])
  BY EmptyOrdered
<1>3. ASSUME NEW p \in payments' PROVE Trace(p)'
  <2>1. Trace(p) /\ p.payer \in Nodes /\ Other(p.payer) \in Nodes
    BY OtherNode DEF RInv, Typed, IsPayment
  <2> QED
    BY <1>2, <2>1 DEF Trace, Other
<1>4. Unmixed'
  BY <1>2 DEF RInv, Unmixed, SamePayment
<1> QED
  BY <1>1, <1>3, <1>4 DEF RInv

-----------------------------------------------------------------------------
(* Openings and closings.                                                  *)
LEMMA SetOpening ==
  ASSUME NEW I, NEW N, NEW S, NEW F,
         NEW o \in [app_id : I, opener : N, stage : S, awaited : BOOLEAN, found : F],
         NEW s \in S, NEW f \in F
  PROVE  /\ [o EXCEPT !.stage = s, !.found = f]
              \in [app_id : I, opener : N, stage : S, awaited : BOOLEAN, found : F]
         /\ [o EXCEPT !.stage = s, !.found = f].stage = s
         /\ [o EXCEPT !.stage = s, !.found = f].app_id = o.app_id
         /\ [o EXCEPT !.stage = s, !.found = f].opener = o.opener
         /\ [o EXCEPT !.stage = s, !.found = f].awaited = o.awaited
         /\ [o EXCEPT !.stage = s, !.found = f].found = f
         /\ [o EXCEPT !.awaited = FALSE]
              \in [app_id : I, opener : N, stage : S, awaited : BOOLEAN, found : F]
         /\ [o EXCEPT !.awaited = FALSE].stage = o.stage
         /\ [o EXCEPT !.awaited = FALSE].app_id = o.app_id
         /\ [o EXCEPT !.awaited = FALSE].opener = o.opener
         /\ [o EXCEPT !.awaited = FALSE].awaited = FALSE
         /\ [o EXCEPT !.awaited = FALSE].found = o.found
  OBVIOUS

LEMMA MovedOpening ==
  ASSUME NEW o, IsOpening(o), NEW s \in {"asking", "recorded", "approved", "saved"},
         NEW f \in Nat \X Nat, Found(o.app_id, f)
  PROVE  /\ IsOpening([o EXCEPT !.stage = s, !.found = f])
         /\ [o EXCEPT !.stage = s, !.found = f].stage = s
         /\ [o EXCEPT !.stage = s, !.found = f].app_id = o.app_id
         /\ [o EXCEPT !.stage = s, !.found = f].opener = o.opener
         /\ [o EXCEPT !.stage = s, !.found = f].awaited = o.awaited
<1>1. PICK q : q = [o EXCEPT !.stage = s, !.found = f]
  OBVIOUS
<1>2. /\ q \in [app_id : Ids, opener : Nodes,
                stage : {"asking", "recorded", "approved", "saved"}, awaited : BOOLEAN,
                found : Nat \X Nat]
      /\ q.stage = s /\ q.app_id = o.app_id /\ q.opener = o.opener
      /\ q.awaited = o.awaited /\ q.found = f
  BY <1>1, SetOpening DEF IsOpening
<1>3. Found(q.app_id, q.found)
  BY <1>2
<1> QED
  BY <1>1, <1>2, <1>3 DEF IsOpening

Moved(o, stage, found) == [o EXCEPT !.stage = stage, !.found = found]

LEMMA MovedFields ==
  ASSUME NEW o, IsOpening(o), NEW s \in {"asking", "recorded", "approved", "saved"},
         NEW f \in Nat \X Nat, Found(o.app_id, f)
  PROVE  /\ Moved(o, s, f).stage = s
         /\ Moved(o, s, f).app_id = o.app_id
         /\ Moved(o, s, f).opener = o.opener
         /\ Moved(o, s, f).awaited = o.awaited
<1>1. PICK q : q = [o EXCEPT !.stage = s, !.found = f]
  OBVIOUS
<1>2. /\ q.stage = s /\ q.app_id = o.app_id /\ q.opener = o.opener
      /\ q.awaited = o.awaited
  BY <1>1, SetOpening DEF IsOpening
<1> QED
  BY <1>1, <1>2 DEF Moved

\* When nothing has been read.
LEMMA NothingFound ==
  ASSUME NEW id
  PROVE  <<0, 0>> \in Nat \X Nat /\ Found(id, <<0, 0>>)
  BY DEF Found

LEMMA OrphanedOpening ==
  ASSUME NEW o, IsOpening(o)
  PROVE  /\ IsOpening([o EXCEPT !.awaited = FALSE])
         /\ [o EXCEPT !.awaited = FALSE].stage = o.stage
         /\ [o EXCEPT !.awaited = FALSE].app_id = o.app_id
         /\ [o EXCEPT !.awaited = FALSE].opener = o.opener
         /\ [o EXCEPT !.awaited = FALSE].awaited = FALSE
<1>1. PICK q : q = [o EXCEPT !.awaited = FALSE]
  OBVIOUS
<1>2. "asking" \in {"asking", "recorded", "approved", "saved"} /\ <<0, 0>> \in Nat \X Nat
  OBVIOUS
<1>3. /\ q \in [app_id : Ids, opener : Nodes,
                stage : {"asking", "recorded", "approved", "saved"}, awaited : BOOLEAN,
                found : Nat \X Nat]
      /\ q.stage = o.stage /\ q.app_id = o.app_id /\ q.opener = o.opener
      /\ q.awaited = FALSE /\ q.found = o.found
  BY <1>1, <1>2, SetOpening DEF IsOpening
<1>4. Found(q.app_id, q.found)
  BY <1>3 DEF IsOpening
<1> QED
  BY <1>1, <1>3, <1>4 DEF IsOpening

LEMMA OpeningParts ==
  ASSUME Typed, NEW o \in openings
  PROVE  /\ IsOpening(o) /\ o.app_id \in Ids /\ o.opener \in Nodes
         /\ Partner(o) \in Nodes /\ Partner(o) # o.opener
         /\ o.stage \in {"asking", "recorded", "approved", "saved"}
         /\ o.awaited \in BOOLEAN
         /\ o.found[1] \in Nat /\ o.found[2] \in Nat /\ Found(o.app_id, o.found)
<1>1. IsOpening(o)
  BY DEF Typed
<1>2. /\ o.app_id \in Ids /\ o.opener \in Nodes /\ o.awaited \in BOOLEAN
      /\ o.stage \in {"asking", "recorded", "approved", "saved"}
      /\ o.found \in Nat \X Nat /\ Found(o.app_id, o.found)
  BY <1>1 DEF IsOpening
<1> QED
  BY <1>1, <1>2, OtherNode DEF Partner

\* What a handler reads of an application.
LEMMA ReadApp ==
  ASSUME AppsTyped, NEW id \in Ids
  PROVE  LET f == <<apps[id].latest_alice_balance, apps[id].latest_bob_balance>>
         IN  f \in Nat \X Nat /\ Found(id, f)
<1>1. IsApp(apps[id], id)
  BY IdsParts
<1>2. /\ apps[id].latest_alice_balance \in Nat /\ apps[id].latest_bob_balance \in Nat
  BY <1>1 DEF IsApp, ChannelApp
<1> QED
  BY <1>1, <1>2 DEF Found, IsApp

LEMMA SaveRecordStep ==
  ASSUME RInv, NEW o \in openings, NEW n \in Nodes, SaveRecord(n, o.app_id),
         NEW s \in {"recorded", "saved"}, NEW f \in Nat \X Nat, Found(o.app_id, f),
         Advance(o, s, f),
         UNCHANGED <<apps, log, payments, closing, now, skew, losses, restarts, overlaps>>
  PROVE  RInv'
<1>1. Typed
  BY DEF RInv
<1>2. record' \in [Nodes -> {0} \cup Ids]
  BY <1>1, OpeningParts DEF Typed, SaveRecord
<1>3. ASSUME NEW q \in openings' PROVE IsOpening(q)
  <2>1. IsOpening(o) /\ s \in {"asking", "recorded", "approved", "saved"}
    BY <1>1 DEF Typed
  <2>2. IsOpening([o EXCEPT !.stage = s, !.found = f])
    BY <2>1, MovedOpening
  <2>3. q \in openings \/ q = [o EXCEPT !.stage = s, !.found = f]
    BY DEF Advance
  <2> QED
    BY <1>1, <2>2, <2>3 DEF Typed
<1>4. CountersTyped' /\ log' = [k \in Nodes |-> log'[k]]
  BY <1>1 DEF Typed, CountersTyped, LogsTyped
<1>5. /\ closing' \in [Nodes -> {0} \cup Ids] /\ \A p \in payments' : IsPayment(p)
      /\ \A k \in Nodes : log'[k] = log[k]
  BY <1>1 DEF Typed
<1>6. Typed'
  BY <1>1, <1>2, <1>3, <1>4, <1>5, QuietTyped
<1> QED
  BY <1>5, <1>6, QuietStep

\* Steps that drop a call, or begin or end a close without the ledger.
LEMMA DropStep ==
  ASSUME RInv, openings' \subseteq openings, payments' \subseteq payments,
         record' \in [Nodes -> {0} \cup Ids], closing' \in [Nodes -> {0} \cup Ids],
         CountersTyped', UNCHANGED <<apps, log, now, skew>>
  PROVE  RInv'
<1>1. /\ Typed /\ \A o \in openings' : IsOpening(o)
      /\ \A p \in payments' : IsPayment(p)
      /\ log' = [k \in Nodes |-> log'[k]] /\ \A k \in Nodes : log'[k] = log[k]
  BY DEF RInv, Typed, LogsTyped
<1>2. Typed'
  BY <1>1, QuietTyped
<1> QED
  BY <1>1, <1>2, QuietStep

LEMMA LossTyped ==
  ASSUME CountersTyped, overlaps' = overlaps,
         \/ UNCHANGED <<losses, restarts>>
         \/ /\ losses + restarts < MaxFaults
            /\ \/ losses' = losses + 1 /\ restarts' = restarts
               \/ restarts' = restarts + 1 /\ losses' = losses
  PROVE  CountersTyped'
  BY RegistryAssumption DEF CountersTyped

LEMMA OpenLostStep ==
  ASSUME RInv, NEW o \in openings, OpenLost(o)
  PROVE  RInv'
<1>1. Typed /\ CountersTyped
  BY DEF RInv, Typed
<1>2. CountersTyped'
  BY <1>1, LossTyped DEF OpenLost
<1> QED
  BY <1>1, <1>2, DropStep DEF OpenLost, memory, Typed

LEMMA PayDroppedStep ==
  ASSUME RInv, NEW p \in payments, RejectPay(p) \/ PayLost(p)
  PROVE  RInv'
<1>1. Typed /\ CountersTyped
  BY DEF RInv, Typed
<1>2. CountersTyped'
  BY <1>1, LossTyped DEF RejectPay, PayLost, faults
<1> QED
  BY <1>1, <1>2, DropStep DEF RejectPay, PayLost, memory, Typed

LEMMA FinalizeStep ==
  ASSUME RInv, NEW n \in Nodes, FinalizeCloseChannel(n)
  PROVE  RInv'
<1>1. Typed /\ CountersTyped
  BY DEF RInv, Typed
<1>2. CountersTyped'
  BY <1>1, LossTyped DEF FinalizeCloseChannel, faults
<1>3. closing' \in [Nodes -> {0} \cup Ids]
  BY <1>1 DEF FinalizeCloseChannel, Typed
<1> QED
  BY <1>1, <1>2, <1>3, DropStep DEF FinalizeCloseChannel, memory, Typed

LEMMA DeleteStep ==
  ASSUME RInv, NEW n \in Nodes, DeleteRecord(n)
  PROVE  RInv'
<1>1. Typed /\ CountersTyped
  BY DEF RInv, Typed
<1>2. CountersTyped'
  BY <1>1, LossTyped DEF DeleteRecord, faults
<1>3. record' \in [Nodes -> {0} \cup Ids] /\ closing' \in [Nodes -> {0} \cup Ids]
  BY <1>1 DEF DeleteRecord, Typed
<1> QED
  BY <1>1, <1>2, <1>3, DropStep DEF DeleteRecord

\* What both kinds of forgetting have in common.
LEMMA ForgetParts ==
  ASSUME RInv, NEW n \in Nodes, Forget(n), UNCHANGED <<losses, overlaps>>
  PROVE  /\ CountersTyped'
         /\ record' \in [Nodes -> {0} \cup Ids] /\ record'[n] = 0
         /\ record'[Other(n)] = record[Other(n)]
         /\ log' = [k \in Nodes |-> log'[k]]
         /\ log'[n] = EmptyLog /\ log'[Other(n)] = log[Other(n)]
         /\ \A k \in Nodes : log'[k] = log[k] \/ log'[k] = EmptyLog
<1>1. /\ CountersTyped /\ record \in [Nodes -> {0} \cup Ids]
      /\ log = [k \in Nodes |-> log[k]]
  BY DEF RInv, Typed, LogsTyped
<1>2. CountersTyped'
  BY <1>1, LossTyped DEF Forget
<1> QED
  BY <1>1, <1>2, OtherNode DEF Forget

LEMMA ResetStep ==
  ASSUME RInv, NEW n \in Nodes, Reset(n)
  PROVE  RInv'
<1>1. /\ Typed /\ Forget(n)
      /\ UNCHANGED <<apps, openings, payments, closing, now, skew, losses, overlaps>>
  BY DEF RInv, Reset, calls
<1>2. /\ CountersTyped'
      /\ record' \in [Nodes -> {0} \cup Ids]
      /\ log' = [k \in Nodes |-> log'[k]]
      /\ \A k \in Nodes : log'[k] = log[k] \/ log'[k] = EmptyLog
  BY <1>1, ForgetParts
<1>3. /\ \A o \in openings' : IsOpening(o)
      /\ \A p \in payments' : IsPayment(p)
      /\ closing' \in [Nodes -> {0} \cup Ids]
  BY <1>1 DEF Typed
<1>4. Typed'
  BY <1>1, <1>2, <1>3, QuietTyped
<1> QED
  BY <1>1, <1>2, <1>4, QuietStep

LEMMA RestartStep ==
  ASSUME RInv, NEW n \in Nodes, Restart(n)
  PROVE  RInv'
<1>1. /\ Typed /\ Forget(n) /\ UNCHANGED <<apps, now, skew, losses, overlaps>>
      /\ closing' = [closing EXCEPT ![n] = 0] /\ payments' \subseteq payments
  BY DEF RInv, Restart
<1>2. /\ CountersTyped'
      /\ record' \in [Nodes -> {0} \cup Ids]
      /\ log' = [k \in Nodes |-> log'[k]]
      /\ \A k \in Nodes : log'[k] = log[k] \/ log'[k] = EmptyLog
  BY <1>1, ForgetParts
<1>3. \A p \in payments' : IsPayment(p)
  BY <1>1 DEF Typed
<1>4. closing' \in [Nodes -> {0} \cup Ids]
  BY <1>1 DEF Typed
<1>5. \A q \in openings' : q \in openings \/ \E o \in openings : q = [o EXCEPT !.awaited = FALSE]
  BY DEF Restart
<1>6. ASSUME NEW o \in openings PROVE IsOpening(o) /\ IsOpening([o EXCEPT !.awaited = FALSE])
  <2>1. IsOpening(o)
    BY <1>1 DEF Typed
  <2> QED
    BY <2>1, OrphanedOpening
<1>7. \A q \in openings' : IsOpening(q)
  BY <1>5, <1>6
<1>8. Typed'
  BY <1>1, <1>2, <1>3, <1>4, <1>7, QuietTyped
<1> QED
  BY <1>1, <1>2, <1>8, QuietStep

-----------------------------------------------------------------------------
(* Steps that store a state.                                               *)
LEMMA StoreTyped ==
  ASSUME Typed, UNCHANGED <<apps, record, closing, skew>>, ClocksTyped', CountersTyped',
         now' = now \/ now' = now + 1,
         NEW n \in Nodes, NEW ts \in Nat \ {0}, Past(ts)', NEW e, IsEntry(e, ts),
         log' = [log EXCEPT ![n] = Store(@, e)],
         \A o \in openings' : IsOpening(o),
         \A p \in payments' : IsPayment(p)
  PROVE  Typed'
<1>1. Ids' = Ids /\ ClocksTyped /\ AppsTyped
  BY DEF Ids, Typed
<1>2. AppsTyped'
  BY <1>1 DEF AppsTyped
<1>3. LogsTyped'
  BY StoreStep
<1>4. /\ \A o : IsOpening(o) => IsOpening(o)'
      /\ \A p : IsPayment(p) => IsPayment(p)'
  BY <1>1, PartsStay
<1>5. record' \in [Nodes -> {0} \cup Ids'] /\ closing' \in [Nodes -> {0} \cup Ids']
  BY <1>1 DEF Typed
<1> QED
  BY <1>2, <1>3, <1>4, <1>5 DEF Typed

LEMMA StoreUnmixed ==
  ASSUME LogsTyped, Unmixed, NEW n \in Nodes, NEW ts, NEW e, e.timestamp = ts,
         log' = [log EXCEPT ![n] = Store(@, e)],
         ts \in DOMAIN log[Other(n)] => SamePayment(e, log[Other(n)][ts])
  PROVE  Unmixed'
<1>1. Stored(n, ts, e)
  BY StoreLog
<1>2. \A k \in Nodes : k = n \/ k = Other(n)
  BY OtherNode
<1>3. ASSUME NEW us \in DOMAIN log'[n], us \in DOMAIN log[Other(n)]
      PROVE  SamePayment(log'[n][us], log[Other(n)][us])
  <2>1. CASE us = ts
    BY <1>1, <1>3, <2>1 DEF Stored
  <2>2. CASE us # ts
    BY <1>1, <1>3, <2>2, OtherNode DEF Unmixed, Stored
  <2> QED
    BY <2>1, <2>2
<1> QED
  BY <1>1, <1>2, <1>3 DEF Unmixed, SamePayment, Stored

LEMMA TraceStays ==
  ASSUME NEW n \in Nodes, NEW ts, NEW e, Stored(n, ts, e),
         NEW p, p.payer \in Nodes, Trace(p), p.req.timestamp # ts
  PROVE  Trace(p)'
<1>1. /\ log'[Other(n)] = log[Other(n)]
      /\ DOMAIN log'[n] = DOMAIN log[n] \cup {ts}
      /\ \A us \in DOMAIN log[n] : us # ts => log'[n][us] = log[n][us]
  BY DEF Stored
<1>2. Other(n) \in Nodes /\ Other(Other(n)) = n /\ (p.payer = n \/ p.payer = Other(n))
  BY OtherNode
<1>3. CASE p.payer = n
  BY <1>1, <1>3 DEF Trace, Other
<1>4. CASE p.payer = Other(n)
  <2>1. Other(p.payer) = n
    BY <1>2, <1>4
  <2>2. p.req.timestamp \in DOMAIN log'[n] <=> p.req.timestamp \in DOMAIN log[n]
    BY <1>1
  <2> QED
    BY <1>1, <1>4, <2>1, <2>2 DEF Trace, Other
<1> QED
  BY <1>2, <1>3, <1>4

\* The state that an opening begins with has a timestamp of its own.
LEMMA SaveStateStep ==
  ASSUME RInv, NEW n \in Nodes, NEW id \in Ids, NEW a \in Nat, NEW b \in Nat,
         SaveFirstState(n, id, a, b), \A o \in openings' : IsOpening(o),
         UNCHANGED <<apps, record, payments, closing, skew, losses, restarts, overlaps>>
  PROVE  /\ RInv'
         /\ \E ts \in Nat \ {0} :
              /\ ts = Reading(n) /\ ~Past(ts)
              /\ log' = [log EXCEPT ![n] =
                           Store(@, OffChainEntry(id, ts, a, b, NoSignature, NoSignature))]
<1>1. Typed /\ ClocksTyped /\ CountersTyped /\ LogsTyped /\ AppsTyped
  BY DEF RInv, Typed
<1>2. PICK ts : ts = Reading(n)
  OBVIOUS
<1>3. PICK e : e = OffChainEntry(id, ts, a, b, NoSignature, NoSignature)
  OBVIOUS
<1>4. ClockRead /\ log' = [log EXCEPT ![n] = Store(@, e)]
  BY <1>2, <1>3 DEF SaveFirstState, InitialState
<1>5. ClocksTyped' /\ Past(ts)' /\ ~Past(ts) /\ ts \in Nat \ {0} /\ now' = now + 1
  BY <1>1, <1>2, <1>4, ReadClock
<1>6. IsEntry(e, ts)
  BY <1>3 DEF IsEntry, OffChainEntry
<1>7. CountersTyped'
  BY <1>1 DEF CountersTyped
<1>8. \A p \in payments' : IsPayment(p)
  BY <1>1 DEF Typed
<1>9. Typed'
  BY <1>1, <1>4, <1>5, <1>6, <1>7, <1>8, StoreTyped
<1>10. ts \notin DOMAIN log[Other(n)]
  BY <1>1, <1>5, OtherNode DEF LogsTyped
<1>11. e.timestamp = ts
  BY <1>6 DEF IsEntry
<1>12. Stored(n, ts, e)
  BY <1>1, <1>4, <1>11, StoreLog
<1>13. ASSUME NEW p \in payments PROVE Trace(p)'
  <2>1. IsPayment(p) /\ Trace(p)
    BY <1>1 DEF RInv, Typed
  <2>2. p.req.timestamp # ts /\ p.payer \in Nodes
    BY <1>5, <2>1 DEF IsPayment
  <2> QED
    BY <1>12, <2>1, <2>2, TraceStays
<1>14. Distinct'
  BY DEF RInv, Distinct
<1>15. Unmixed'
  BY <1>1, <1>4, <1>10, <1>11, StoreUnmixed DEF RInv
<1> QED
  BY <1>2, <1>3, <1>4, <1>5, <1>9, <1>13, <1>14, <1>15 DEF RInv

LEMMA HandlerSavesStep ==
  ASSUME RInv, NEW o \in openings, HandlerSavesState(o)
  PROVE  RInv'
<1>1. /\ Typed /\ IsOpening(o) /\ o.app_id \in Ids /\ Partner(o) \in Nodes
      /\ o.found[1] \in Nat /\ o.found[2] \in Nat
  BY OpeningParts DEF RInv
<1>2. IsOpening([o EXCEPT !.stage = "approved", !.found = <<0, 0>>])
  BY <1>1, MovedOpening, NothingFound
<1>3. \A q \in openings' : q \in openings \/ q = [o EXCEPT !.stage = "approved", !.found = <<0, 0>>]
  BY DEF HandlerSavesState, Advance
<1>4. \A q \in openings' : IsOpening(q)
  BY <1>1, <1>2, <1>3 DEF Typed
<1> QED
  BY <1>1, <1>4, SaveStateStep DEF HandlerSavesState, faults, Partner

LEMMA OpenerSavesStep ==
  ASSUME RInv, NEW o \in openings, OpenerSavesState(o)
  PROVE  RInv'
<1>1. /\ Typed /\ o.app_id \in Ids /\ o.opener \in Nodes
      /\ Deposits[o.app_id] \in Nat /\ 0 \in Nat
  BY OpeningParts, IdsParts, DepositType DEF RInv, Typed
<1>2. \A q \in openings' : IsOpening(q)
  BY <1>1 DEF Typed, OpenerSavesState
<1> QED
  BY <1>1, <1>2, SaveStateStep DEF OpenerSavesState, faults

-----------------------------------------------------------------------------
(* Steps of the ledger.                                                    *)
LEMMA LedgerStep ==
  ASSUME RInv, AppsTyped', Ids \subseteq Ids', CountersTyped',
         closing' \in [Nodes -> {0} \cup Ids'], \A o \in openings' : IsOpening(o)',
         UNCHANGED <<record, log, payments, now, skew>>
  PROVE  RInv'
<1>1. Typed /\ ClocksTyped /\ LogsTyped
  BY DEF RInv, Typed
<1>2. ClocksTyped'
  BY <1>1 DEF ClocksTyped
<1>3. LogsTyped'
  BY <1>1, LogsStay DEF LogsTyped
<1>4. \A p \in payments' : IsPayment(p)'
  BY <1>1, PartsStay DEF Typed
<1>5. record' \in [Nodes -> {0} \cup Ids']
  BY <1>1 DEF Typed
<1>6. Typed'
  BY <1>2, <1>3, <1>4, <1>5 DEF Typed
<1> QED
  BY <1>6, QuietStep

LEMMA CreatedApp ==
  ASSUME NEW n \in Nodes, NEW id \in 1..MaxApps
  PROVE  IsApp(Created(id, n, Other(n), Penalty, 1), id)
<1>1. id \in Nat /\ Penalty \in Nat /\ Other(n) \in Nodes
  BY RegistryAssumption, OtherNode
<1> QED
  BY <1>1 DEF Created, ChannelApp, IsApp

LEMMA GrowApps ==
  ASSUME AppsTyped, NEW a, IsApp(a, Len(apps) + 1), Len(apps) < MaxApps,
         apps' = Append(apps, a)
  PROVE  /\ AppsTyped' /\ Len(apps') = Len(apps) + 1
         /\ Ids \subseteq Ids' /\ Len(apps) + 1 \in Ids'
         /\ \A id \in Ids : apps'[id] = apps[id]
<1>1. /\ apps \in Seq(ChannelApp) /\ Len(apps) \in Nat /\ MaxApps \in Nat
      /\ a \in ChannelApp
  BY LenProperties, RegistryAssumption DEF AppsTyped, IsApp
<1>2. /\ apps' \in Seq(ChannelApp) /\ Len(apps') = Len(apps) + 1
      /\ \A i \in 1..Len(apps) : apps'[i] = apps[i]
      /\ apps'[Len(apps) + 1] = a
  BY <1>1, AppendProperties
<1>3. Ids' = 1..(Len(apps) + 1) /\ Ids = 1..Len(apps)
  BY <1>2 DEF Ids
<1>4. \A id \in Ids' : id \in Ids \/ id = Len(apps) + 1
  BY <1>1, <1>3
<1>5. \A id \in Ids' : IsApp(apps'[id], id)
  BY <1>2, <1>3, <1>4 DEF AppsTyped
<1> QED
  BY <1>1, <1>2, <1>3, <1>5 DEF AppsTyped, Ids, IsApp

\* The ledger takes a call of one application.
LEMMA ChangeApp ==
  ASSUME AppsTyped, NEW id \in Ids, NEW a, IsApp(a, id), apps' = [apps EXCEPT ![id] = a]
  PROVE  AppsTyped' /\ Ids' = Ids
<1>1. apps \in Seq(ChannelApp) /\ a \in ChannelApp
  BY DEF AppsTyped, IsApp
<1>2. /\ apps' \in Seq(ChannelApp) /\ Len(apps') = Len(apps)
      /\ \A j \in 1..Len(apps) : apps'[j] = IF j = id THEN a ELSE apps[j]
  BY <1>1, ExceptSeq DEF Ids
<1>3. Ids' = Ids
  BY <1>2 DEF Ids
<1>4. \A j \in Ids' : IsApp(apps'[j], j)
  BY <1>2, <1>3 DEF AppsTyped, Ids
<1> QED
  BY <1>2, <1>3, <1>4 DEF AppsTyped, Ids, IsApp

LEMMA CreateStep ==
  ASSUME RInv, NEW n \in Nodes, OpenCreate(n)
  PROVE  RInv'
<1>1. Typed /\ AppsTyped /\ ClocksTyped /\ CountersTyped
  BY DEF RInv, Typed
<1>2. PICK id : id = Len(apps) + 1
  OBVIOUS
<1>3. /\ Len(apps) < MaxApps
      /\ apps' = Append(apps, Created(id, n, Other(n), Penalty, 1))
      /\ openings' = openings \cup {Opening(id, n)}
      /\ overlaps' \subseteq overlaps \cup {"opening", "payment"}
      /\ UNCHANGED <<record, log, payments, closing, now, skew, losses, restarts>>
  BY <1>2 DEF OpenCreate, memory, faults
<1>4. id \in 1..MaxApps
  BY <1>1, <1>2, <1>3, LenProperties, RegistryAssumption DEF AppsTyped
<1>5. PICK a : a = Created(id, n, Other(n), Penalty, 1)
  OBVIOUS
<1>6. IsApp(a, id)
  BY <1>4, <1>5, CreatedApp
<1>7. AppsTyped' /\ Ids \subseteq Ids' /\ id \in Ids'
  BY <1>1, <1>2, <1>3, <1>5, <1>6, GrowApps
<1>8. CountersTyped'
  BY <1>1, <1>3 DEF CountersTyped
<1>9. closing' \in [Nodes -> {0} \cup Ids']
  BY <1>1, <1>3, <1>7 DEF Typed
<1>10. IsOpening(Opening(id, n))'
  BY <1>7 DEF IsOpening, Opening, Found
<1>11. \A o \in openings : IsOpening(o)'
  BY <1>1, <1>3, <1>7, PartsStay DEF Typed
<1>12. \A o \in openings' : IsOpening(o)'
  BY <1>3, <1>10, <1>11
<1> QED
  BY <1>3, <1>7, <1>8, <1>9, <1>12, LedgerStep

LEMMA FundedApp ==
  ASSUME NEW id \in 1..MaxApps, NEW a, IsApp(a, id), a.total_deposit = 0
  PROVE  IsApp(Funded(a, Deposits[id]), id)
<1>1. PICK b, d : b = Funded(a, Deposits[id]) /\ d = Deposits[id]
  OBVIOUS
<1>2. d \in Nat /\ a \in ChannelApp /\ a.app_id = id
  BY <1>1, DepositType DEF IsApp
<1>3. a.escrow = 0 /\ a.latest_alice_balance + a.latest_bob_balance = 0
  BY DEF IsApp
<1>4. a.latest_bob_balance = 0
  BY <1>2, <1>3 DEF ChannelApp
<1>5. b = [a EXCEPT !.latest_alice_balance = d, !.total_deposit = d, !.escrow = 0 + d]
  BY <1>1, <1>3 DEF Funded
<1>6. 0 + d = d /\ d + 0 = d
  BY <1>2
<1>7. /\ b \in ChannelApp /\ b.app_id = id /\ b.total_deposit = d /\ b.escrow = d
      /\ b.latest_alice_balance = d /\ b.latest_bob_balance = 0
  BY <1>2, <1>4, <1>5, <1>6 DEF ChannelApp
<1>8. b.latest_alice_balance + b.latest_bob_balance = b.total_deposit
  BY <1>6, <1>7
<1> QED
  BY <1>1, <1>7, <1>8 DEF IsApp

LEMMA FundStep ==
  ASSUME RInv, NEW id \in Ids, Fund(id)
  PROVE  RInv'
<1>1. /\ Typed /\ AppsTyped /\ ClocksTyped /\ CountersTyped
  BY DEF RInv, Typed
<1>2. PICK a : a = Funded(apps[id], Deposits[id])
  OBVIOUS
<1>3. /\ apps[id].total_deposit = 0 /\ apps' = [apps EXCEPT ![id] = a]
      /\ UNCHANGED <<record, log, openings, payments, closing, now, skew, losses, restarts,
                     overlaps>>
  BY <1>2 DEF Fund, memory, calls, faults
<1>4. IsApp(a, id)
  BY <1>1, <1>2, <1>3, IdsParts, FundedApp
<1>5. AppsTyped' /\ Ids' = Ids
  BY <1>1, <1>3, <1>4, ChangeApp
<1>6. CountersTyped'
  BY <1>1, <1>3 DEF CountersTyped
<1>7. closing' \in [Nodes -> {0} \cup Ids']
  BY <1>1, <1>3, <1>5 DEF Typed
<1>8. \A o \in openings' : IsOpening(o)'
  BY <1>1, <1>3, <1>5, PartsStay DEF Typed
<1> QED
  BY <1>3, <1>5, <1>6, <1>7, <1>8, LedgerStep

\* The payout of a recorded split takes all there is.
LEMMA PaidOutEmpties ==
  ASSUME NEW a \in ChannelApp
  PROVE  PaidOut(a) = [a EXCEPT !.escrow = 0]
<1>1. PICK e, b, f : e = a.escrow /\ b = a.latest_bob_balance /\ f = MinTxnFee
  OBVIOUS
<1>2. e \in Int /\ b \in Int /\ f \in Int
  BY <1>1, MinTxnFeeAssumption DEF ChannelApp
<1>3. e - (b - f) - (e - b - f) - 2 * f = 0
  BY <1>2
<1>4. PaidOut(a) = [a EXCEPT !.escrow = e - (b - f) - (e - b - f) - 2 * f]
  BY <1>1 DEF PaidOut, BobReceives, AliceReceives
<1> QED
  BY <1>3, <1>4

LEMMA SettledApp ==
  ASSUME NEW id, NEW app, IsApp(app, id), NEW call, call.alice_balance \in Nat,
         call.bob_balance \in Nat, call.timestamp \in Nat, SumsToDeposit(app, call)
  PROVE  IsApp(PaidOut(WithState(app, call)), id)
<1>1. PICK w : w = WithState(app, call)
  OBVIOUS
<1>2. /\ w \in ChannelApp /\ w.app_id = id /\ w.total_deposit = app.total_deposit
      /\ w.latest_alice_balance + w.latest_bob_balance = w.total_deposit
  BY <1>1 DEF WithState, ChannelApp, IsApp, SumsToDeposit
<1>3. PaidOut(w) = [w EXCEPT !.escrow = 0]
  BY <1>2, PaidOutEmpties
<1>4. PICK a : a = [w EXCEPT !.escrow = 0]
  OBVIOUS
<1>5. /\ a \in ChannelApp /\ a.app_id = w.app_id /\ a.total_deposit = w.total_deposit
      /\ a.latest_alice_balance = w.latest_alice_balance
      /\ a.latest_bob_balance = w.latest_bob_balance /\ a.escrow = 0
  BY <1>2, <1>4 DEF ChannelApp
<1>6. a.total_deposit \in {0, Deposits[id]}
  BY <1>2, <1>5 DEF IsApp
<1> QED
  BY <1>1, <1>2, <1>3, <1>4, <1>5, <1>6 DEF IsApp

LEMMA CoopStep ==
  ASSUME RInv, NEW n \in Nodes, CooperativeCloseChannel(n)
  PROVE  RInv'
<1>1. /\ Typed /\ AppsTyped /\ ClocksTyped /\ CountersTyped /\ LogsTyped
      /\ apps \in Seq(ChannelApp)
  BY DEF RInv, Typed, AppsTyped
<1>2. PICK id, mine : id = record[n] /\ mine = Latest(log[n])
  OBVIOUS
<1>3. /\ id # 0 /\ HasLatest(log[n])
      /\ closing' = [closing EXCEPT ![n] = id]
      /\ UNCHANGED <<record, log, openings, payments, now, skew, losses, restarts, overlaps>>
  BY <1>2 DEF CooperativeCloseChannel, memory, faults
<1>4. id \in Ids
  BY <1>1, <1>2, <1>3 DEF Typed
<1>5. /\ mine.alice_balance \in Nat /\ mine.bob_balance \in Nat /\ mine.timestamp \in Nat
  <2>1. Ordered(log[n]) /\ DOMAIN log[n] \subseteq Nat
    BY <1>1 DEF LogsTyped, Ordered
  <2>2. LatestTimestamp(log[n]) \in DOMAIN log[n] /\ mine = log[n][LatestTimestamp(log[n])]
    BY <1>2, <1>3, <2>1, OrderedLatest
  <2>3. IsEntry(mine, LatestTimestamp(log[n]))
    BY <1>1, <2>2 DEF LogsTyped
  <2> QED
    BY <2>1, <2>2, <2>3 DEF IsEntry
<1>6. PICK call : call = Call(mine.alice_balance, mine.bob_balance, mine.timestamp,
                   SignClose(id, apps[id].alice_address, mine.alice_balance,
                             mine.bob_balance, mine.timestamp),
                   SignClose(id, apps[id].bob_address, mine.alice_balance,
                             mine.bob_balance, mine.timestamp))
  OBVIOUS
<1>7. \/ apps' = apps
      \/ /\ SumsToDeposit(apps[id], call)
         /\ apps' = [apps EXCEPT ![id] = PaidOut(WithState(@, call))]
  BY <1>2, <1>6 DEF CooperativeCloseChannel, CoopCloseTakesEffect
<1>8. AppsTyped' /\ Ids' = Ids
  <2>1. CASE apps' = apps
    BY <1>1, <2>1 DEF AppsTyped, Ids
  <2>2. CASE /\ SumsToDeposit(apps[id], call)
             /\ apps' = [apps EXCEPT ![id] = PaidOut(WithState(@, call))]
    <3>1. PICK a : a = PaidOut(WithState(apps[id], call))
      OBVIOUS
    <3>2. IsApp(apps[id], id)
      BY <1>1, <1>4, IdsParts
    <3>3. /\ call.alice_balance \in Nat /\ call.bob_balance \in Nat
          /\ call.timestamp \in Nat
      BY <1>5, <1>6 DEF Call
    <3>4. IsApp(a, id)
      BY <2>2, <3>1, <3>2, <3>3, SettledApp
    <3>5. apps' = [apps EXCEPT ![id] = a]
      BY <2>2, <3>1
    <3> QED
      BY <1>1, <1>4, <3>4, <3>5, ChangeApp
  <2> QED
    BY <1>7, <2>1, <2>2
<1>9. CountersTyped'
  BY <1>1, <1>3 DEF CountersTyped
<1>10. closing' \in [Nodes -> {0} \cup Ids']
  BY <1>1, <1>3, <1>4, <1>8 DEF Typed
<1>11. \A o \in openings' : IsOpening(o)'
  BY <1>1, <1>3, <1>8, PartsStay DEF Typed
<1> QED
  BY <1>3, <1>8, <1>9, <1>10, <1>11, LedgerStep

-----------------------------------------------------------------------------
(* Payments.                                                               *)
LEMMA LatestEntry ==
  ASSUME Typed, NEW n \in Nodes, HasLatest(log[n])
  PROVE  /\ LatestTimestamp(log[n]) \in DOMAIN log[n]
         /\ Latest(log[n]) = log[n][LatestTimestamp(log[n])]
         /\ IsEntry(Latest(log[n]), LatestTimestamp(log[n]))
         /\ Past(LatestTimestamp(log[n]))
<1>1. Ordered(log[n])
  BY DEF Typed, LogsTyped
<1>2. /\ LatestTimestamp(log[n]) \in DOMAIN log[n]
      /\ Latest(log[n]) = log[n][LatestTimestamp(log[n])]
  BY <1>1, OrderedLatest
<1> QED
  BY <1>2 DEF Typed, LogsTyped

\* What is new in a payment that a node has just asked for.
LEMMA NewPayment ==
  ASSUME Typed, NEW n \in Nodes, NEW amount \in Amounts, Pay(n, amount)
  PROVE  \E p :
           /\ payments' = payments \cup {p} /\ IsPayment(p)' /\ ~Past(p.req.timestamp)
           /\ p.payer = n /\ p.app_id = record[n] /\ p.stage = "asking"
           /\ p.req = PayRequest(record[n], n, MeAlice(n, record[n]), Latest(log[n]),
                                 amount, Reading(n))
           /\ p.req.timestamp = Reading(n)
<1> DEFINE id == record[n]
           last == Latest(log[n])
           req == PayRequest(id, n, MeAlice(n, id), last, amount, Reading(n))
           p == Payment(n, id, req, "asking")
<1>1. /\ id # 0 /\ HasLatest(log[n]) /\ ClockRead
      /\ payments' = payments \cup {p} /\ apps' = apps /\ skew' = skew
  BY DEF Pay
<1>2. id \in Ids /\ amount \in Nat
  BY <1>1, RegistryAssumption DEF Typed
<1>3. last.alice_balance \in Nat /\ last.bob_balance \in Nat
  BY <1>1, LatestEntry DEF IsEntry
<1>4. PICK ts : ts = Reading(n)
  OBVIOUS
<1>5. Past(ts)' /\ ~Past(ts)
  BY <1>1, <1>4, ReadClock DEF Typed
<1>6. MeAlice(n, id) \in BOOLEAN
  BY DEF MeAlice
<1>7. PICK r : r = req
  OBVIOUS
<1>8. /\ r.alice_balance \in Nat /\ r.bob_balance \in Nat
      /\ r.from = n /\ r.timestamp = ts
      /\ r.signature = SignState(id, n, r.alice_balance, r.bob_balance, ts)
  BY <1>2, <1>3, <1>4, <1>6, <1>7, RequestTyped
<1>9. PICK q : q = p
  OBVIOUS
<1>10. /\ q = [payer |-> n, app_id |-> id, req |-> r, stage |-> "asking"]
  BY <1>7, <1>9 DEF Payment
<1>11. Ids' = Ids
  BY <1>1 DEF Ids
<1>12. PICK k : k = id
  OBVIOUS
<1>13. k \in Ids'
  BY <1>2, <1>11, <1>12
<1>14. /\ q = [payer |-> q.payer, app_id |-> q.app_id, req |-> q.req, stage |-> q.stage]
       /\ q.payer = n /\ q.app_id = k /\ q.req = r /\ q.stage = "asking"
  BY <1>10, <1>12
<1>15. IsPayment(q)'
  BY <1>5, <1>8, <1>12, <1>13, <1>14 DEF IsPayment
<1> QED
  BY <1>1, <1>4, <1>5, <1>7, <1>8, <1>9, <1>14, <1>12, <1>15

LEMMA PayStep ==
  ASSUME RInv, NEW n \in Nodes, NEW amount \in Amounts, Pay(n, amount)
  PROVE  RInv'
<1>1. /\ Typed /\ AppsTyped /\ ClocksTyped /\ CountersTyped /\ LogsTyped
      /\ \A p \in payments : Trace(p)
  BY DEF RInv, Typed
<1>2. /\ ClockRead /\ overlaps' \subseteq overlaps \cup {"payment"}
      /\ UNCHANGED <<apps, record, log, openings, closing, skew, losses, restarts>>
  BY DEF Pay, memory, faults
<1>3. PICK p :
        /\ payments' = payments \cup {p} /\ IsPayment(p)' /\ ~Past(p.req.timestamp)
        /\ p.payer = n
  BY <1>1, NewPayment
<1>4. ClocksTyped' /\ now' = now + 1
  BY <1>1, <1>2, ReadClock
<1>5. Ids' = Ids /\ AppsTyped'
  BY <1>1, <1>2 DEF Ids, AppsTyped
<1>6. LogsTyped'
  BY <1>1, <1>2, <1>4, <1>5, LogsStay DEF LogsTyped
<1>7. /\ \A o : IsOpening(o) => IsOpening(o)'
      /\ \A q : IsPayment(q) => IsPayment(q)'
  BY <1>1, <1>2, <1>4, <1>5, PartsStay
<1>8. CountersTyped'
  BY <1>1, <1>2 DEF CountersTyped
<1>9. /\ record' \in [Nodes -> {0} \cup Ids'] /\ closing' \in [Nodes -> {0} \cup Ids']
      /\ \A o \in openings' : IsOpening(o)'
      /\ \A q \in payments' : IsPayment(q)'
  BY <1>1, <1>2, <1>3, <1>5, <1>7 DEF Typed
<1>10. Typed'
  BY <1>4, <1>5, <1>6, <1>8, <1>9 DEF Typed
<1>11. \A q \in payments : Past(q.req.timestamp)
  BY <1>1 DEF Typed, IsPayment
<1>12. Distinct'
  BY <1>3, <1>11 DEF RInv, Distinct
<1>13. \A k \in Nodes : p.req.timestamp \notin DOMAIN log'[k]
  BY <1>1, <1>2, <1>3 DEF LogsTyped
<1>14. Trace(p)'
  BY <1>2, <1>3, <1>13, OtherNode DEF Trace, Other
<1>15. \A q \in payments : Trace(q)'
  BY <1>1, <1>2 DEF Trace, Other
<1>16. Unmixed'
  BY <1>2 DEF RInv, Unmixed, SamePayment
<1> QED
  BY <1>3, <1>10, <1>12, <1>14, <1>15, <1>16 DEF RInv

LEMMA SetPayment ==
  ASSUME NEW p, IsPayment(p)
  PROVE  LET q == [p EXCEPT !.stage = "approved"]
         IN  /\ IsPayment(q) /\ q.payer = p.payer /\ q.app_id = p.app_id
             /\ q.req = p.req /\ q.stage = "approved"
<1>1. PICK q : q = [p EXCEPT !.stage = "approved"]
  OBVIOUS
<1>2. p = [payer |-> p.payer, app_id |-> p.app_id, req |-> p.req, stage |-> p.stage]
  BY DEF IsPayment
<1>3. /\ q = [payer |-> q.payer, app_id |-> q.app_id, req |-> q.req, stage |-> q.stage]
      /\ q.payer = p.payer /\ q.app_id = p.app_id
      /\ q.req = p.req /\ q.stage = "approved"
  BY <1>1, <1>2
<1>4. IsPayment(q)
  BY <1>3 DEF IsPayment
<1> QED
  BY <1>1, <1>3, <1>4

\* What a receiver stores is what the payer has signed.
LEMMA HandledPayment ==
  ASSUME Typed, NEW p \in payments, HandlePay(p)
  PROVE  LET m == Other(p.payer)
             e == ReceiverEntry(record[m], m, MeAlice(m, record[m]), p.req)
         IN  /\ m \in Nodes /\ record[m] = p.app_id /\ HasLatest(log[m])
             /\ Beneficial(MeAlice(m, record[m]), Latest(log[m]), p.req,
                           apps[record[m]].penalty_reserve)
             /\ log' = [log EXCEPT ![m] = Store(@, e)]
             /\ e.app_id = p.app_id /\ e.timestamp = p.req.timestamp
             /\ e.alice_balance = p.req.alice_balance
             /\ e.bob_balance = p.req.bob_balance
<1>1. PICK m, id : m = Other(p.payer) /\ id = record[m]
  OBVIOUS
<1>2. IsPayment(p)
  BY DEF Typed
<1>3. m \in Nodes
  BY <1>1, <1>2, OtherNode DEF IsPayment
<1>4. /\ HasLatest(log[m])
      /\ Beneficial(MeAlice(m, id), Latest(log[m]), p.req, apps[id].penalty_reserve)
      /\ VerifyState(id, p.req.alice_balance, p.req.bob_balance, p.req.signature,
                     p.req.from, p.req.timestamp)
      /\ log' = [log EXCEPT ![m] = Store(@, ReceiverEntry(id, m, MeAlice(m, id), p.req))]
  BY <1>1 DEF HandlePay, AcceptsPayment, PayAcceptable
<1>5. /\ p.req.from = p.payer
      /\ p.req.signature = SignState(p.app_id, p.payer, p.req.alice_balance,
                                     p.req.bob_balance, p.req.timestamp)
  BY <1>2 DEF IsPayment
<1>6. id = p.app_id
  BY <1>4, <1>5, SameState
<1>7. PICK e : e = ReceiverEntry(id, m, MeAlice(m, id), p.req)
  OBVIOUS
<1>8. /\ e.app_id = id /\ e.timestamp = p.req.timestamp
      /\ e.alice_balance = p.req.alice_balance
      /\ e.bob_balance = p.req.bob_balance
  BY <1>7 DEF ReceiverEntry, OffChainEntry
<1> QED
  BY <1>1, <1>3, <1>4, <1>6, <1>7, <1>8

LEMMA StorePayment ==
  ASSUME RInv, NEW p \in payments, NEW q, IsPayment(q), q.req = p.req,
         payments' \subseteq (payments \ {p}) \cup {q}, q \in payments' => Trace(q)',
         NEW n \in Nodes, NEW e, IsEntry(e, p.req.timestamp),
         log' = [log EXCEPT ![n] = Store(@, e)],
         p.req.timestamp \in DOMAIN log[Other(n)] =>
           SamePayment(e, log[Other(n)][p.req.timestamp]),
         UNCHANGED <<apps, record, openings, closing, now, skew, losses, restarts, overlaps>>
  PROVE  RInv'
<1>1. /\ Typed /\ ClocksTyped /\ CountersTyped /\ LogsTyped
      /\ Distinct /\ Unmixed /\ \A r \in payments : Trace(r) /\ IsPayment(r)
  BY DEF RInv, Typed
<1>2. PICK ts : ts = p.req.timestamp
  OBVIOUS
<1>3. Past(ts)
  BY <1>1, <1>2 DEF IsPayment
<1>4. ts \in Nat \ {0}
  <2>1. \A k \in Nodes : skew[k] \in Nat
    BY <1>1, RegistryAssumption DEF ClocksTyped
  <2>2. PICK k \in Nodes, t \in 1..now : ts = 2 * t + skew[k]
    BY <1>3 DEF Past
  <2> QED
    BY <1>1, <2>1, <2>2 DEF ClocksTyped
<1>5. ClocksTyped' /\ CountersTyped' /\ Past(ts)'
  BY <1>1, <1>3 DEF ClocksTyped, CountersTyped, Past
<1>6. /\ \A o \in openings' : IsOpening(o)
      /\ \A r \in payments' : IsPayment(r)
  BY <1>1 DEF Typed
<1>7. IsEntry(e, ts) /\ e.timestamp = ts
  BY <1>2 DEF IsEntry
<1>8. Typed'
  BY <1>1, <1>4, <1>5, <1>6, <1>7, StoreTyped
<1>9. Unmixed'
  BY <1>1, <1>2, <1>7, StoreUnmixed
<1>10. Stored(n, ts, e)
  BY <1>1, <1>7, StoreLog
<1>11. ASSUME NEW r \in payments, r # p PROVE Trace(r)' /\ r.req.timestamp # ts
  <2>1. r.req.timestamp # ts /\ r.payer \in Nodes /\ Trace(r)
    BY <1>1, <1>2, <1>11 DEF Distinct, IsPayment
  <2> QED
    BY <1>10, <2>1, TraceStays
<1>12. Distinct'
  BY <1>1, <1>2, <1>11 DEF Distinct
<1>13. \A r \in payments' : Trace(r)'
  BY <1>11
<1> QED
  BY <1>8, <1>9, <1>12, <1>13 DEF RInv

LEMMA HandleStep ==
  ASSUME RInv, NEW p \in payments, HandlePay(p)
  PROVE  RInv'
<1>1. Typed /\ LogsTyped /\ IsPayment(p) /\ Trace(p)
  BY DEF RInv, Typed
<1>2. PICK m, q, ts : m = Other(p.payer) /\ q = [p EXCEPT !.stage = "approved"]
                      /\ ts = p.req.timestamp
  OBVIOUS
<1>3. PICK e : e = ReceiverEntry(record[m], m, MeAlice(m, record[m]), p.req)
  OBVIOUS
<1>4. /\ m \in Nodes
      /\ log' = [log EXCEPT ![m] = Store(@, e)]
      /\ e.app_id = p.app_id /\ e.timestamp = ts
      /\ e.alice_balance = p.req.alice_balance
      /\ e.bob_balance = p.req.bob_balance
  BY <1>1, <1>2, <1>3, HandledPayment
<1>5. /\ IsPayment(q) /\ q.payer = p.payer /\ q.app_id = p.app_id
      /\ q.req = p.req /\ q.stage = "approved"
  BY <1>1, <1>2, SetPayment
<1>6. IsEntry(e, ts)
  BY <1>1, <1>4 DEF IsEntry, IsPayment
<1>7. Stored(m, ts, e)
  BY <1>1, <1>4, StoreLog
<1>8. Other(m) = p.payer /\ p.payer # m
  BY <1>1, <1>2, OtherNode DEF IsPayment
<1>9. ts \notin DOMAIN log[Other(m)]
  BY <1>1, <1>2, <1>8 DEF Trace
<1>10. Trace(q)'
  <2>1. log'[m][ts] = e /\ log'[p.payer] = log[p.payer]
    BY <1>7, <1>8 DEF Stored
  <2> QED
    BY <1>2, <1>4, <1>5, <1>8, <1>9, <2>1 DEF Trace, Other
<1>11. /\ payments' = (payments \ {p}) \cup {q}
       /\ UNCHANGED <<apps, record, openings, closing, now, skew, losses, restarts, overlaps>>
  BY <1>2 DEF HandlePay, faults
<1> QED
  BY <1>2, <1>4, <1>5, <1>6, <1>9, <1>10, <1>11, StorePayment

LEMMA ApprovedStep ==
  ASSUME RInv, NEW p \in payments, PayApproved(p)
  PROVE  RInv'
<1>1. Typed /\ IsPayment(p) /\ Trace(p)
  BY DEF RInv, Typed
<1>2. PICK n, ts : n = p.payer /\ ts = p.req.timestamp
  OBVIOUS
<1>3. PICK e : e = PayerEntry(p.app_id, p.req,
                              ReceiverSignature(p.app_id, Other(p.payer), p.req))
  OBVIOUS
<1>4. /\ e.app_id = p.app_id /\ e.timestamp = ts
      /\ e.alice_balance = p.req.alice_balance
      /\ e.bob_balance = p.req.bob_balance
  BY <1>2, <1>3 DEF PayerEntry, OffChainEntry
<1>5. /\ log' = [log EXCEPT ![n] = Store(@, e)] /\ payments' = payments \ {p}
      /\ UNCHANGED <<apps, record, openings, closing, now, skew, losses, restarts, overlaps>>
  BY <1>2, <1>3 DEF PayApproved, faults
<1>6. n \in Nodes /\ IsEntry(e, ts)
  BY <1>1, <1>2, <1>4 DEF IsEntry, IsPayment
<1>7. ts \in DOMAIN log[Other(n)] => SamePayment(e, log[Other(n)][ts])
  BY <1>1, <1>2, <1>4 DEF Trace, SamePayment
<1> QED
  BY <1>1, <1>2, <1>5, <1>6, <1>7, StorePayment

-----------------------------------------------------------------------------
(* The first theorems.                                                     *)
LEMMA RInvInit == Init => RInv
<1> SUFFICES ASSUME Init PROVE RInv
  OBVIOUS
<1>1. AppsTyped
  <2>1. apps \in Seq(ChannelApp) /\ Len(apps) = 0 /\ Ids = {}
    BY EmptySeq DEF Init, Ids
  <2> QED
    BY <2>1, RegistryAssumption DEF AppsTyped
<1>2. LogsTyped
  BY EmptyOrdered DEF Init, LogsTyped
<1>3. ClocksTyped /\ CountersTyped
  BY RegistryAssumption DEF Init, ClocksTyped, CountersTyped
<1>4. Typed
  BY <1>1, <1>2, <1>3 DEF Init, Typed
<1>5. Unmixed
  BY EmptyOrdered DEF Init, Unmixed
<1> QED
  BY <1>4, <1>5 DEF Init, RInv, Distinct

LEMMA RInvStep == RInv /\ [Next]_vars => RInv'
<1> SUFFICES ASSUME RInv, [Next]_vars PROVE RInv'
  OBVIOUS
<1>1. CASE UNCHANGED vars
  <2>1. CountersTyped' /\ record \in [Nodes -> {0} \cup Ids] /\ closing \in [Nodes -> {0} \cup Ids]
    BY <1>1 DEF vars, RInv, Typed, CountersTyped
  <2> QED
    BY <1>1, <2>1, DropStep DEF vars
<1>2. /\ \A n \in Nodes : OpenCreate(n) => RInv'
      /\ \A id \in Ids : Fund(id) => RInv'
  BY CreateStep, FundStep
<1>3. ASSUME NEW o \in openings, HandlerSavesRecord(o) PROVE RInv'
  <2>1. PICK app, f : app = apps[o.app_id]
                      /\ f = <<app.latest_alice_balance, app.latest_bob_balance>>
    OBVIOUS
  <2>2. Partner(o) \in Nodes /\ o.app_id \in Ids
    BY OpeningParts DEF RInv
  <2>3. f \in Nat \X Nat /\ Found(o.app_id, f)
    BY <2>1, <2>2, ReadApp DEF RInv, Typed
  <2>4. SaveRecord(Partner(o), o.app_id) /\ Advance(o, "recorded", f)
    BY <1>3, <2>1 DEF HandlerSavesRecord, Partner
  <2> QED
    BY <1>3, <2>2, <2>3, <2>4, SaveRecordStep DEF HandlerSavesRecord, faults
<1>4. ASSUME NEW o \in openings, HandlerSavesState(o) PROVE RInv'
  BY <1>4, HandlerSavesStep
<1>5. ASSUME NEW o \in openings, OpenerSavesRecord(o) PROVE RInv'
  <2>1. o.opener \in Nodes
    BY OpeningParts DEF RInv
  <2> QED
    BY <1>5, <2>1, SaveRecordStep, NothingFound DEF OpenerSavesRecord, faults
<1>6. ASSUME NEW o \in openings, OpenerSavesState(o) PROVE RInv'
  BY <1>6, OpenerSavesStep
<1>7. ASSUME NEW o \in openings, OpenLost(o) PROVE RInv'
  BY <1>7, OpenLostStep
<1>8. ASSUME NEW n \in Nodes, NEW amount \in Amounts, Pay(n, amount) PROVE RInv'
  BY <1>8, PayStep
<1>9. ASSUME NEW p \in payments, HandlePay(p) PROVE RInv'
  BY <1>9, HandleStep
<1>10. ASSUME NEW p \in payments, PayApproved(p) PROVE RInv'
  BY <1>10, ApprovedStep
<1>11. ASSUME NEW p \in payments, RejectPay(p) \/ PayLost(p) PROVE RInv'
  BY <1>11, PayDroppedStep
<1>12. ASSUME NEW n \in Nodes, CooperativeCloseChannel(n) PROVE RInv'
  BY <1>12, CoopStep
<1>13. ASSUME NEW n \in Nodes, FinalizeCloseChannel(n) PROVE RInv'
  BY <1>13, FinalizeStep
<1>14. ASSUME NEW n \in Nodes, DeleteRecord(n) PROVE RInv'
  BY <1>14, DeleteStep
<1>15. ASSUME NEW n \in Nodes, Restart(n) PROVE RInv'
  BY <1>15, RestartStep
<1>16. ASSUME NEW n \in Nodes, Reset(n) PROVE RInv'
  BY <1>16, ResetStep
<1> QED
  BY <1>1, <1>2, <1>3, <1>4, <1>5, <1>6, <1>7, <1>8, <1>9, <1>10, <1>11, <1>12, <1>13,
     <1>14, <1>15, <1>16 DEF Next, OpenNext, PayNext, NodeNext

\* What holds of two nodes' memories in every state, whatever they do.
THEOREM RegistryInvariance == Spec => []RInv
<1>1. Init => RInv
  BY RInvInit
<1>2. RInv /\ [Next]_vars => RInv'
  BY RInvStep
<1> QED
  BY <1>1, <1>2, PTL DEF Spec

\* The type invariant: in particular no log ever holds a state of a channel that
\* does not exist, or one under another timestamp than its own (server.go 58-59).
THEOREM RegistryTyped == Spec => []TypeOK
<1>1. ASSUME RInv PROVE TypeOK
  <2>1. /\ Typed /\ AppsTyped /\ LogsTyped /\ ClocksTyped /\ CountersTyped
    BY <1>1 DEF RInv, Typed
  <2>2. \A id \in Ids : apps[id].app_id = id /\ apps[id].escrow \in {0, Deposits[id]}
    BY <2>1 DEF AppsTyped, IsApp
  <2>3. \A n \in Nodes : \A ts \in DOMAIN log[n] :
          ts > 0 /\ log[n][ts].timestamp = ts /\ log[n][ts].app_id \in Ids
    BY <2>1 DEF LogsTyped, Ordered, IsEntry
  <2>4. \A o \in openings : o.stage \in {"asking", "recorded", "approved", "saved"}
    BY <2>1 DEF Typed, IsOpening
  <2>5. \A p \in payments : p.app_id \in Ids /\ p.stage \in {"asking", "approved"}
    BY <2>1 DEF Typed, IsPayment
  <2>6. losses + restarts \in 0..MaxFaults
    BY <2>1, RegistryAssumption DEF CountersTyped
  <2> QED
    BY <2>1, <2>2, <2>3, <2>4, <2>5, <2>6 DEF TypeOK, Typed, ClocksTyped, CountersTyped
<1> QED
  BY <1>1, RegistryInvariance, PTL

\* Crossed openings, lost answers, skewed clocks and restarts included, the two
\* nodes never take one payment for two different ones (server.go 268-282,
\* rpcserver.go 284-298).
THEOREM StatesNeverMix == Spec => []NoMixedStates
<1>1. RInv => NoMixedStates
  BY DEF RInv, Unmixed, NoMixedStates, SamePayment
<1> QED
  BY <1>1, RegistryInvariance, PTL

-----------------------------------------------------------------------------
(* Openings that follow one another.                                       *)
LEMMA ZeroAgrees ==
  ASSUME NEW n \in Nodes, record[n] = 0
  PROVE  Agree
  BY OtherNode DEF Agree

LEMMA SameAgrees ==
  ASSUME NEW id, \A n \in Nodes : record[n] \in {id, 0}
  PROVE  Agree
  BY DEF Agree

Turns == OneByOne /\ Agreeing

\* A step that touches neither the records nor the openings.
LEMMA TurnsKept ==
  ASSUME Turns, UNCHANGED <<record, openings>>, overlaps \subseteq overlaps',
         losses' = 0 => losses = 0
  PROVE  Turns'
<1>1. \A o : Halfway(o) => Halfway(o)'
  BY DEF Halfway, Partner, Other
<1>2. \A o : Progress(o) => Progress(o)'
  BY DEF Progress, Partner, Other, Agree
<1>3. OneByOne'
  BY <1>1 DEF Turns, OneByOne
<1>4. Agreeing'
  BY <1>2 DEF Turns, Agreeing, Agree
<1> QED
  BY <1>3, <1>4 DEF Turns

\* A step that removes the record of a node, and perhaps openings with it.  An
\* opener whose call is gone has no record.
LEMMA TurnsCleared ==
  ASSUME Typed, Turns, NEW n \in Nodes, record'[n] = 0,
         record'[Other(n)] = record[Other(n)], UNCHANGED <<losses, overlaps>>,
         (\A o, q \in openings : o = q) => \A o, q \in openings' : o = q,
         \A q \in openings' :
           \/ q \in openings
           \/ \E o \in openings : o.opener = n /\ q = [o EXCEPT !.awaited = FALSE]
  PROVE  Turns'
<1>1. \A k \in Nodes : record'[k] \in {record[k], 0}
  BY OtherNode
<1>2. Agree'
  BY OtherNode DEF Agree
<1>3. ASSUME NEW q \in openings'
      PROVE  \E o \in openings :
               /\ q.stage = o.stage /\ q.app_id = o.app_id /\ q.opener = o.opener
               /\ q.awaited = o.awaited \/ q.opener = n
  <2>1. CASE q \in openings
    BY <2>1
  <2>2. CASE \E o \in openings : o.opener = n /\ q = [o EXCEPT !.awaited = FALSE]
    <3>1. PICK o \in openings : o.opener = n /\ q = [o EXCEPT !.awaited = FALSE]
      BY <2>2
    <3>2. IsOpening(o)
      BY DEF Typed
    <3> QED
      BY <3>1, <3>2, OrphanedOpening
  <2> QED
    BY <1>3, <2>1, <2>2
<1>4. ASSUME NEW q \in openings', NEW o \in openings,
             q.stage = o.stage, q.app_id = o.app_id, q.opener = o.opener,
             q.awaited = o.awaited \/ q.opener = n
      PROVE  (Halfway(o) => Halfway(q)') /\ (Progress(o) => Progress(q)')
  <2>1. o.opener \in Nodes /\ Partner(o) \in Nodes /\ Partner(q)' = Partner(o)
    BY <1>4, OpeningParts DEF Partner, Other
  <2>2. /\ record'[o.opener] \in {record[o.opener], 0}
        /\ record'[Partner(o)] \in {record[Partner(o)], 0}
    BY <1>1, <2>1
  <2>3. Halfway(o) => Halfway(q)'
    BY <1>4, <2>1, <2>2 DEF Halfway
  <2>4. ASSUME Progress(o) PROVE Progress(q)'
    <3>1. q.stage = "asking" => Agree'
      BY <1>2
    <3>2. q.stage = "approved" => record'[Partner(o)] \in {q.app_id, 0}
      BY <1>4, <2>2, <2>4 DEF Progress
    <3>3. q.stage = "saved" => \A k \in Nodes : record'[k] \in {q.app_id, 0}
      BY <1>1, <1>4, <2>4 DEF Progress
    <3>4. q.stage \in {"asking", "recorded"} /\ ~q.awaited => record'[q.opener] = 0
      BY <1>4, <2>2, <2>4 DEF Progress
    <3> QED
      BY <2>1, <3>1, <3>2, <3>3, <3>4 DEF Progress
  <2> QED
    BY <2>3, <2>4
<1>5. OneByOne'
  BY <1>3, <1>4 DEF Turns, OneByOne
<1>6. Agreeing'
  BY <1>2, <1>3, <1>4 DEF Turns, Agreeing
<1> QED
  BY <1>5, <1>6 DEF Turns

LEMMA CreateTurns ==
  ASSUME Turns, NEW n \in Nodes, OpenCreate(n)
  PROVE  Turns'
<1>1. PICK o : o = Opening(Len(apps) + 1, n)
  OBVIOUS
<1>2. /\ o.stage = "asking" /\ o.awaited = TRUE
      /\ openings' = openings \cup {o} /\ record' = record /\ losses' = losses
      /\ overlaps \subseteq overlaps' /\ (openings # {} => "opening" \in overlaps')
  BY <1>1 DEF OpenCreate, Opening, memory, faults
<1>3. Halfway(o)'
  BY <1>2 DEF Halfway
<1>4. Agree => Progress(o)'
  BY <1>2 DEF Progress, Agree
<1>5. OneByOne'
  BY <1>2, <1>3 DEF Turns, OneByOne
<1>6. Agreeing'
  BY <1>2, <1>4 DEF Turns, Agreeing
<1> QED
  BY <1>5, <1>6 DEF Turns

\* An opening that moves on, while it is the only one.
LEMMA TurnMoves ==
  ASSUME Turns, NEW o \in openings, NEW q,
         openings' = (openings \ {o}) \cup {q}, UNCHANGED <<losses, overlaps>>,
         Halfway(o) => Halfway(q)',
         Halfway(o) /\ Progress(o) => Progress(q)'
  PROVE  Turns'
<1>1. ASSUME "opening" \notin overlaps
      PROVE  openings' = {q} /\ Halfway(o) /\ (losses = 0 => Progress(o))
  BY <1>1 DEF Turns, OneByOne, Agreeing
<1>2. OneByOne'
  BY <1>1 DEF OneByOne
<1>3. Agreeing'
  BY <1>1 DEF Agreeing
<1> QED
  BY <1>2, <1>3 DEF Turns

\* An opening that ends, while it is the only one.
LEMMA TurnEnds ==
  ASSUME Turns, NEW o \in openings, openings' = openings \ {o}, overlaps' = overlaps,
         losses' = 0 => losses = 0 /\ (Halfway(o) /\ Progress(o) => Agree')
  PROVE  Turns'
<1>1. ASSUME "opening" \notin overlaps
      PROVE  openings' = {} /\ Halfway(o) /\ (losses = 0 => Progress(o))
  BY <1>1 DEF Turns, OneByOne, Agreeing
<1>2. OneByOne'
  BY <1>1 DEF OneByOne
<1>3. Agreeing'
  BY <1>1 DEF Agreeing
<1> QED
  BY <1>2, <1>3 DEF Turns

LEMMA HandlerTurns ==
  ASSUME Typed, Turns, NEW o \in openings, HandlerSavesRecord(o) \/ HandlerSavesState(o)
  PROVE  Turns'
<1>1. /\ IsOpening(o) /\ o.opener \in Nodes /\ Partner(o) \in Nodes /\ Partner(o) # o.opener
      /\ record \in [Nodes -> {0} \cup Ids] /\ AppsTyped /\ o.app_id \in Ids
  BY OpeningParts DEF Typed
<1>2. CASE HandlerSavesRecord(o)
  <2>1. PICK q, f : q = Moved(o, "recorded", f)
                    /\ f = <<apps[o.app_id].latest_alice_balance,
                             apps[o.app_id].latest_bob_balance>>
    OBVIOUS
  <2>2. /\ q.stage = "recorded" /\ q.app_id = o.app_id /\ q.opener = o.opener
        /\ q.awaited = o.awaited
    <3>1. f \in Nat \X Nat /\ Found(o.app_id, f)
      BY <1>1, <2>1, ReadApp
    <3>2. "recorded" \in {"asking", "recorded", "approved", "saved"}
      OBVIOUS
    <3> QED
      BY <1>1, <2>1, <3>1, <3>2, MovedFields
  <2>3. /\ o.stage = "asking" /\ record' = [record EXCEPT ![Partner(o)] = o.app_id]
        /\ openings' = (openings \ {o}) \cup {q} /\ UNCHANGED <<losses, overlaps>>
    BY <1>2, <2>1 DEF HandlerSavesRecord, SaveRecord, Advance, Moved, Partner, faults
  <2>4. record'[Partner(o)] = o.app_id /\ record'[o.opener] = record[o.opener]
    BY <1>1, <2>3
  <2>5. Partner(q)' = Partner(o)
    BY <2>2 DEF Partner, Other
  <2>6. Halfway(q)'
    BY <2>2, <2>4, <2>5 DEF Halfway
  <2>7. Progress(o) => Progress(q)'
    BY <2>2, <2>3, <2>4 DEF Progress
  <2> QED
    BY <2>3, <2>6, <2>7, TurnMoves
<1>3. CASE HandlerSavesState(o) /\ o.awaited
  <2>1. PICK q : q = Moved(o, "approved", <<0, 0>>)
    OBVIOUS
  <2>2. /\ q.stage = "approved" /\ q.app_id = o.app_id /\ q.opener = o.opener
    <3>1. "approved" \in {"asking", "recorded", "approved", "saved"}
      OBVIOUS
    <3>2. <<0, 0>> \in Nat \X Nat /\ Found(o.app_id, <<0, 0>>)
      BY NothingFound
    <3> QED
      BY <1>1, <2>1, <3>1, <3>2, MovedFields
  <2>3. /\ o.stage = "recorded" /\ record' = record
        /\ openings' = (openings \ {o}) \cup {q} /\ UNCHANGED <<losses, overlaps>>
    BY <1>3, <2>1 DEF HandlerSavesState, Advance, Moved, faults
  <2>4. Partner(q)' = Partner(o)
    BY <2>2 DEF Partner, Other
  <2>5. Halfway(q)'
    BY <2>2 DEF Halfway
  <2>6. Halfway(o) => Progress(q)'
    BY <2>2, <2>3, <2>4 DEF Halfway, Progress
  <2> QED
    BY <2>3, <2>5, <2>6, TurnMoves
<1>4. CASE HandlerSavesState(o) /\ ~o.awaited
  <2>1. /\ o.stage = "recorded" /\ record' = record
        /\ openings' = openings \ {o} /\ UNCHANGED <<losses, overlaps>>
    BY <1>4 DEF HandlerSavesState, faults
  <2>2. Progress(o) => Agree'
    <3>1. Progress(o) => record[o.opener] = 0
      BY <1>4, <2>1 DEF Progress
    <3>2. record[o.opener] = 0 => Agree
      BY <1>1, ZeroAgrees
    <3> QED
      BY <2>1, <3>1, <3>2 DEF Agree
  <2> QED
    BY <2>1, <2>2, TurnEnds
<1> QED
  BY <1>2, <1>3, <1>4

LEMMA OpenerTurns ==
  ASSUME Typed, Turns, NEW o \in openings,
         OpenerSavesRecord(o) \/ OpenerSavesState(o) \/ OpenLost(o)
  PROVE  Turns'
<1>1. /\ IsOpening(o) /\ o.opener \in Nodes /\ Partner(o) \in Nodes /\ Partner(o) # o.opener
      /\ record \in [Nodes -> {0} \cup Ids] /\ losses \in Nat
  BY OpeningParts DEF Typed, CountersTyped
<1>2. CASE OpenerSavesRecord(o)
  <2>1. PICK q : q = Moved(o, "saved", <<0, 0>>)
    OBVIOUS
  <2>2. /\ q.stage = "saved" /\ q.app_id = o.app_id /\ q.opener = o.opener
    <3>1. "saved" \in {"asking", "recorded", "approved", "saved"}
      OBVIOUS
    <3>2. <<0, 0>> \in Nat \X Nat /\ Found(o.app_id, <<0, 0>>)
      BY NothingFound
    <3> QED
      BY <1>1, <2>1, <3>1, <3>2, MovedFields
  <2>3. /\ o.stage = "approved" /\ record' = [record EXCEPT ![o.opener] = o.app_id]
        /\ openings' = (openings \ {o}) \cup {q} /\ UNCHANGED <<losses, overlaps>>
    BY <1>2, <2>1 DEF OpenerSavesRecord, SaveRecord, Advance, Moved, faults
  <2>4. record'[o.opener] = o.app_id /\ record'[Partner(o)] = record[Partner(o)]
    BY <1>1, <2>3
  <2>5. Halfway(q)'
    BY <2>2, <2>4 DEF Halfway
  <2>6. \A k \in Nodes : k = o.opener \/ k = Partner(o)
    BY <1>1, OtherNode DEF Partner
  <2>7. Progress(o) => Progress(q)'
    BY <2>2, <2>3, <2>4, <2>6 DEF Progress
  <2> QED
    BY <2>3, <2>5, <2>7, TurnMoves
<1>3. CASE OpenerSavesState(o)
  <2>1. /\ o.stage = "saved" /\ record' = record
        /\ openings' = openings \ {o} /\ UNCHANGED <<losses, overlaps>>
    BY <1>3 DEF OpenerSavesState, faults
  <2>2. Progress(o) => Agree'
    <3>1. Progress(o) => \A k \in Nodes : record[k] \in {o.app_id, 0}
      BY <2>1 DEF Progress
    <3>2. Progress(o) => Agree
      BY <3>1, SameAgrees
    <3> QED
      BY <2>1, <3>2 DEF Agree
  <2> QED
    BY <2>1, <2>2, TurnEnds
<1>4. CASE OpenLost(o)
  <2>1. openings' = openings \ {o} /\ overlaps' = overlaps /\ losses' # 0
    BY <1>1, <1>4 DEF OpenLost
  <2> QED
    BY <2>1, TurnEnds
<1> QED
  BY <1>2, <1>3, <1>4

LEMMA ForgetTurns ==
  ASSUME RInv, Turns, NEW n \in Nodes, DeleteRecord(n) \/ Restart(n) \/ Reset(n)
  PROVE  Turns'
<1>1. Typed
  BY DEF RInv
<1>2. CASE DeleteRecord(n)
  <2>1. /\ record' = [record EXCEPT ![n] = 0]
        /\ UNCHANGED <<openings, losses, overlaps>>
    BY <1>2 DEF DeleteRecord, faults
  <2>2. record'[n] = 0 /\ record'[Other(n)] = record[Other(n)]
    BY <1>1, <2>1, OtherNode DEF Typed
  <2> QED
    BY <1>1, <2>1, <2>2, TurnsCleared
<1>3. CASE Reset(n)
  <2>1. Forget(n) /\ UNCHANGED <<openings, losses, overlaps>>
    BY <1>3 DEF Reset, calls
  <2>2. record'[n] = 0 /\ record'[Other(n)] = record[Other(n)]
    BY <2>1, ForgetParts
  <2> QED
    BY <1>1, <2>1, <2>2, TurnsCleared
<1>4. CASE Restart(n)
  <2>1. Forget(n) /\ UNCHANGED <<losses, overlaps>>
    BY <1>4 DEF Restart
  <2>2. record'[n] = 0 /\ record'[Other(n)] = record[Other(n)]
    BY <2>1, ForgetParts
  <2>3. ASSUME NEW q \in openings'
        PROVE  \/ q \in openings /\ q.opener # n
               \/ \E o \in openings : o.opener = n /\ q = [o EXCEPT !.awaited = FALSE]
    BY <1>4 DEF Restart
  <2>4. (\A o, q \in openings : o = q) => \A o, q \in openings' : o = q
    BY <2>3
  <2>5. \A q \in openings' :
          \/ q \in openings
          \/ \E o \in openings : o.opener = n /\ q = [o EXCEPT !.awaited = FALSE]
    BY <2>3
  <2> QED
    BY <1>1, <2>1, <2>2, <2>4, <2>5, TurnsCleared
<1> QED
  BY <1>2, <1>3, <1>4

LEMMA TurnsStep ==
  ASSUME RInv, Turns, [Next]_vars
  PROVE  Turns'
<1>1. Typed /\ losses \in Nat
  BY DEF RInv, Typed, CountersTyped
<1>2. CASE UNCHANGED vars
  BY <1>2, TurnsKept DEF vars
<1>3. /\ \A n \in Nodes : OpenCreate(n) => Turns'
      /\ \A id \in Ids : Fund(id) => Turns'
  BY CreateTurns, TurnsKept DEF Fund, memory, calls, faults
<1>4. ASSUME NEW o \in openings, HandlerSavesRecord(o) \/ HandlerSavesState(o) PROVE Turns'
  BY <1>1, <1>4, HandlerTurns
<1>5. ASSUME NEW o \in openings, OpenerSavesRecord(o) \/ OpenerSavesState(o) \/ OpenLost(o)
      PROVE  Turns'
  BY <1>1, <1>5, OpenerTurns
<1>6. ASSUME PayNext PROVE Turns'
  <2>1. UNCHANGED <<record, openings>> /\ overlaps \subseteq overlaps'
    BY <1>6 DEF PayNext, Pay, HandlePay, RejectPay, PayApproved, PayLost, memory
  <2>2. losses' = 0 => losses = 0
    BY <1>1, <1>6 DEF PayNext, Pay, HandlePay, RejectPay, PayApproved, PayLost, faults
  <2> QED
    BY <2>1, <2>2, TurnsKept
<1>7. ASSUME NEW n \in Nodes, CooperativeCloseChannel(n) \/ FinalizeCloseChannel(n)
      PROVE  Turns'
  <2>1. UNCHANGED <<record, openings, overlaps, losses>>
    BY <1>7 DEF CooperativeCloseChannel, FinalizeCloseChannel, memory, faults
  <2> QED
    BY <2>1, TurnsKept
<1>8. ASSUME NEW n \in Nodes, DeleteRecord(n) \/ Restart(n) \/ Reset(n) PROVE Turns'
  BY <1>8, ForgetTurns
<1> QED
  BY <1>2, <1>3, <1>4, <1>5, <1>6, <1>7, <1>8 DEF Next, OpenNext, NodeNext

\* When openings follow one another and no answer is lost, the records of two
\* nodes are never of two different channels, whatever closes, late deletions,
\* restarts and resets there are (rpcserver.go 129-145, server.go 602-603).
THEOREM RecordsStayEqual == Spec => []RecordsAgree
<1>1. Init => Turns
  BY DEF Init, Turns, OneByOne, Agreeing, Agree
<1>2. Init => RInv
  BY RInvInit
<1>3. RInv /\ Turns /\ [Next]_vars => RInv' /\ Turns'
  BY RInvStep, TurnsStep
<1>4. Turns => RecordsAgree
  BY DEF Turns, Agreeing, Agree, RecordsAgree
<1> QED
  BY <1>1, <1>2, <1>3, <1>4, PTL DEF Spec

-----------------------------------------------------------------------------
(* Openings that overlap with nothing.                                     *)
LEMMA LatestKept ==
  ASSUME NEW n \in Nodes, FitsLatest(n), skew' = skew, record'[n] \in {record[n], 0},
         log'[n] = log[n], Midway(n) => Midway(n)'
  PROVE  FitsLatest(n)'
  BY DEF FitsLatest, Leading, Other, Splits, Empty

LEMMA LatestCleared ==
  ASSUME NEW n \in Nodes, record'[n] = 0
  PROVE  FitsLatest(n)'
  BY DEF FitsLatest

LEMMA PaymentsKept ==
  ASSUME FittingPayments, skew' = skew, payments' \subseteq payments,
         \A n \in Nodes : record'[n] \in {record[n], 0}, \A p \in payments : p.payer \in Nodes
  PROVE  FittingPayments'
  BY DEF FittingPayments, Leading, Other, Splits, Empty

\* A step that stores no state, and takes no opening out of its middle.
LEMMA FittedKept ==
  ASSUME Typed, Fitted, UNCHANGED <<skew, record, log>>,
         payments' \subseteq payments, openings' = {} \/ payments' = {},
         \A n \in Nodes : Midway(n) => Midway(n)'
  PROVE  Fitted'
<1>1. FittingLatest'
  BY LatestKept DEF Fitted, FittingLatest
<1>2. \A p \in payments : p.payer \in Nodes
  BY DEF Typed, IsPayment
<1>3. FittingPayments'
  BY <1>2, PaymentsKept DEF Fitted
<1>4. FittingLogs'
  BY DEF Fitted, FittingLogs, Acceptable, Splits, Empty
<1> QED
  BY <1>1, <1>3, <1>4 DEF Fitted

\* A step that removes the record of a node, and perhaps its log and some calls.
LEMMA FittedCleared ==
  ASSUME Typed, Fitted, NEW n \in Nodes, skew' = skew, record'[n] = 0,
         record'[Other(n)] = record[Other(n)],
         log'[n] = log[n] \/ log'[n] = EmptyLog, log'[Other(n)] = log[Other(n)],
         payments' \subseteq payments, openings = {} => openings' = {},
         Midway(Other(n)) => Midway(Other(n))'
  PROVE  Fitted'
<1>1. \A k \in Nodes : k = n \/ k = Other(n)
  BY OtherNode
<1>2. Other(n) \in Nodes
  BY OtherNode
<1>3. FitsLatest(n)'
  BY LatestCleared
<1>4. ASSUME NEW k \in Nodes, k = Other(n) PROVE FitsLatest(k)'
  <2>1. FitsLatest(k)
    BY DEF Fitted, FittingLatest
  <2> QED
    BY <1>4, <2>1, LatestKept
<1>5. FittingLatest'
  BY <1>1, <1>3, <1>4 DEF FittingLatest
<1>6. \A p \in payments : p.payer \in Nodes
  BY DEF Typed, IsPayment
<1>7. FittingPayments'
  BY <1>1, <1>6, PaymentsKept DEF Fitted
<1>8. FittingLogs'
  BY <1>1, EmptyOrdered DEF Fitted, FittingLogs, Acceptable, Splits, Empty
<1>9. openings' = {} \/ payments' = {}
  BY DEF Fitted
<1> QED
  BY <1>5, <1>7, <1>8, <1>9 DEF Fitted

\* A step that stores a state.
LEMMA FittedStored ==
  ASSUME Fitted, UNCHANGED <<skew, record>>, NEW n \in Nodes, NEW ts, NEW e,
         Stored(n, ts, e), Acceptable(e), openings' = {} \/ payments' = {},
         FittingPayments', Midway(Other(n)) => Midway(Other(n))', FitsLatest(n)'
  PROVE  Fitted'
<1>1. \A k \in Nodes : k = n \/ k = Other(n)
  BY OtherNode
<1>2. /\ log'[Other(n)] = log[Other(n)]
      /\ DOMAIN log'[n] = DOMAIN log[n] \cup {ts} /\ log'[n][ts] = e
      /\ \A us \in DOMAIN log[n] : us # ts => log'[n][us] = log[n][us]
  BY DEF Stored
<1>3. FittingLogs'
  <2>1. ASSUME NEW k \in Nodes, NEW us \in DOMAIN log'[k]
        PROVE  Acceptable(log'[k][us])
    <3>1. CASE k = n /\ us = ts
      BY <1>2, <3>1
    <3>2. CASE us \in DOMAIN log[k] /\ log'[k][us] = log[k][us]
      BY <3>2 DEF Fitted, FittingLogs
    <3> QED
      BY <1>1, <1>2, <2>1, <3>1, <3>2
  <2> QED
    BY <2>1 DEF FittingLogs, Acceptable, Splits, Empty
<1>4. ASSUME NEW k \in Nodes, k = Other(n) PROVE FitsLatest(k)'
  <2>1. FitsLatest(k)
    BY DEF Fitted, FittingLatest
  <2> QED
    BY <1>2, <1>4, <2>1, LatestKept
<1>5. FittingLatest'
  BY <1>1, <1>4 DEF FittingLatest
<1> QED
  BY <1>3, <1>5 DEF Fitted

LEMMA CreateFitted ==
  ASSUME Typed, Fitted, NEW n \in Nodes, OpenCreate(n), overlaps' = {}
  PROVE  Fitted'
<1>1. /\ openings = {} /\ payments = {} /\ payments' = payments
      /\ UNCHANGED <<record, log, skew>>
  BY DEF OpenCreate, memory
<1>2. \A k \in Nodes : ~Midway(k)
  BY <1>1 DEF Midway
<1> QED
  BY <1>1, <1>2, FittedKept

\* The record is saved before the first state: in between, it is not looked at.
LEMMA RecordFitted ==
  ASSUME Typed, Fitted, NEW o \in openings, NEW n \in Nodes, NEW q,
         openings' = (openings \ {o}) \cup {q}, record' = [record EXCEPT ![n] = o.app_id],
         \A k \in Nodes : Midway(k) => Midway(k)', Midway(n)',
         UNCHANGED <<log, payments, skew>>
  PROVE  Fitted'
<1>1. payments = {}
  BY DEF Fitted
<1>2. FittingPayments' /\ payments' = {}
  BY <1>1 DEF FittingPayments
<1>3. FittingLogs'
  BY DEF Fitted, FittingLogs, Acceptable, Splits, Empty
<1>4. FitsLatest(n)'
  BY DEF FitsLatest
<1>5. ASSUME NEW k \in Nodes, k # n PROVE FitsLatest(k)'
  <2>1. FitsLatest(k) /\ record'[k] = record[k]
    BY <1>5 DEF Fitted, FittingLatest, Typed
  <2> QED
    BY <2>1, LatestKept
<1>6. FittingLatest'
  BY <1>4, <1>5 DEF FittingLatest
<1> QED
  BY <1>2, <1>3, <1>6 DEF Fitted

\* A node stores a state without signatures under the reading of its clock.
FirstStored(n, id, a, b) ==
  \E ts \in Nat \ {0} :
    /\ ts = Reading(n) /\ ~Past(ts)
    /\ log' = [log EXCEPT ![n] =
                 Store(@, OffChainEntry(id, ts, a, b, NoSignature, NoSignature))]

\* The first state of a channel that a leading node is not behind with is its
\* latest one.
LEMMA FirstStateFitted ==
  ASSUME RInv, Fitted, NEW n \in Nodes, NEW id \in Ids, record[n] \in {id, 0},
         NEW a \in Nat, NEW b \in Nat, a + b \in {0, Deposits[id]},
         payments' = {}, Midway(Other(n)) => Midway(Other(n))', UNCHANGED <<record, skew>>,
         FirstStored(n, id, a, b)
  PROVE  Fitted'
<1>1. /\ Typed /\ AppsTyped /\ ClocksTyped /\ LogsTyped
  BY DEF RInv, Typed
<1>2. PICK ts \in Nat \ {0} :
        /\ ts = Reading(n)
        /\ log' = [log EXCEPT ![n] =
                     Store(@, OffChainEntry(id, ts, a, b, NoSignature, NoSignature))]
  BY DEF FirstStored
<1>3. PICK e : e = OffChainEntry(id, ts, a, b, NoSignature, NoSignature)
  OBVIOUS
<1>4. e.app_id = id /\ e.timestamp = ts /\ Acceptable(e) /\ (Splits(e, id) \/ Empty(e))
  <2>1. /\ e.app_id = id /\ e.timestamp = ts /\ e.alice_signature = NoSignature
        /\ e.alice_balance = a /\ e.bob_balance = b
    BY <1>3 DEF OffChainEntry
  <2>2. a + b = Deposits[id] \/ (a = 0 /\ b = 0)
    OBVIOUS
  <2> QED
    BY <2>1, <2>2 DEF Splits, Empty, Acceptable
<1>5. Stored(n, ts, e)
  BY <1>1, <1>2, <1>3, <1>4, StoreLog
<1>6. FitsLatest(n)'
  <2>1. ASSUME Leading(n) PROVE Latest(log'[n]) = e
    <3>1. \A us \in DOMAIN log[n] : us < ts
      BY <1>1, <1>2, <2>1, ReadingIsNewer DEF LogsTyped
    <3>2. Ordered(log[n]) /\ log'[n] = Store(log[n], e)
      BY <1>1, <1>5 DEF LogsTyped, Stored
    <3> QED
      BY <1>4, <3>1, <3>2, LatestAfterStore
  <2>2. Leading(n)' <=> Leading(n)
    BY DEF Leading, Other
  <2> QED
    BY <1>4, <2>1, <2>2 DEF FitsLatest, Splits, Empty
<1>7. FittingPayments'
  BY DEF FittingPayments
<1> QED
  BY <1>4, <1>5, <1>6, <1>7, FittedStored

LEMMA MidwayStays ==
  ASSUME NEW k, NEW o, openings \ {o} \subseteq openings',
         ~(o.stage = "recorded" /\ Partner(o) = k), ~(o.stage = "saved" /\ o.opener = k)
  PROVE  Midway(k) => Midway(k)'
  BY DEF Midway, Partner, Other

LEMMA SavedRecordFitted ==
  ASSUME Typed, Fitted, NEW o \in openings, HandlerSavesRecord(o) \/ OpenerSavesRecord(o)
  PROVE  Fitted'
<1>1. /\ IsOpening(o) /\ o.opener \in Nodes /\ Partner(o) \in Nodes
      /\ AppsTyped /\ o.app_id \in Ids
  BY OpeningParts DEF Typed
<1>2. CASE HandlerSavesRecord(o)
  <2>1. PICK q, f : q = Moved(o, "recorded", f)
                    /\ f = <<apps[o.app_id].latest_alice_balance,
                             apps[o.app_id].latest_bob_balance>>
    OBVIOUS
  <2>2. q.stage = "recorded" /\ q.opener = o.opener
    <3>1. f \in Nat \X Nat /\ Found(o.app_id, f)
      BY <1>1, <2>1, ReadApp
    <3>2. "recorded" \in {"asking", "recorded", "approved", "saved"}
      OBVIOUS
    <3> QED
      BY <1>1, <2>1, <3>1, <3>2, MovedFields
  <2>3. /\ o.stage = "asking" /\ record' = [record EXCEPT ![Partner(o)] = o.app_id]
        /\ openings' = (openings \ {o}) \cup {q} /\ UNCHANGED <<log, payments, skew>>
    BY <1>2, <2>1 DEF HandlerSavesRecord, SaveRecord, Advance, Moved, Partner
  <2>4. \A k \in Nodes : Midway(k) => Midway(k)'
    BY <2>3, MidwayStays
  <2>5. Midway(Partner(o))'
    BY <2>2, <2>3 DEF Midway, Partner, Other
  <2> QED
    BY <1>1, <2>3, <2>4, <2>5, RecordFitted
<1>3. CASE OpenerSavesRecord(o)
  <2>1. PICK q : q = Moved(o, "saved", <<0, 0>>)
    OBVIOUS
  <2>2. q.stage = "saved" /\ q.opener = o.opener
    <3>1. "saved" \in {"asking", "recorded", "approved", "saved"}
      OBVIOUS
    <3>2. <<0, 0>> \in Nat \X Nat /\ Found(o.app_id, <<0, 0>>)
      BY NothingFound
    <3> QED
      BY <1>1, <2>1, <3>1, <3>2, MovedFields
  <2>3. /\ o.stage = "approved" /\ record' = [record EXCEPT ![o.opener] = o.app_id]
        /\ openings' = (openings \ {o}) \cup {q} /\ UNCHANGED <<log, payments, skew>>
    BY <1>3, <2>1 DEF OpenerSavesRecord, SaveRecord, Advance, Moved
  <2>4. \A k \in Nodes : Midway(k) => Midway(k)'
    BY <2>3, MidwayStays
  <2>5. Midway(o.opener)'
    BY <2>2, <2>3 DEF Midway
  <2> QED
    BY <1>1, <2>3, <2>4, <2>5, RecordFitted
<1> QED
  BY <1>2, <1>3

LEMMA SavedStateFitted ==
  ASSUME RInv, OneByOne, Fitted, overlaps = {}, NEW o \in openings,
         HandlerSavesState(o) \/ OpenerSavesState(o)
  PROVE  Fitted'
<1>1. /\ Typed /\ IsOpening(o) /\ o.opener \in Nodes /\ Partner(o) \in Nodes
      /\ Partner(o) # o.opener /\ o.app_id \in Ids
      /\ Other(o.opener) = Partner(o) /\ Other(Partner(o)) = o.opener
      /\ o.found[1] \in Nat /\ o.found[2] \in Nat /\ Found(o.app_id, o.found)
  BY OpeningParts, OtherNode DEF RInv, Partner
<1>2. payments = {} /\ Halfway(o)
  BY DEF Fitted, OneByOne
<1>3. CASE HandlerSavesState(o)
  <2>1. /\ o.stage = "recorded" /\ SaveFirstState(Partner(o), o.app_id, o.found[1], o.found[2])
        /\ openings \ {o} \subseteq openings'
        /\ UNCHANGED <<apps, record, payments, closing, skew, losses, restarts, overlaps>>
    BY <1>3 DEF HandlerSavesState, Partner, faults, Advance
  <2>2. IsOpening([o EXCEPT !.stage = "approved", !.found = <<0, 0>>])
    BY <1>1, MovedOpening, NothingFound
  <2>3. \A q \in openings' : IsOpening(q)
    <3>1. \A q \in openings' : q \in openings \/ q = [o EXCEPT !.stage = "approved", !.found = <<0, 0>>]
      BY <1>3 DEF HandlerSavesState, Advance
    <3> QED
      BY <1>1, <2>2, <3>1 DEF Typed
  <2>4. record[Partner(o)] \in {o.app_id, 0}
    BY <1>2, <2>1 DEF Halfway
  <2>5. Midway(Other(Partner(o))) => Midway(Other(Partner(o)))'
    BY <1>1, <2>1, MidwayStays DEF Other
  <2>6. \E ts \in Nat \ {0} :
          /\ ts = Reading(Partner(o)) /\ ~Past(ts)
          /\ log' = [log EXCEPT ![Partner(o)] =
                       Store(@, OffChainEntry(o.app_id, ts, o.found[1], o.found[2],
                                              NoSignature, NoSignature))]
    BY <1>1, <2>1, <2>3, SaveStateStep
  <2>7. PICK a \in Nat, b \in Nat : a = o.found[1] /\ b = o.found[2]
    BY <1>1
  <2>8. a + b \in {0, Deposits[o.app_id]} /\ payments' = {} /\ UNCHANGED <<record, skew>>
    BY <1>1, <1>2, <2>1, <2>7 DEF Found
  <2>9. FirstStored(Partner(o), o.app_id, a, b)
    BY <2>6, <2>7 DEF FirstStored
  <2> QED
    BY <1>1, <2>4, <2>5, <2>7, <2>8, <2>9, FirstStateFitted
<1>4. CASE OpenerSavesState(o)
  <2>1. /\ o.stage = "saved" /\ SaveFirstState(o.opener, o.app_id, Deposits[o.app_id], 0)
        /\ openings' = openings \ {o}
        /\ UNCHANGED <<apps, record, payments, closing, skew, losses, restarts, overlaps>>
    BY <1>4 DEF OpenerSavesState, faults
  <2>2. \A q \in openings' : IsOpening(q)
    BY <1>1, <2>1 DEF Typed
  <2>3. record[o.opener] \in {o.app_id, 0}
    BY <1>2, <2>1 DEF Halfway
  <2>4. Midway(Other(o.opener)) => Midway(Other(o.opener))'
    BY <1>1, <2>1, MidwayStays DEF Other
  <2>6. /\ Deposits[o.app_id] \in Nat /\ 0 \in Nat
        /\ Deposits[o.app_id] + 0 \in {0, Deposits[o.app_id]}
    BY <1>1, IdsParts, DepositType DEF Typed
  <2>5. \E ts \in Nat \ {0} :
          /\ ts = Reading(o.opener) /\ ~Past(ts)
          /\ log' = [log EXCEPT ![o.opener] =
                       Store(@, OffChainEntry(o.app_id, ts, Deposits[o.app_id], 0,
                                              NoSignature, NoSignature))]
    BY <1>1, <2>1, <2>2, <2>6, SaveStateStep
  <2>7. PICK a \in Nat, b \in Nat : a = Deposits[o.app_id] /\ b = 0
    BY <2>6
  <2>8. a + b \in {0, Deposits[o.app_id]} /\ payments' = {} /\ UNCHANGED <<record, skew>>
    BY <1>2, <2>1, <2>6, <2>7
  <2>9. FirstStored(o.opener, o.app_id, a, b)
    BY <2>5, <2>7 DEF FirstStored
  <2> QED
    BY <1>1, <2>3, <2>4, <2>7, <2>8, <2>9, FirstStateFitted
<1> QED
  BY <1>3, <1>4

LEMMA ForgetFitted ==
  ASSUME RInv, Fitted, NEW n \in Nodes, DeleteRecord(n) \/ Restart(n) \/ Reset(n)
  PROVE  Fitted'
<1>1. Typed /\ LogsTyped /\ Other(n) \in Nodes /\ Other(n) # n
  BY OtherNode DEF RInv, Typed
<1>2. CASE DeleteRecord(n)
  <2>1. /\ record' = [record EXCEPT ![n] = 0]
        /\ UNCHANGED <<log, openings, payments, skew>>
    BY <1>2 DEF DeleteRecord
  <2>2. record'[n] = 0 /\ record'[Other(n)] = record[Other(n)]
    BY <1>1, <2>1 DEF Typed
  <2>3. Midway(Other(n)) => Midway(Other(n))'
    BY <2>1 DEF Midway, Partner, Other
  <2> QED
    BY <1>1, <2>1, <2>2, <2>3, FittedCleared
<1>3. CASE Reset(n)
  <2>1. Forget(n) /\ UNCHANGED <<openings, payments, skew, losses, overlaps>>
    BY <1>3 DEF Reset, calls
  <2>2. /\ record'[n] = 0 /\ record'[Other(n)] = record[Other(n)]
        /\ log'[n] = EmptyLog /\ log'[Other(n)] = log[Other(n)]
    BY <2>1, ForgetParts
  <2>3. Midway(Other(n)) => Midway(Other(n))'
    BY <2>1 DEF Midway, Partner, Other
  <2> QED
    BY <1>1, <2>1, <2>2, <2>3, FittedCleared
<1>4. CASE Restart(n)
  <2>1. /\ Forget(n) /\ UNCHANGED <<skew, losses, overlaps>> /\ payments' \subseteq payments
        /\ openings = {} => openings' = {}
    BY <1>4 DEF Restart
  <2>2. /\ record'[n] = 0 /\ record'[Other(n)] = record[Other(n)]
        /\ log'[n] = EmptyLog /\ log'[Other(n)] = log[Other(n)]
    BY <2>1, ForgetParts
  <2>3. ASSUME Midway(Other(n)) PROVE Midway(Other(n))'
    <3>1. PICK o \in openings : \/ o.stage = "recorded" /\ Partner(o) = Other(n)
                                \/ o.stage = "saved" /\ o.opener = Other(n)
      BY <2>3 DEF Midway
    <3>2. IsOpening(o) /\ o.opener \in Nodes
      BY <1>1, OpeningParts
    <3>3. CASE o.stage = "recorded" /\ Partner(o) = Other(n)
      <4>1. o.opener = n
        BY <1>1, <3>2, <3>3, OtherNode DEF Partner
      <4>2. PICK q : q = [o EXCEPT !.awaited = FALSE]
        OBVIOUS
      <4>3. q \in openings'
        BY <1>4, <3>3, <4>1, <4>2 DEF Restart
      <4>4. q.stage = "recorded" /\ q.opener = n
        BY <3>2, <3>3, <4>1, <4>2, OrphanedOpening
      <4> QED
        BY <4>3, <4>4 DEF Midway, Partner, Other
    <3>4. CASE o.stage = "saved" /\ o.opener = Other(n)
      <4>1. o \in openings'
        BY <1>1, <1>4, <3>4 DEF Restart
      <4> QED
        BY <3>4, <4>1 DEF Midway, Other
    <3> QED
      BY <3>1, <3>3, <3>4
  <2> QED
    BY <1>1, <2>1, <2>2, <2>3, FittedCleared
<1> QED
  BY <1>2, <1>3, <1>4

\* The balances of every state are words of the same sign.
LEMMA LatestFits ==
  ASSUME RInv, Fitted, NEW n \in Nodes, HasLatest(log[n])
  PROVE  /\ Latest(log[n]).alice_balance \in Small /\ Latest(log[n]).bob_balance \in Small
         /\ Latest(log[n]).alice_balance + Latest(log[n]).bob_balance \in Small
<1>1. Typed /\ AppsTyped
  BY DEF RInv, Typed
<1>2. PICK ts, e : ts = LatestTimestamp(log[n]) /\ e = Latest(log[n])
  OBVIOUS
<1>3. ts \in DOMAIN log[n] /\ e = log[n][ts] /\ IsEntry(e, ts)
  BY <1>1, <1>2, LatestEntry
<1>4. Splits(e, e.app_id) \/ Empty(e)
  BY <1>3 DEF Fitted, FittingLogs, Acceptable
<1>5. /\ e.alice_balance \in Nat /\ e.bob_balance \in Nat
      /\ Deposits[e.app_id] \in Small
  BY <1>1, <1>3, IdsParts, DepositType DEF IsEntry
<1>6. /\ e.alice_balance \in Small /\ e.bob_balance \in Small
      /\ e.alice_balance + e.bob_balance \in Small
  BY <1>4, <1>5, HalfType DEF Splits, Empty, Small
<1> QED
  BY <1>2, <1>6

LEMMA PayFitted ==
  ASSUME ~AllowOverdraft, RInv, Fitted, NEW n \in Nodes, NEW amount \in Amounts,
         Pay(n, amount), overlaps' = {}
  PROVE  Fitted'
<1>1. /\ HasLatest(log[n]) /\ record[n] # 0 /\ openings = {} /\ openings' = {}
      /\ amount <= BalanceOf(MeAlice(n, record[n]), Latest(log[n]))
      /\ UNCHANGED <<record, log, skew>>
  BY DEF Pay, memory
<1>2. Typed
  BY DEF RInv
<1>3. PICK p :
        /\ payments' = payments \cup {p}
        /\ p.payer = n /\ p.app_id = record[n] /\ p.stage = "asking"
        /\ p.req = PayRequest(record[n], n, MeAlice(n, record[n]), Latest(log[n]),
                              amount, Reading(n))
  BY <1>2, NewPayment
<1>4. amount \in Nat /\ MeAlice(n, record[n]) \in BOOLEAN
  BY RegistryAssumption DEF MeAlice
<1>5. /\ Latest(log[n]).alice_balance \in Small /\ Latest(log[n]).bob_balance \in Small
      /\ Latest(log[n]).alice_balance + Latest(log[n]).bob_balance \in Small
  BY <1>1, LatestFits
<1>6. /\ p.req.alice_balance \in Small /\ p.req.bob_balance \in Small
      /\ p.req.alice_balance + p.req.bob_balance =
           Latest(log[n]).alice_balance + Latest(log[n]).bob_balance
  BY <1>1, <1>3, <1>4, <1>5, RequestParts
<1>7. ASSUME Leading(n) PROVE Splits(p.req, p.app_id) \/ Empty(p.req)
  <2>1. FitsLatest(n) /\ ~Midway(n)
    BY <1>1 DEF Fitted, FittingLatest, Midway
  <2>2. CASE Splits(Latest(log[n]), record[n])
    BY <1>3, <1>6, <2>2 DEF Splits
  <2>3. CASE Empty(Latest(log[n]))
    <3>1. p.req.alice_balance + p.req.bob_balance = 0
      BY <1>6, <2>3 DEF Empty
    <3>2. p.req.alice_balance \in Nat /\ p.req.bob_balance \in Nat
      BY <1>6 DEF Small
    <3> QED
      BY <3>1, <3>2 DEF Empty
  <2> QED
    BY <1>1, <1>7, <2>1, <2>2, <2>3 DEF FitsLatest
<1>8. FittingPayments'
  <2>1. ASSUME NEW q \in payments'
        PROVE  /\ record'[q.payer] \in {q.app_id, 0}
               /\ q.req.alice_balance \in Small /\ q.req.bob_balance \in Small
               /\ q.stage = "approved" => Splits(q.req, q.app_id)
               /\ Leading(q.payer)' => Splits(q.req, q.app_id) \/ Empty(q.req)
    <3>1. Leading(q.payer)' <=> Leading(q.payer)
      BY <1>1 DEF Leading, Other
    <3>2. CASE q \in payments
      BY <1>1, <3>1, <3>2 DEF Fitted, FittingPayments
    <3>3. CASE q = p
      BY <1>1, <1>3, <1>6, <1>7, <3>1, <3>3
    <3> QED
      BY <1>3, <2>1, <3>2, <3>3
  <2> QED
    BY <2>1 DEF FittingPayments, Splits, Empty
<1>9. FittingLogs'
  BY <1>1 DEF Fitted, FittingLogs, Acceptable, Splits, Empty
<1>10. \A k \in Nodes : FitsLatest(k)'
  <2>1. ASSUME NEW k \in Nodes PROVE FitsLatest(k)'
    <3>1. FitsLatest(k) /\ ~Midway(k)
      BY <1>1 DEF Fitted, FittingLatest, Midway
    <3> QED
      BY <1>1, <3>1, LatestKept
  <2> QED
    BY <2>1
<1> QED
  BY <1>1, <1>8, <1>9, <1>10 DEF Fitted, FittingLatest

LEMMA HandleFitted ==
  ASSUME RInv, Fitted, NEW p \in payments, HandlePay(p)
  PROVE  Fitted'
<1>1. Typed /\ LogsTyped /\ ClocksTyped /\ IsPayment(p)
  BY DEF RInv, Typed
<1>2. PICK m, q, ts : /\ m = Other(p.payer) /\ q = [p EXCEPT !.stage = "approved"]
                      /\ ts = p.req.timestamp
  OBVIOUS
<1>3. PICK e : e = ReceiverEntry(record[m], m, MeAlice(m, record[m]), p.req)
  OBVIOUS
<1>4. /\ m \in Nodes /\ record[m] = p.app_id /\ HasLatest(log[m])
      /\ Beneficial(MeAlice(m, record[m]), Latest(log[m]), p.req,
                    apps[record[m]].penalty_reserve)
      /\ log' = [log EXCEPT ![m] = Store(@, e)]
      /\ e.app_id = p.app_id /\ e.timestamp = ts
      /\ e.alice_balance = p.req.alice_balance
      /\ e.bob_balance = p.req.bob_balance
  BY <1>1, <1>2, <1>3, HandledPayment
<1>5. /\ q.payer = p.payer /\ q.app_id = p.app_id
      /\ q.req = p.req /\ q.stage = "approved"
  BY <1>1, <1>2, SetPayment
<1>6. Other(m) = p.payer /\ p.payer \in Nodes
  BY <1>1, <1>2, OtherNode DEF IsPayment
<1>7. /\ payments' = (payments \ {p}) \cup {q} /\ openings = {} /\ openings' = {}
      /\ UNCHANGED <<record, skew>>
  BY <1>2 DEF HandlePay, Fitted
<1>8. Stored(m, ts, e)
  BY <1>1, <1>4, StoreLog
<1>9. /\ Latest(log[m]).alice_balance \in Small /\ Latest(log[m]).bob_balance \in Small
      /\ p.req.alice_balance \in Small /\ p.req.bob_balance \in Small
  BY <1>4, LatestFits DEF Fitted, FittingPayments
<1>10. MeAlice(m, record[m]) \in BOOLEAN
  BY DEF MeAlice
<1>11. /\ p.req.alice_balance + p.req.bob_balance =
            Latest(log[m]).alice_balance + Latest(log[m]).bob_balance
       /\ Latest(log[m]).timestamp < p.req.timestamp
       /\ BalanceOf(MeAlice(m, record[m]), Latest(log[m]))
            < BalanceOf(MeAlice(m, record[m]), p.req)
  BY <1>4, <1>9, <1>10, BeneficialSums
<1>12. Splits(p.req, p.app_id)
  <2>3. ~Empty(p.req) /\ ~Empty(Latest(log[m]))
    BY <1>9, <1>11 DEF BalanceOf, Empty, Small
  <2>1. CASE Leading(p.payer)
    BY <2>1, <2>3 DEF Fitted, FittingPayments
  <2>2. CASE Leading(m)
    <3>1. FitsLatest(m) /\ ~Midway(m)
      BY <1>4, <1>7 DEF Fitted, FittingLatest, Midway
    <3>2. record[m] # 0
      BY <1>2 DEF HandlePay, AcceptsPayment
    <3>3. Splits(Latest(log[m]), record[m])
      BY <1>4, <2>2, <2>3, <3>1, <3>2 DEF FitsLatest
    <3> QED
      BY <1>4, <1>11, <3>3 DEF Splits
  <2> QED
    BY <1>1, <1>2, <1>6, <2>1, <2>2, OneLeads
<1>13. Splits(e, e.app_id) /\ Splits(e, record[m]) /\ Acceptable(e)
  BY <1>4, <1>12 DEF Splits, Acceptable
<1>14. Latest(log'[m]) = e
  <2>1. Ordered(log[m]) /\ log'[m] = Store(log[m], e)
    BY <1>1, <1>4, <1>8 DEF LogsTyped, Stored
  <2>2. DOMAIN log[m] \subseteq Nat
    BY <2>1 DEF Ordered
  <2>3. /\ \A us \in DOMAIN log[m] : us <= LatestTimestamp(log[m])
        /\ LatestTimestamp(log[m]) \in DOMAIN log[m]
    BY <1>4, <2>1, OrderedLatest
  <2>4. Latest(log[m]).timestamp = LatestTimestamp(log[m])
    BY <1>1, <1>4, LatestEntry DEF IsEntry
  <2>5. ts \in Nat \ {0}
    <3>1. e.timestamp \in DOMAIN log'[m]
      BY <1>4, <1>8 DEF Stored
    <3>2. RInv'
      BY HandleStep
    <3>3. Ordered(log'[m])
      BY <1>4, <3>2 DEF RInv, Typed, LogsTyped
    <3> QED
      BY <1>4, <3>1, <3>3 DEF Ordered
  <2>6. \A us \in DOMAIN log[m] : us < ts
    BY <1>2, <1>11, <2>2, <2>3, <2>4, <2>5
  <2> QED
    BY <1>4, <2>1, <2>5, <2>6, LatestAfterStore
<1>15. FitsLatest(m)'
  BY <1>7, <1>13, <1>14 DEF FitsLatest, Splits, Empty
<1>16. FittingPayments'
  <2>1. ASSUME NEW r \in payments'
        PROVE  /\ record'[r.payer] \in {r.app_id, 0}
               /\ r.req.alice_balance \in Small /\ r.req.bob_balance \in Small
               /\ r.stage = "approved" => Splits(r.req, r.app_id)
               /\ Leading(r.payer)' => Splits(r.req, r.app_id) \/ Empty(r.req)
    <3>1. Leading(r.payer)' <=> Leading(r.payer)
      BY <1>7 DEF Leading, Other
    <3>2. CASE r \in payments
      BY <1>7, <3>1, <3>2 DEF Fitted, FittingPayments
    <3>3. CASE r = q
      <4>1. record[p.payer] \in {p.app_id, 0}
        BY DEF Fitted, FittingPayments
      <4> QED
        BY <1>5, <1>7, <1>9, <1>12, <3>3, <4>1
    <3> QED
      BY <1>7, <2>1, <3>2, <3>3
  <2> QED
    BY <2>1 DEF FittingPayments, Splits, Empty
<1>17. Midway(Other(m)) => Midway(Other(m))'
  BY <1>7 DEF Midway
<1> QED
  BY <1>4, <1>7, <1>8, <1>13, <1>15, <1>16, <1>17, FittedStored

LEMMA ApprovedFitted ==
  ASSUME RInv, Fitted, NEW p \in payments, PayApproved(p)
  PROVE  Fitted'
<1>1. Typed /\ LogsTyped /\ IsPayment(p)
  BY DEF RInv, Typed
<1>2. PICK n, ts : n = p.payer /\ ts = p.req.timestamp
  OBVIOUS
<1>3. PICK e : e = PayerEntry(p.app_id, p.req,
                              ReceiverSignature(p.app_id, Other(p.payer), p.req))
  OBVIOUS
<1>4. /\ e.app_id = p.app_id /\ e.timestamp = ts
      /\ e.alice_balance = p.req.alice_balance
      /\ e.bob_balance = p.req.bob_balance
  BY <1>2, <1>3 DEF PayerEntry, OffChainEntry
<1>5. /\ log' = [log EXCEPT ![n] = Store(@, e)] /\ payments' = payments \ {p}
      /\ p.stage = "approved" /\ openings = {} /\ openings' = {}
      /\ UNCHANGED <<record, skew>>
  BY <1>2, <1>3 DEF PayApproved, Fitted
<1>6. n \in Nodes
  BY <1>1, <1>2 DEF IsPayment
<1>7. Stored(n, ts, e)
  BY <1>1, <1>4, <1>5, <1>6, StoreLog
<1>8. Splits(e, e.app_id) /\ Acceptable(e) /\ record[n] \in {e.app_id, 0}
  BY <1>2, <1>4, <1>5 DEF Fitted, FittingPayments, Splits, Acceptable
<1>9. FitsLatest(n)'
  <2>1. Ordered(log[n]) /\ log'[n] = Store(log[n], e)
    BY <1>1, <1>6, <1>7 DEF LogsTyped, Stored
  <2>2. ts \in Nat \ {0}
    <3>1. ts \in DOMAIN log'[n]
      BY <1>7 DEF Stored
    <3>2. RInv'
      BY ApprovedStep
    <3>3. Ordered(log'[n])
      BY <1>6, <3>2 DEF RInv, Typed, LogsTyped
    <3> QED
      BY <3>1, <3>3 DEF Ordered
  <2>3. Latest(log'[n]) = e \/ (HasLatest(log[n]) /\ Latest(log'[n]) = Latest(log[n]))
    BY <1>4, <2>1, <2>2, LatestOfStore
  <2>4. Leading(n)' <=> Leading(n)
    BY <1>5 DEF Leading, Other
  <2>5. FitsLatest(n) /\ ~Midway(n)
    BY <1>5, <1>6 DEF Fitted, FittingLatest, Midway
  <2>6. (Leading(n) /\ record[n] # 0 /\ HasLatest(log[n])) =>
          Splits(Latest(log[n]), record[n]) \/ Empty(Latest(log[n]))
    BY <2>5 DEF FitsLatest
  <2>7. (Leading(n) /\ record[n] # 0) =>
          Splits(Latest(log'[n]), record[n]) \/ Empty(Latest(log'[n]))
    BY <1>8, <2>3, <2>6
  <2> QED
    BY <1>5, <2>4, <2>7 DEF FitsLatest, Splits, Empty
<1>10. FittingPayments'
  <2>1. \A q \in payments : q.payer \in Nodes
    BY <1>1 DEF Typed, IsPayment
  <2> QED
    BY <1>5, <2>1, PaymentsKept DEF Fitted
<1>11. Midway(Other(n)) => Midway(Other(n))'
  BY <1>5 DEF Midway
<1> QED
  BY <1>5, <1>6, <1>7, <1>8, <1>9, <1>10, <1>11, FittedStored

\* Steps of openings and payments that store nothing, and of closings.
LEMMA DroppedFitted ==
  ASSUME Typed, Fitted,
         \/ \E o \in openings : OpenLost(o)
         \/ \E p \in payments : RejectPay(p) \/ PayLost(p)
         \/ \E n \in Nodes : CooperativeCloseChannel(n) \/ FinalizeCloseChannel(n)
         \/ \E id \in Ids : Fund(id)
         \/ UNCHANGED vars
  PROVE  Fitted'
<1>1. ASSUME NEW o \in openings, OpenLost(o) PROVE Fitted'
  <2>1. /\ o.stage \in {"asking", "approved"} /\ openings' = openings \ {o}
        /\ UNCHANGED <<skew, record, log, payments>>
    BY <1>1 DEF OpenLost, memory
  <2>2. \A n \in Nodes : Midway(n) => Midway(n)'
    BY <2>1, MidwayStays
  <2>3. openings' = {} \/ payments' = {}
    BY <2>1 DEF Fitted
  <2> QED
    BY <2>1, <2>2, <2>3, FittedKept
<1>2. ASSUME UNCHANGED <<skew, record, log, openings>>, payments' \subseteq payments
      PROVE  Fitted'
  <2>1. \A n \in Nodes : Midway(n) => Midway(n)'
    BY <1>2 DEF Midway, Partner, Other
  <2>2. openings' = {} \/ payments' = {}
    BY <1>2 DEF Fitted
  <2> QED
    BY <1>2, <2>1, <2>2, FittedKept
<1>3. ASSUME NEW p \in payments, RejectPay(p) \/ PayLost(p) PROVE Fitted'
  BY <1>2, <1>3 DEF RejectPay, PayLost, memory
<1>4. ASSUME NEW n \in Nodes, CooperativeCloseChannel(n) \/ FinalizeCloseChannel(n)
      PROVE  Fitted'
  BY <1>2, <1>4 DEF CooperativeCloseChannel, FinalizeCloseChannel, memory
<1>5. CASE UNCHANGED vars
  BY <1>2, <1>5 DEF vars
<1>6. ASSUME NEW id \in Ids, Fund(id) PROVE Fitted'
  BY <1>2, <1>6 DEF Fund, memory, calls
<1> QED
  BY <1>1, <1>3, <1>4, <1>5, <1>6

LEMMA FittingStep ==
  ASSUME ~AllowOverdraft, RInv, Turns, Fitting, [Next]_vars
  PROVE  Fitting'
<1> SUFFICES ASSUME overlaps' = {} PROVE Fitted'
  BY DEF Fitting
<1>1. overlaps \subseteq overlaps'
  BY DEF Next, OpenNext, PayNext, NodeNext, vars, OpenCreate, Fund, HandlerSavesRecord,
         HandlerSavesState, OpenerSavesRecord, OpenerSavesState, OpenLost, Pay, HandlePay,
         RejectPay, PayApproved, PayLost, CooperativeCloseChannel, FinalizeCloseChannel,
         DeleteRecord, Restart, Reset
<1>2. overlaps = {} /\ Fitted /\ Typed /\ OneByOne
  BY <1>1 DEF Fitting, Turns, RInv
<1>3. ASSUME NEW n \in Nodes, OpenCreate(n) PROVE Fitted'
  BY <1>2, <1>3, CreateFitted
<1>4. ASSUME NEW o \in openings, HandlerSavesRecord(o) \/ OpenerSavesRecord(o)
      PROVE  Fitted'
  BY <1>2, <1>4, SavedRecordFitted
<1>5. ASSUME NEW o \in openings, HandlerSavesState(o) \/ OpenerSavesState(o)
      PROVE  Fitted'
  BY <1>2, <1>5, SavedStateFitted
<1>6. ASSUME NEW n \in Nodes, NEW amount \in Amounts, Pay(n, amount) PROVE Fitted'
  BY <1>2, <1>6, PayFitted
<1>7. ASSUME NEW p \in payments, HandlePay(p) PROVE Fitted'
  BY <1>2, <1>7, HandleFitted
<1>8. ASSUME NEW p \in payments, PayApproved(p) PROVE Fitted'
  BY <1>2, <1>8, ApprovedFitted
<1>9. ASSUME NEW n \in Nodes, DeleteRecord(n) \/ Restart(n) \/ Reset(n) PROVE Fitted'
  BY <1>2, <1>9, ForgetFitted
<1>10. ASSUME \/ \E o \in openings : OpenLost(o)
              \/ \E p \in payments : RejectPay(p) \/ PayLost(p)
              \/ \E n \in Nodes : CooperativeCloseChannel(n) \/ FinalizeCloseChannel(n)
              \/ \E id \in Ids : Fund(id)
              \/ UNCHANGED vars
       PROVE  Fitted'
  BY <1>2, <1>10, DroppedFitted
<1> QED
  BY <1>3, <1>4, <1>5, <1>6, <1>7, <1>8, <1>9, <1>10 DEF Next, OpenNext, PayNext, NodeNext

\* Also when deposits come late or never, and the two nodes of a channel start
\* from different balances: while no opening overlaps with another one or with a
\* payment and no user overdraws, every state a node has stored splits the deposit
\* of its own channel, or is an empty first state, whichever channels the log has
\* states of and whoever's clock is ahead (rpcserver.go 112-153 and 196-231,
\* server.go 591-606, payment_contract.py 155).
THEOREM StatesFit ==
  ASSUME ~AllowOverdraft
  PROVE  Spec => []StatesFitTheirChannel
<1>1. Init => RInv /\ Turns /\ Fitting
  <2>1. Init => Turns
    BY DEF Init, Turns, OneByOne, Agreeing, Agree
  <2>2. Init => Fitting
    BY EmptyOrdered DEF Init, Fitting, Fitted, FittingLogs, FittingLatest, FitsLatest,
                        FittingPayments
  <2> QED
    BY <2>1, <2>2, RInvInit
<1>2. RInv /\ Turns /\ Fitting /\ [Next]_vars => RInv' /\ Turns' /\ Fitting'
  BY RInvStep, TurnsStep, FittingStep
<1>3. RInv /\ Fitting => StatesFitTheirChannel
  <2> SUFFICES ASSUME RInv, Fitting, overlaps = {},
                      NEW n \in Nodes, NEW ts \in DOMAIN log[n], NEW e, e = log[n][ts]
               PROVE  \/ Fits(e)
                      \/ /\ e.alice_signature = NoSignature
                         /\ e.alice_balance = 0 /\ e.bob_balance = 0
    BY DEF StatesFitTheirChannel
  <2>1. AppsTyped /\ IsEntry(e, ts)
    BY DEF RInv, Typed, LogsTyped
  <2>2. apps[e.app_id] \in ChannelApp
    BY <2>1, IdsParts DEF IsApp, IsEntry
  <2>3. Funded(apps[e.app_id], Deposits[e.app_id]).total_deposit = Deposits[e.app_id]
    BY <2>2 DEF Funded, ChannelApp
  <2>4. Acceptable(e)
    BY DEF Fitting, Fitted, FittingLogs
  <2> QED
    BY <2>3, <2>4 DEF Acceptable, Empty, Splits, Fits, SumsToDeposit, CallOf, Call
<1> QED
  BY <1>1, <1>2, <1>3, PTL DEF Spec
=============================================================================
