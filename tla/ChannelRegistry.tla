-------------------------- MODULE ChannelRegistry --------------------------
(***************************************************************************)
(* What two nodes remember of the channels between them, when they open    *)
(* one after another, or several at once, in either direction.             *)
(*                                                                         *)
(* A node keeps at most one record per partner, under the partner's        *)
(* address, and one log of off-chain states per partner that no call but   *)
(* Reset ever clears (server.go 58-59).  Opening overwrites the record     *)
(* without looking at it, closing deletes whatever it finds there, and the *)
(* latest state of the log is taken for the latest state of the channel.   *)
(* So channels meet in the record and in the log.                          *)
(*                                                                         *)
(* Writing the record and the first state are two steps, at the opener and *)
(* at its partner; a payment is a request, its handling and its answer.    *)
(* A deposit is taken by the ledger at any time after the creation of its  *)
(* application, or never, and nobody waits for it.  The ledger takes a     *)
(* close in the step that sends it: StateChannel has what comes between.   *)
(***************************************************************************)
EXTENDS OffChainState, ContractMethods, Sequences

CONSTANTS
  Nodes,            \* the two nodes, by account
  Deposits,         \* what users fund the first, the second ... channel with
  Amounts,          \* amounts users ask to pay
  AllowOverdraft,   \* whether users may ask to pay more than they have
  Penalty,          \* the penalty reserve of every channel
  Skews,            \* how far a node's clock may be ahead, in half readings
  CloseMinimum,     \* balance below which a node refuses to close: 1000
  MaxApps,          \* bound: channels opened
  MaxTime,          \* bound: readings of the clock
  MaxPayments,      \* bound: payments in flight
  MaxFaults         \* bound: connections lost, restarts and resets together

ASSUME RegistryAssumption ==
  /\ \E a, b \in Nodes : a # b /\ Nodes = {a, b}
  /\ Penalty \in Nat /\ CloseMinimum \in Nat
  /\ \A i \in 1..MaxApps : Deposits[i] \in 0..(UintSize \div 2 - 1)
  /\ Amounts \subseteq Nat
  /\ AllowOverdraft \in BOOLEAN
  \* No two nodes ever read the same nanosecond.
  /\ \A s \in Skews : s \in Nat /\ (s = 0 \/ s % 2 = 1)
  /\ MaxApps \in Nat /\ MaxTime \in Nat /\ MaxPayments \in Nat
  /\ MaxFaults \in Nat

VARIABLES
  apps,             \* the applications on the ledger; the index is the app_id
  record,           \* the app_id in payment_channels_onchain_states, or 0
  log,              \* payment_channels_offchain_states_log
  openings,         \* openings under way
  payments,         \* payments under way
  closing,          \* the channel whose closing call is about to delete the record
  now,              \* readings of the clock so far
  skew,             \* how far each node's clock is ahead
  losses,           \* connections lost so far
  restarts,         \* restarts and resets so far
  overlaps          \* history: what an opening has overlapped with

memory == <<record, log>>
calls == <<openings, payments, closing>>
faults == <<losses, restarts>>
vars == <<apps, record, log, openings, payments, closing, now, skew, losses, restarts,
          overlaps>>

Other(n) == CHOOSE m \in Nodes : m # n
Ids == 1..Len(apps)
MeAlice(n, id) == apps[id].alice_address = n

Reading(n) == 2 * (now + 1) + skew[n]
ClockRead == now < MaxTime /\ now' = now + 1

CallOf(e) ==
  Call(e.alice_balance, e.bob_balance, e.timestamp, e.alice_signature, e.bob_signature)

-----------------------------------------------------------------------------
(* OpenChannel (rpcserver.go 100-186) and open_channel_request.            *)
\* `found' is what the partner's handler has read from the ledger.
Opening(id, n) ==
  [app_id |-> id, opener |-> n, stage |-> "asking", awaited |-> TRUE, found |-> <<0, 0>>]

Advance(o, stage, found) ==
  openings' = (openings \ {o}) \cup {[o EXCEPT !.stage = stage, !.found = found]}

\* Steps 1 and 2: the application is created, the deposit is on its way.
OpenCreate(n) ==
  /\ Len(apps) < MaxApps
  /\ LET id == Len(apps) + 1
     IN  /\ apps' = Append(apps, Created(id, n, Other(n), Penalty, 1))
         /\ openings' = openings \cup {Opening(id, n)}
  /\ overlaps' = overlaps \cup (IF openings # {} THEN {"opening"} ELSE {})
                          \cup (IF payments # {} THEN {"payment"} ELSE {})
  /\ UNCHANGED <<memory, payments, closing, now, skew, faults>>

\* The ledger takes a deposit, however far the opening has got by then.
Fund(id) ==
  /\ apps[id].total_deposit = 0
  /\ FundTakesEffect(apps[id], apps[id].alice_address, Deposits[id])
  /\ apps' = [apps EXCEPT ![id] = Funded(@, Deposits[id])]
  /\ UNCHANGED <<memory, calls, now, skew, faults, overlaps>>

\* A slip: a record that is there already is kept.
SaveRecord_KeepsFirst(n, id) ==
  record' = [record EXCEPT ![n] = IF @ = 0 THEN id ELSE @]

SaveRecord(n, id) == record' = [record EXCEPT ![n] = id]

InitialState(n, id, alice, bob) ==
  OffChainEntry(id, Reading(n), alice, bob, NoSignature, NoSignature)

\* A slip: the first state goes into a new log only.
SaveFirstState_NewLogOnly(n, id, alice, bob) ==
  /\ ClockRead
  /\ log' = IF log[n] # EmptyLog THEN log
            ELSE [log EXCEPT ![n] = Store(@, InitialState(n, id, alice, bob))]

SaveFirstState(n, id, alice, bob) ==
  /\ ClockRead
  /\ log' = [log EXCEPT ![n] = Store(@, InitialState(n, id, alice, bob))]

\* savePaymentChannelOnChainState, called by the partner's handler: it reads
\* the application, then saves the record, then the state.
HandlerSavesRecord(o) ==
  /\ o.stage = "asking"
  /\ SaveRecord(Other(o.opener), o.app_id)
  /\ LET app == apps[o.app_id]
     IN  Advance(o, "recorded", <<app.latest_alice_balance, app.latest_bob_balance>>)
  /\ UNCHANGED <<apps, log, payments, closing, now, skew, faults, overlaps>>

HandlerSavesState(o) ==
  /\ o.stage = "recorded"
  /\ SaveFirstState(Other(o.opener), o.app_id, o.found[1], o.found[2])
  /\ IF o.awaited THEN Advance(o, "approved", <<0, 0>>) ELSE openings' = openings \ {o}
  /\ UNCHANGED <<apps, record, payments, closing, skew, faults, overlaps>>

\* Step 4 of OpenChannel, with the partner's answer: the balances the opener
\* starts from are what it has asked to fund.
OpenerSavesRecord(o) ==
  /\ o.stage = "approved"
  /\ SaveRecord(o.opener, o.app_id)
  /\ Advance(o, "saved", <<0, 0>>)
  /\ UNCHANGED <<apps, log, payments, closing, now, skew, faults, overlaps>>

OpenerSavesState(o) ==
  /\ o.stage = "saved"
  /\ SaveFirstState(o.opener, o.app_id, Deposits[o.app_id], 0)
  /\ openings' = openings \ {o}
  /\ UNCHANGED <<apps, record, payments, closing, skew, faults, overlaps>>

\* The connection breaks before the request or after the answer.
OpenLost(o) ==
  /\ o.stage \in {"asking", "approved"}
  /\ losses + restarts < MaxFaults
  /\ losses' = losses + 1
  /\ openings' = openings \ {o}
  /\ UNCHANGED <<apps, memory, payments, closing, now, skew, restarts, overlaps>>

-----------------------------------------------------------------------------
(* Pay and pay_request: the payer signs for the channel of its record, and *)
(* so does the receiver; both start from the latest state of their logs.   *)
Payment(n, id, req, stage) == [payer |-> n, app_id |-> id, req |-> req, stage |-> stage]

Pay(n, amount) ==
  /\ record[n] # 0 /\ HasLatest(log[n])
  /\ AllowOverdraft \/ amount <= BalanceOf(MeAlice(n, record[n]), Latest(log[n]))
  /\ Cardinality(payments) < MaxPayments
  /\ ClockRead
  /\ LET id == record[n]
         req == PayRequest(id, n, MeAlice(n, id), Latest(log[n]), amount, Reading(n))
     IN  payments' = payments \cup {Payment(n, id, req, "asking")}
  /\ overlaps' = overlaps \cup (IF openings # {} THEN {"payment"} ELSE {})
  /\ UNCHANGED <<apps, memory, openings, closing, skew, faults>>

AcceptsPayment(m, req) ==
  /\ record[m] # 0 /\ HasLatest(log[m])
  /\ PayAcceptable(record[m], MeAlice(m, record[m]), Latest(log[m]), req,
                   apps[record[m]].penalty_reserve)

HandlePay(p) ==
  LET m == Other(p.payer)
      id == record[m]
  IN  /\ p.stage = "asking"
      /\ AcceptsPayment(m, p.req)
      /\ log' = [log EXCEPT ![m] = Store(@, ReceiverEntry(id, m, MeAlice(m, id), p.req))]
      /\ payments' = (payments \ {p}) \cup {[p EXCEPT !.stage = "approved"]}
      /\ UNCHANGED <<apps, record, openings, closing, now, skew, faults, overlaps>>

\* The answer is a rejection: nothing is stored anywhere.
RejectPay(p) ==
  /\ p.stage = "asking"
  /\ ~AcceptsPayment(Other(p.payer), p.req)
  /\ payments' = payments \ {p}
  /\ UNCHANGED <<apps, memory, openings, closing, now, skew, faults, overlaps>>

PayApproved(p) ==
  /\ p.stage = "approved"
  /\ log' = [log EXCEPT ![p.payer] =
       Store(@, PayerEntry(p.app_id, p.req, ReceiverSignature(p.app_id, Other(p.payer), p.req)))]
  /\ payments' = payments \ {p}
  /\ UNCHANGED <<apps, record, openings, closing, now, skew, faults, overlaps>>

PayLost(p) ==
  /\ losses + restarts < MaxFaults
  /\ losses' = losses + 1
  /\ payments' = payments \ {p}
  /\ UNCHANGED <<apps, memory, openings, closing, now, skew, restarts, overlaps>>

-----------------------------------------------------------------------------
(* The calls that close the channel of the record.  Bound: a node's user   *)
(* makes one of them at a time.                                            *)
Closable(e) == e.alice_balance >= CloseMinimum /\ e.bob_balance >= CloseMinimum

\* CooperativeCloseChannel and close_channel_request: the caller signs for its
\* record's channel, the partner verifies for that of its own.
CooperativeCloseChannel(n) ==
  LET m == Other(n)
      id == record[n]
      mine == Latest(log[n])
      theirs == Latest(log[m])
      Close(k) == SignClose(id, k, mine.alice_balance, mine.bob_balance, mine.timestamp)
      call == Call(mine.alice_balance, mine.bob_balance, mine.timestamp,
                   Close(apps[id].alice_address), Close(apps[id].bob_address))
  IN  /\ id # 0 /\ HasLatest(log[n])
      /\ closing[n] = 0
      /\ Closable(mine)
      /\ record[m] # 0 /\ HasLatest(log[m])
      /\ VerifyClose(record[m], theirs.alice_balance, theirs.bob_balance, Close(n), n,
                     theirs.timestamp)
      /\ apps' = IF CoopCloseTakesEffect(apps[id], n, call)
                 THEN [apps EXCEPT ![id] = PaidOut(WithState(@, call))]
                 ELSE apps
      /\ closing' = [closing EXCEPT ![n] = id]
      /\ UNCHANGED <<memory, openings, payments, now, skew, faults, overlaps>>

\* FinalizeCloseChannel of a channel nobody has initiated the close of: the
\* ledger lets it have no effect, and the call goes on.
FinalizeCloseChannel(n) ==
  /\ record[n] # 0
  /\ closing[n] = 0
  /\ ~CanPayOut(apps[record[n]])
  /\ closing' = [closing EXCEPT ![n] = record[n]]
  /\ UNCHANGED <<apps, memory, openings, payments, now, skew, faults, overlaps>>

\* The last step of both: the record under the partner's address, whatever it
\* is by now.
DeleteRecord(n) ==
  /\ closing[n] # 0
  /\ record' = [record EXCEPT ![n] = 0]
  /\ closing' = [closing EXCEPT ![n] = 0]
  /\ UNCHANGED <<apps, log, openings, payments, now, skew, faults, overlaps>>

-----------------------------------------------------------------------------
(* Nothing is kept on disk.                                                *)
Forget(n) ==
  /\ losses + restarts < MaxFaults
  /\ restarts' = restarts + 1
  /\ record' = [record EXCEPT ![n] = 0]
  /\ log' = [log EXCEPT ![n] = EmptyLog]

\* The process ends and is started again under the account of its SEED_PHRASE.
\* Its own calls are gone, though a request it has sent may still arrive; the
\* handlers it was running are gone, and the partner's calls that wait for an
\* answer may or may not get one.
Restart(n) ==
  /\ Forget(n)
  /\ LET mine == {o \in openings : o.opener = n}
         sent == {o \in mine : o.stage \in {"asking", "recorded"}}
         handled == {o \in openings \ mine : o.stage = "recorded"}
         waiting == {o \in openings \ mine : o.stage \in {"asking", "approved"}}
     IN  \E broken \in SUBSET waiting :
           openings' = (openings \ (mine \cup handled \cup broken)) \cup
                       {[o EXCEPT !.awaited = FALSE] : o \in sent}
  /\ payments' \in SUBSET {p \in payments : p.payer # n}
  /\ closing' = [closing EXCEPT ![n] = 0]
  /\ UNCHANGED <<apps, now, skew, losses, overlaps>>

\* The gRPC call Reset (rpcserver.go 35-70), with SEED_PHRASE: new maps, while
\* the other calls and the handlers go on with them.
Reset(n) ==
  /\ Forget(n)
  /\ UNCHANGED <<apps, calls, now, skew, losses, overlaps>>

-----------------------------------------------------------------------------
Init ==
  /\ apps = <<>>
  /\ record = [n \in Nodes |-> 0]
  /\ log = [n \in Nodes |-> EmptyLog]
  /\ openings = {} /\ payments = {}
  /\ closing = [n \in Nodes |-> 0]
  /\ now = 0
  /\ skew \in [Nodes -> Skews] /\ \E n \in Nodes : skew[n] = 0
  /\ losses = 0 /\ restarts = 0
  /\ overlaps = {}

OpenNext ==
  \/ \E n \in Nodes : OpenCreate(n)
  \/ \E id \in Ids : Fund(id)
  \/ \E o \in openings :
       \/ HandlerSavesRecord(o) \/ HandlerSavesState(o)
       \/ OpenerSavesRecord(o) \/ OpenerSavesState(o)
       \/ OpenLost(o)

PayNext ==
  \/ \E n \in Nodes, amount \in Amounts : Pay(n, amount)
  \/ \E p \in payments : HandlePay(p) \/ RejectPay(p) \/ PayApproved(p) \/ PayLost(p)

NodeNext(n) ==
  \/ CooperativeCloseChannel(n)
  \/ FinalizeCloseChannel(n)
  \/ DeleteRecord(n)
  \/ Restart(n)
  \/ Reset(n)

Next == OpenNext \/ PayNext \/ \E n \in Nodes : NodeNext(n)

Spec == Init /\ [][Next]_vars

-----------------------------------------------------------------------------
TypeOK ==
  /\ \A id \in Ids : apps[id].app_id = id /\ apps[id].escrow \in {0, Deposits[id]}
  /\ record \in [Nodes -> {0} \cup Ids]
  /\ \A n \in Nodes : \A ts \in DOMAIN log[n] :
       ts > 0 /\ log[n][ts].timestamp = ts /\ log[n][ts].app_id \in Ids
  /\ \A o \in openings : o.stage \in {"asking", "recorded", "approved", "saved"}
  /\ \A p \in payments : p.app_id \in Ids /\ p.stage \in {"asking", "approved"}
  /\ closing \in [Nodes -> {0} \cup Ids]
  /\ now \in 0..MaxTime
  /\ losses + restarts \in 0..MaxFaults
  /\ overlaps \subseteq {"opening", "payment"}

\* When openings follow one another and no answer is lost, two nodes that both
\* have a record of a channel with each other have a record of the same one:
\* after any mixture of openings in both directions over old records, closes
\* whose deletions come late, restarts and resets, half-way through an opening
\* too (rpcserver.go 129-145, server.go 602-603).
RecordsAgree ==
  (openings = {} /\ "opening" \notin overlaps /\ losses = 0) =>
    \A n, m \in Nodes : record[n] = record[m] \/ record[n] = 0 \/ record[m] = 0

\* Whether a state splits the amount its application was or will be funded
\* with, or is one that its contract never takes.
Fits(e) == SumsToDeposit(Funded(apps[e.app_id], Deposits[e.app_id]), CallOf(e))

\* A log holds states of several channels, and payments start from its latest
\* one, which a partner whose clock is ahead may have stamped in an old channel;
\* besides, the opener starts from the amount it has asked to fund and its
\* partner from what it finds on the ledger, where the deposit may be late, or
\* never come.  Yet, when no opening overlaps with another one or with a payment
\* and no user overdraws, whatever is paid splits the deposit of its own channel
\* and not of an earlier one, and so does a first state, unless it is empty, and
\* signed by nobody, because its node found no deposit (rpcserver.go 112-153 and
\* 196-231, server.go 591-606, payment_contract.py 155).
StatesFitTheirChannel ==
  overlaps = {} =>
    \A n \in Nodes : \A ts \in DOMAIN log[n] :
      LET e == log[n][ts]
      IN  \/ Fits(e)
          \/ /\ e.alice_signature = NoSignature
             /\ e.alice_balance = 0 /\ e.bob_balance = 0

\* Whatever the nodes have of each other in their records, crossed openings,
\* lost answers, skewed clocks and restarts included, they never take one
\* payment for two different ones: states of the same timestamp are of the same
\* channel and have the same balances in both logs (server.go 268-282,
\* rpcserver.go 284-298).
NoMixedStates ==
  \A n, m \in Nodes : \A ts \in DOMAIN log[n] \cap DOMAIN log[m] :
    /\ log[n][ts].app_id = log[m][ts].app_id
    /\ log[n][ts].alice_balance = log[m][ts].alice_balance
    /\ log[n][ts].bob_balance = log[m][ts].bob_balance

\* "9. delete payment channel from on chain state" (rpcserver.go 535): a closing
\* call deletes the record of the channel it closes, and no other.
DeletesOwnChannel ==
  [][\A n \in Nodes :
       (closing[n] # 0 /\ closing'[n] = 0 /\ restarts' = restarts)
         => record[n] \in {0, closing[n]}]_vars
=============================================================================
