-------------------------- MODULE OffChainPayments --------------------------
(***************************************************************************)
(* Two nodes paying each other over an open channel: the Pay calls of      *)
(* their users (rpcserver.go 188-334), the pay_request handlers of their   *)
(* partners (server.go 192-335) and the connections in between (client.go  *)
(* 22-60).                                                                 *)
(*                                                                         *)
(* Every gRPC call and every accepted connection runs in a goroutine of    *)
(* its own and nothing locks the maps, so calls interleave: a handler's    *)
(* decision (steps 1 to 5) and its write to the log (step 6) are two       *)
(* steps, and so are the two ends of a call of Pay.  A connection carries  *)
(* one request and one response and may fail before or after the request   *)
(* was handled; the caller then returns an error and stores nothing.       *)
(*                                                                         *)
(* The two nodes read two clocks, which agree on nothing but that each     *)
(* goes forward; two readings on two machines never coincide (even and     *)
(* odd nanoseconds).                                                       *)
(***************************************************************************)
EXTENDS OffChainState, ContractMethods

CONSTANTS
  Alice, Bob,       \* the two nodes' accounts; Alice funded the channel
  AppId,            \* the channel's application
  Deposit,          \* its total_deposit, all Alice's at first
  PenaltyReserve,   \* its penalty_reserve
  Amounts,          \* amounts users ask to pay
  AllowOverdraft,   \* whether users may ask to pay more than they have
  MaxTime,          \* bound: the last reading of a clock
  MaxInFlight,      \* bound: calls of Pay outstanding at once
  MaxLosses         \* bound: connections that fail

ASSUME PaymentsAssumption ==
  /\ Alice # Bob
  /\ Deposit \in Nat /\ Deposit < UintSize \div 2
  /\ PenaltyReserve \in 1..Deposit
  /\ Amounts \subseteq 0..(UintSize - 1)
  /\ AllowOverdraft \in BOOLEAN
  /\ MaxTime \in Nat /\ MaxInFlight \in Nat /\ MaxLosses \in Nat

VARIABLES
  log,              \* payment_channels_offchain_states_log of each node
  clock,            \* the last time.Now() each node has read
  calls,            \* calls of Pay and the connections that serve them
  losses            \* connections lost so far

vars == <<log, clock, calls, losses>>

Nodes == {Alice, Bob}
Other(n) == IF n = Alice THEN Bob ELSE Alice
MeAlice(n) == n = Alice

StampedBy(ts) == IF ts % 2 = 0 THEN Alice ELSE Bob
Readings(n) == {ts \in 1..MaxTime : StampedBy(ts) = n}
Now(n) == {ts \in Readings(n) : ts > clock[n]}

Stages == {"sent", "checked", "approved", "rejected"}

-----------------------------------------------------------------------------
\* Both nodes have stored the unsigned state of OpenChannel, each with a
\* reading of its own clock (server.go 602-616, rpcserver.go 149-163).
OpenedState(ts) == OffChainEntry(AppId, ts, Deposit, 0, NoSignature, NoSignature)

Init ==
  /\ clock \in {c \in [Nodes -> 1..MaxTime] :
                  \A n \in Nodes : StampedBy(c[n]) = n /\ c[n] <= 4}
  /\ log = [n \in Nodes |-> Store(EmptyLog, OpenedState(clock[n]))]
  /\ calls = {}
  /\ losses = 0

\* Pay, steps 1 to 5: up to the point where the caller waits for the answer.
Pay(n, amount, ts) ==
  /\ Cardinality(calls) < MaxInFlight
  /\ HasLatest(log[n])
  /\ AllowOverdraft \/ amount <= BalanceOf(MeAlice(n), Latest(log[n]))
  /\ clock' = [clock EXCEPT ![n] = ts]
  /\ calls' = calls \cup
       {[req |-> PayRequest(AppId, n, MeAlice(n), Latest(log[n]), amount, ts),
         stage |-> "sent", waiting |-> TRUE]}
  /\ UNCHANGED <<log, losses>>

\* The answer goes to a caller that still waits; there is nobody else to tell.
Proceed(c, stage) ==
  calls' = (calls \ {c}) \cup
    (IF c.waiting \/ stage = "checked" THEN {[c EXCEPT !.stage = stage]} ELSE {})

\* A slip: the approval goes out, and the state is never stored.
CheckPayRequest_AnswersFirst(c) ==
  LET me == Other(c.req.from)
      ok == /\ HasLatest(log[me])
            /\ PayAcceptable(AppId, MeAlice(me), Latest(log[me]), c.req,
                             PenaltyReserve)
  IN  /\ c.stage = "sent"
      /\ Proceed(c, IF ok THEN "approved" ELSE "rejected")
      /\ UNCHANGED <<log, clock, losses>>

\* pay_request, steps 1 to 5: the new state is judged by the latest one now.
CheckPayRequest(c) ==
  LET me == Other(c.req.from)
      ok == /\ HasLatest(log[me])
            /\ PayAcceptable(AppId, MeAlice(me), Latest(log[me]), c.req,
                             PenaltyReserve)
  IN  /\ c.stage = "sent"
      /\ Proceed(c, IF ok THEN "checked" ELSE "rejected")
      /\ UNCHANGED <<log, clock, losses>>

\* pay_request, steps 6 and 7: it is stored, whatever the latest one is by now.
SavePayRequest(c) ==
  LET me == Other(c.req.from)
  IN  /\ c.stage = "checked"
      /\ log' = [log EXCEPT ![me] =
                   Store(@, ReceiverEntry(AppId, me, MeAlice(me), c.req))]
      /\ Proceed(c, "approved")
      /\ UNCHANGED <<clock, losses>>

\* Pay, steps 6 to 8, on an approval: the payer stores the state it proposed.
PayApproved(c) ==
  LET me == c.req.from
      partner_signature == ReceiverSignature(AppId, Other(me), c.req)
  IN  /\ c.stage = "approved"
      /\ VerifyState(AppId, c.req.alice_balance, c.req.bob_balance,
                     partner_signature, Other(me), c.req.timestamp)
      /\ log' = [log EXCEPT ![me] =
                   Store(@, PayerEntry(AppId, c.req, partner_signature))]
      /\ calls' = calls \ {c}
      /\ UNCHANGED <<clock, losses>>

\* A slip: the payer stores the state without looking at the answer.
PayRejected_StoresAnyway(c) ==
  LET me == c.req.from
  IN  /\ c.stage = "rejected"
      /\ log' = [log EXCEPT ![me] = Store(@, PayerEntry(AppId, c.req, NoSignature))]
      /\ calls' = calls \ {c}
      /\ UNCHANGED <<clock, losses>>

\* Pay returns "partner node rejected pay request".
PayRejected(c) ==
  /\ c.stage = "rejected"
  /\ calls' = calls \ {c}
  /\ UNCHANGED <<log, clock, losses>>

\* The connection fails before the partner has read the request.
LoseRequest(c) ==
  /\ losses < MaxLosses
  /\ c.stage = "sent" /\ c.waiting
  /\ calls' = calls \ {c}
  /\ losses' = losses + 1
  /\ UNCHANGED <<log, clock>>

\* The connection fails after that: the caller returns an error, the handler
\* goes on.
LoseResponse(c) ==
  /\ losses < MaxLosses
  /\ c.waiting
  /\ calls' = (calls \ {c}) \cup
       (IF c.stage \in {"sent", "checked"} THEN {[c EXCEPT !.waiting = FALSE]}
                                           ELSE {})
  /\ losses' = losses + 1
  /\ UNCHANGED <<log, clock>>

Next ==
  \/ \E n \in Nodes : \E amount \in Amounts, ts \in Now(n) : Pay(n, amount, ts)
  \/ \E c \in calls :
       \/ CheckPayRequest(c)
       \/ SavePayRequest(c)
       \/ PayApproved(c)
       \/ PayRejected(c)
       \/ LoseRequest(c)
       \/ LoseResponse(c)

Spec == Init /\ [][Next]_vars

-----------------------------------------------------------------------------
Balances == 0..(UintSize - 1)

IsEntry(e, ts) ==
  /\ e.timestamp = ts /\ e.app_id = AppId
  /\ e.alice_balance \in Balances /\ e.bob_balance \in Balances

TypeOK ==
  /\ DOMAIN log = Nodes
  /\ \A n \in Nodes : \A ts \in DOMAIN log[n] :
       ts \in 1..MaxTime /\ IsEntry(log[n][ts], ts)
  /\ clock \in [Nodes -> 1..MaxTime]
  /\ \A c \in calls : /\ c.req.from \in Nodes /\ c.req.timestamp \in 1..MaxTime
                      /\ c.stage \in Stages /\ c.waiting \in BOOLEAN
  /\ losses \in 0..MaxLosses

\* The states a node has stored because of a payment, and the payer of each.
Paid(n) == {e \in {log[n][ts] : ts \in DOMAIN log[n]} :
              e.alice_signature # NoSignature}
Payer(e) == StampedBy(e.timestamp)

\* A payer never counts a payment its partner does not hold: whatever the
\* order of answers, losses and handlers, the partner stored the same split
\* under the same timestamp before.
PayerNeverAhead ==
  \A n \in Nodes : \A e \in Paid(n) : Payer(e) = n =>
    /\ e.timestamp \in DOMAIN log[Other(n)]
    /\ LET held == log[Other(n)][e.timestamp]
       IN  /\ held.alice_balance = e.alice_balance
           /\ held.bob_balance = e.bob_balance

\* When no call is outstanding and no connection was lost, the two nodes have
\* the same idea of who owns what, payments that crossed included.
LogsAgreeAtRest ==
  (calls = {} /\ losses = 0) =>
    LET a == Latest(log[Alice])
        b == Latest(log[Bob])
    IN  a.alice_balance = b.alice_balance /\ a.bob_balance = b.bob_balance

\* A node that has been paid can put the state on chain: the contract accepts
\* every state a pay_request left in its log (split, both signatures, each
\* under the key of its side).
Channel == Funded(Created(AppId, Alice, Bob, PenaltyReserve, 1), Deposit)

ReceiverCanEnforce ==
  \A n \in Nodes : \A e \in Paid(n) : Payer(e) # n =>
    InitiateTakesEffect(Channel, n,
      Call(e.alice_balance, e.bob_balance, e.timestamp, e.alice_signature,
           e.bob_signature))

\* server.go:260 of the check on the payer's new balance: it "must have enough
\* funds to pay the penalty".  Of every payment a node has accepted, the payer
\* has the penalty left out of what is in the channel.
PenaltyCovered ==
  \A n \in Nodes : \A e \in Paid(n) :
    BalanceOf(Payer(e) = Alice, e) \in PenaltyReserve..Deposit

\* server.go:245 of the same check: "verify that all new parameters are
\* beneficial for me".  A node that stores a payment as its latest state is
\* better off than it was with the latest state it replaces.
SavesBenefitReceiver ==
  [][\A n \in Nodes :
       LET old == Latest(log[n])
           new == Latest(log'[n])
       IN  (new # old /\ Payer(new) # n) =>
             BalanceOf(MeAlice(n), new) > BalanceOf(MeAlice(n), old)]_vars

\* With one call at a time, lost connections and skewed clocks included, the
\* two logs implement one pair of balances: those of the newest state either
\* node has stored.
Newest ==
  LET a == Latest(log[Alice])
      b == Latest(log[Bob])
  IN  IF a.timestamp > b.timestamp THEN a ELSE b

Atomic == INSTANCE AtomicPayments WITH
  Total <- Deposit, Reserve <- PenaltyReserve,
  balances <- <<Newest.alice_balance, Newest.bob_balance>>

RefinesAtomicPayments == Atomic!Spec
=============================================================================
