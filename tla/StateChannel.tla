---------------------------- MODULE StateChannel ----------------------------
(***************************************************************************)
(* A whole channel: the two nodes (their record of the channel, their log  *)
(* of off-chain states and the gRPC calls of their users, rpcserver.go and *)
(* server.go), their watchtowers (watchtower.go), the transactions they    *)
(* have sent (payment/operation.go) and the contract on the ledger.        *)
(*                                                                         *)
(* A call that acts on chain reads the node's state and sends a            *)
(* transaction in one step; the ledger takes the transaction in a later    *)
(* one, in any order, and decides then whether it has an effect; the rest  *)
(* of the call (deleting the channel's record) follows in yet another,     *)
(* whether or not the transaction was taken: WaitForConfirmation gives up  *)
(* after 4 rounds and its error is only printed.                           *)
(*                                                                         *)
(* A payment is one step here.  OffChainPayments has its inner structure,  *)
(* and shows that one call at a time does behave like that.  The partner's *)
(* part of a cooperative close changes nothing it stores, so a payment     *)
(* made between its answer and the transaction is one made while the       *)
(* transaction waits.  Both nodes have one channel, which Alice opens;     *)
(* ChannelRegistry has several.  Everything a node knows is in memory, and *)
(* a restart (asd.go, server.go 68-104) loses it.                          *)
(***************************************************************************)
EXTENDS OffChainState, ContractMethods

CONSTANTS
  Alice, Bob,       \* the two nodes' accounts
  AppId,            \* the identifier the ledger gives to the application
  NoApp,            \* the application before its creation
  NoCall,           \* the arguments of a call without arguments
  Deposits,         \* funding amounts Alice may ask for
  Penalties,        \* penalty reserves she may ask for
  Windows,          \* dispute windows she may ask for
  PenaltyRange,     \* what Bob accepts: 100 to 100_000_000
  WindowRange,      \* what Bob accepts: 2 to 10_000
  CloseMinimum,     \* balance below which a node refuses to close: 1000
  Amounts,          \* amounts users ask to pay
  AllowOverdraft,   \* whether users may ask to pay more than they have
  AllowCheat,       \* whether users call TryToCheat
  PayWhileClosing,  \* whether users go on paying once a close has begun
  MaxTime,          \* bound: the last reading of a clock
  MaxRound,         \* bound: last round of the ledger
  MaxPending,       \* bound: transactions sent and not yet taken
  MaxLosses,        \* bound: responses lost
  MaxRestarts       \* bound: restarts of either node

ASSUME StateChannelAssumption ==
  /\ Alice # Bob
  /\ Deposits \subseteq 0..(UintSize \div 2 - 1)
  /\ Penalties \subseteq Nat /\ Windows \subseteq Nat
  /\ PenaltyRange \subseteq Nat /\ WindowRange \subseteq Nat
  /\ CloseMinimum \in Nat
  /\ Amounts \subseteq 0..(UintSize - 1)
  /\ AllowOverdraft \in BOOLEAN
  /\ AllowCheat \in BOOLEAN /\ PayWhileClosing \in BOOLEAN
  /\ MaxTime \in Nat /\ MaxRound \in Nat \ {0} /\ MaxPending \in Nat
  /\ MaxLosses \in Nat /\ MaxRestarts \in Nat

VARIABLES
  app,              \* the application on the ledger
  round,            \* the ledger's round
  mempool,          \* transactions sent and not yet taken by the ledger
  payout,           \* history: what closeAccountTo paid <<alice, bob>>, or <<>>
  opening,          \* how far Alice's OpenChannel has got, and its amount
  known,            \* whether payment_channels_onchain_states has the channel
  log,              \* payment_channels_offchain_states_log of each node
  deleting,         \* who is about to delete the record: a call, the watchtower
  clock,            \* the last time.Now() each node has read
  losses,           \* responses lost so far
  restarts,         \* restarts so far
  orderly,          \* history: nobody has disturbed a close under way
  agreed            \* history: the splits both nodes have signed

chain == <<app, round, mempool, payout>>
history == <<orderly, agreed>>
nodes == <<opening, known, log, deleting, clock, losses, restarts>>
vars == <<app, round, mempool, payout, opening, known, log, deleting, clock, losses,
          restarts, orderly, agreed>>

Nodes == {Alice, Bob}
Other(n) == IF n = Alice THEN Bob ELSE Alice
MeAlice(n) == n = Alice

\* Two clocks never show the same nanosecond: Alice's readings are even.
StampedBy(n, ts) == ts % 2 = (IF n = Alice THEN 0 ELSE 1)

Now(n) == {ts \in 1..MaxTime : ts > clock[n] /\ StampedBy(n, ts)}

Txn(kind, sender, call) == [kind |-> kind, sender |-> sender, call |-> call]

Submit(t) ==
  /\ t \in mempool \/ Cardinality(mempool) < MaxPending
  /\ mempool' = mempool \cup {t}
  /\ UNCHANGED <<app, round, payout>>

CallOf(e) ==
  Call(e.alice_balance, e.bob_balance, e.timestamp, e.alice_signature, e.bob_signature)

-----------------------------------------------------------------------------
(* OpenChannel (rpcserver.go 100-186) and open_channel_request.            *)
Opening(stage, amount) == [stage |-> stage, amount |-> amount]

\* ascli openchannel takes an argument of 0 for one that is missing.
OpenCommand(amount, penalty, window) == 0 \notin {amount, penalty, window}

\* Step 1, CreatePaymentApp.
OpenCreate(amount, penalty, window) ==
  /\ opening.stage = "no"
  /\ OpenCommand(amount, penalty, window)
  /\ app' = Created(AppId, Alice, Bob, penalty, window)
  /\ opening' = Opening("created", amount)
  /\ UNCHANGED <<round, mempool, payout, known, log, deleting, clock, losses, restarts,
                 history>>

\* Step 2, SetupPaymentApp.  Its errors are printed and its wait ends after 4
\* rounds: OpenChannel goes on, with the deposit on its way or rejected.
OpenSetup ==
  /\ opening.stage = "created"
  /\ Submit(Txn("fund", Alice, Call(opening.amount, 0, 0, NoSignature, NoSignature)))
  /\ opening' = Opening("asking", opening.amount)
  /\ UNCHANGED <<known, log, deleting, clock, losses, restarts, history>>

InitialState(alice, bob, ts) ==
  OffChainEntry(AppId, ts, alice, bob, NoSignature, NoSignature)

\* doOpenChannelSecurityChecks on the application Bob finds on the ledger; that
\* it has been funded is not among them.
OpenAcceptable ==
  /\ app.bob_address = Bob
  /\ app.dispute_window \in WindowRange
  /\ app.penalty_reserve \in PenaltyRange

OpenSaved(n, alice, bob, ts) ==
  /\ known' = [known EXCEPT ![n] = TRUE]
  /\ log' = [log EXCEPT ![n] = Store(@, InitialState(alice, bob, ts))]
  /\ clock' = [clock EXCEPT ![n] = ts]

\* A slip: Bob starts from the amount Alice says she has funded.
OpenApprove_TrustsAmount(ts) ==
  /\ opening.stage = "asking"
  /\ OpenAcceptable
  /\ OpenSaved(Bob, opening.amount, 0, ts)
  /\ opening' = Opening("approved", opening.amount)
  /\ UNCHANGED <<chain, deleting, losses, restarts, history>>

\* open_channel_request: Bob starts from the balances on chain.
OpenApprove(ts) ==
  /\ opening.stage = "asking"
  /\ OpenAcceptable
  /\ OpenSaved(Bob, app.latest_alice_balance, app.latest_bob_balance, ts)
  /\ opening' = Opening("approved", opening.amount)
  /\ UNCHANGED <<chain, deleting, losses, restarts, history>>

OpenReject ==
  /\ opening.stage = "asking"
  /\ ~OpenAcceptable
  /\ opening' = Opening("failed", opening.amount)
  /\ UNCHANGED <<chain, known, log, deleting, clock, losses, restarts, history>>

\* Step 4: Alice starts from the amount she asked for.
OpenApproved(ts) ==
  /\ opening.stage = "approved"
  /\ OpenSaved(Alice, opening.amount, 0, ts)
  /\ opening' = Opening("open", opening.amount)
  /\ UNCHANGED <<chain, deleting, losses, restarts, history>>

\* The response is lost: Bob has the channel, Alice does not.
OpenLost ==
  /\ opening.stage = "approved"
  /\ losses < MaxLosses
  /\ losses' = losses + 1
  /\ opening' = Opening("failed", opening.amount)
  /\ UNCHANGED <<chain, known, log, deleting, clock, restarts, history>>

-----------------------------------------------------------------------------
(* Pay and pay_request (rpcserver.go 188-334, server.go 192-335).          *)
ClosingBegun ==
  /\ app # NoApp
  /\ (\E t \in mempool : t.kind # "fund") \/ app.timeout # 0 \/ payout # <<>>

\* From here on nobody can say the close under way went undisturbed.
Disturbed(by) == orderly' = (orderly /\ ~by)

\* What users do, for the code asks for the first two conjuncts only.
MayPay(n, amount) ==
  /\ known[n]
  /\ HasLatest(log[n])
  /\ AllowOverdraft \/ amount <= BalanceOf(MeAlice(n), Latest(log[n]))
  /\ PayWhileClosing \/ ~ClosingBegun

\* The partner has the channel and accepts: it stores the state, and so does
\* the payer when it gets the answer.  Nothing changes on a rejection.
Pay(n, amount, ts, answered) ==
  LET m == Other(n)
      req == PayRequest(AppId, n, MeAlice(n), Latest(log[n]), amount, ts)
      received == Store(log[m], ReceiverEntry(AppId, m, MeAlice(m), req))
      paid == Store(log[n], PayerEntry(AppId, req, ReceiverSignature(AppId, m, req)))
  IN  /\ MayPay(n, amount)
      /\ known[m] /\ HasLatest(log[m])
      /\ PayAcceptable(AppId, MeAlice(m), Latest(log[m]), req, app.penalty_reserve)
      /\ clock' = [clock EXCEPT ![n] = ts]
      /\ IF answered
         THEN /\ log' = [log EXCEPT ![m] = received, ![n] = paid]
              /\ losses' = losses
         ELSE /\ losses < MaxLosses
              /\ log' = [log EXCEPT ![m] = received]
              /\ losses' = losses + 1
      /\ agreed' = agreed \cup {<<req.alice_balance, req.bob_balance>>}
      /\ Disturbed(ClosingBegun)
      /\ UNCHANGED <<chain, opening, known, deleting, restarts>>

-----------------------------------------------------------------------------
(* The calls that close a channel.                                         *)
Closable(e) == e.alice_balance >= CloseMinimum /\ e.bob_balance >= CloseMinimum

\* A slip: the state best for the caller, as in TryToCheat.
InitiateCloseChannel_BestForMe(n) ==
  /\ known[n]
  /\ \E e \in HighestBalanceStates(MeAlice(n), log[n]) :
       /\ Closable(e)
       /\ Submit(Txn("initiate", n, CallOf(e)))
  /\ Disturbed(ClosingBegun)
  /\ UNCHANGED <<nodes, agreed>>

\* InitiateCloseChannel (336-386).
InitiateCloseChannel(n) ==
  /\ known[n] /\ HasLatest(log[n])
  /\ Closable(Latest(log[n]))
  /\ Submit(Txn("initiate", n, CallOf(Latest(log[n]))))
  /\ Disturbed(ClosingBegun)
  /\ UNCHANGED <<nodes, agreed>>

\* TryToCheat (549-608): the same, with the state best for the caller.
TryToCheat(n) ==
  /\ AllowCheat
  /\ known[n]
  /\ \E e \in HighestBalanceStates(MeAlice(n), log[n]) :
       /\ Closable(e)
       /\ Submit(Txn("initiate", n, CallOf(e)))
  /\ Disturbed(TRUE)
  /\ UNCHANGED <<nodes, agreed>>

\* CooperativeCloseChannel (427-547) and close_channel_request (337-393): the
\* partner verifies the caller's signature against its own latest state.
CooperativeCloseChannel(n) ==
  LET m == Other(n)
      mine == Latest(log[n])
      theirs == Latest(log[m])
      Close(k, e) == SignClose(AppId, k, e.alice_balance, e.bob_balance, e.timestamp)
  IN  /\ known[n] /\ HasLatest(log[n])
      /\ Closable(mine)
      /\ known[m] /\ HasLatest(log[m])
      /\ VerifyClose(AppId, theirs.alice_balance, theirs.bob_balance, Close(n, mine),
                     n, theirs.timestamp)
      /\ Submit(Txn("cooperative", n,
           Call(mine.alice_balance, mine.bob_balance, mine.timestamp,
                Close(Alice, mine), Close(Bob, mine))))
      /\ deleting' = [deleting EXCEPT ![n] = @ \cup {"call"}]
      /\ agreed' = agreed \cup {<<mine.alice_balance, mine.bob_balance>>}
      /\ Disturbed(ClosingBegun)
      /\ UNCHANGED <<opening, known, log, clock, losses, restarts>>

\* FinalizeCloseChannel (388-425).
FinalizeCloseChannel(n) ==
  /\ known[n]
  /\ Submit(Txn("finalize", n, NoCall))
  /\ deleting' = [deleting EXCEPT ![n] = @ \cup {"call"}]
  /\ Disturbed(app.timeout = 0 \/ round <= app.timeout)
  /\ UNCHANGED <<opening, known, log, clock, losses, restarts, agreed>>

\* The last step of those two calls, and of the watchtower's.
DeleteRecord(n, who) ==
  /\ who \in deleting[n]
  /\ known' = [known EXCEPT ![n] = FALSE]
  /\ deleting' = [deleting EXCEPT ![n] = @ \ {who}]
  /\ UNCHANGED <<chain, opening, log, clock, losses, restarts, history>>

\* What the watchtower compares: balances, not timestamps.
OnChainBalance(n) ==
  IF n = Alice THEN app.latest_alice_balance ELSE app.latest_bob_balance

\* One turn of the watchtower's loop that finds something to dispute
\* (watchtower.go 13-121).
WatchtowerDisputes(n) ==
  /\ known[n] /\ "watchtower" \notin deleting[n]
  /\ app.timeout > 0
  /\ HasLatest(log[n])
  /\ OnChainBalance(n) < BalanceOf(MeAlice(n), Latest(log[n]))
  /\ Submit(Txn("dispute", n, CallOf(Latest(log[n]))))
  /\ deleting' = [deleting EXCEPT ![n] = @ \cup {"watchtower"}]
  /\ UNCHANGED <<opening, known, log, clock, losses, restarts, history>>

-----------------------------------------------------------------------------
(* The node's process ends and is started again under the same account     *)
(* (SEED_PHRASE is set): both maps are empty, and so ends what its calls,  *)
(* handlers and watchtower were about to do.  What it sent to the ledger   *)
(* stays there.  Without SEED_PHRASE the node has a new account and never  *)
(* comes back to this channel, which a node that takes no more steps       *)
(* covers.                                                                 *)
Restart(n) ==
  /\ restarts < MaxRestarts
  /\ restarts' = restarts + 1
  /\ known' = [known EXCEPT ![n] = FALSE]
  /\ log' = [log EXCEPT ![n] = EmptyLog]
  /\ deleting' = [deleting EXCEPT ![n] = {}]
  \* Alice's call ends with her node; Bob's end of it breaks the connection,
  \* unless it comes before the request or after the response.
  /\ \/ /\ opening.stage \in {"asking", "approved"} \/ (opening.stage = "created" /\ n = Alice)
        /\ opening' = Opening("failed", opening.amount)
     \/ /\ opening.stage \in {"no", "open", "failed"} \/ n = Bob
        /\ UNCHANGED opening
  /\ UNCHANGED <<chain, clock, losses, history>>

-----------------------------------------------------------------------------
(* The ledger.                                                             *)
HasEffect(t) ==
  \/ t.kind = "fund" /\ FundTakesEffect(app, t.sender, t.call.alice_balance)
  \/ t.kind = "initiate" /\ InitiateTakesEffect(app, t.sender, t.call)
  \/ t.kind = "cooperative" /\ CoopCloseTakesEffect(app, t.sender, t.call)
  \/ t.kind = "dispute" /\ DisputeTakesEffect(app, t.call)
  \/ t.kind = "finalize" /\ FinalizeTakesEffect(app, round)

Recorded(t) ==
  CASE t.kind = "fund" -> Funded(app, t.call.alice_balance)
    [] t.kind = "initiate" -> Initiated(app, t.sender, t.call, round)
    [] t.kind = "dispute" -> Disputed(app, t.call)
    [] t.kind = "cooperative" -> WithState(app, t.call)
    [] t.kind = "finalize" -> app

\* fund, initiateChannelClosing and raiseDispute.
TakeState(t) ==
  /\ t.kind \in {"fund", "initiate", "dispute"}
  /\ HasEffect(t)
  /\ app' = Recorded(t)
  /\ mempool' = mempool \ {t}
  /\ UNCHANGED <<round, payout, nodes, history>>

\* cooperativeClose and finalizeChannelClosing.
TakePayout(t) ==
  /\ t.kind \in {"cooperative", "finalize"}
  /\ HasEffect(t)
  /\ app' = PaidOut(Recorded(t))
  /\ payout' = <<AliceReceives(Recorded(t)), BobReceives(Recorded(t))>>
  /\ mempool' = mempool \ {t}
  /\ UNCHANGED <<round, nodes, history>>

\* Rejected, or approved without effect.
TakeWithoutEffect(t) ==
  /\ ~HasEffect(t)
  /\ mempool' = mempool \ {t}
  /\ UNCHANGED <<app, round, payout, nodes, history>>

TakeTransaction ==
  \E t \in mempool :
    \/ TakeState(t)
    \/ TakePayout(t)
    \/ TakeWithoutEffect(t)

\* A round matters only as long as a timeout has not passed.
NextRound ==
  /\ app # NoApp
  /\ round <= app.timeout /\ round < MaxRound
  /\ round' = round + 1
  /\ UNCHANGED <<app, mempool, payout, nodes, history>>

-----------------------------------------------------------------------------
Init ==
  /\ app = NoApp
  /\ round = 1
  /\ mempool = {}
  /\ payout = <<>>
  /\ opening = Opening("no", 0)
  /\ known = [n \in Nodes |-> FALSE]
  /\ log = [n \in Nodes |-> EmptyLog]
  /\ deleting = [n \in Nodes |-> {}]
  /\ clock = [n \in Nodes |-> 0]
  /\ losses = 0 /\ restarts = 0
  /\ orderly = TRUE
  /\ agreed = {}

OpenNext ==
  \/ \E amount \in Deposits, penalty \in Penalties, window \in Windows :
       OpenCreate(amount, penalty, window)
  \/ OpenSetup
  \/ \E ts \in Now(Bob) : OpenApprove(ts)
  \/ OpenReject
  \/ \E ts \in Now(Alice) : OpenApproved(ts)
  \/ OpenLost

\* The commands of ascli that change something; openchannel is in OpenNext.
UserNext(n) ==
  \/ \E amount \in Amounts, ts \in Now(n), answered \in BOOLEAN :
       Pay(n, amount, ts, answered)
  \/ InitiateCloseChannel(n)
  \/ TryToCheat(n)
  \/ CooperativeCloseChannel(n)
  \/ FinalizeCloseChannel(n)

NodeNext(n) ==
  \/ \E who \in {"call", "watchtower"} : DeleteRecord(n, who)
  \/ WatchtowerDisputes(n)
  \/ Restart(n)

LedgerNext ==
  \/ TakeTransaction
  \/ NextRound

Next ==
  \/ OpenNext
  \/ \E n \in Nodes : UserNext(n) \/ NodeNext(n)
  \/ LedgerNext

Spec == Init /\ [][Next]_vars

\* The ledger goes on, a call that was begun comes to its end, and a user whose
\* node has the channel finalizes it once the window is over.
FinalizeWhenDue(n) ==
  /\ FinalizeCloseChannel(n)
  /\ app.timeout # 0 /\ round > app.timeout

Fairness ==
  /\ WF_vars(NextRound) /\ WF_vars(TakeTransaction)
  /\ \A n \in Nodes :
       /\ \A who \in {"call", "watchtower"} : WF_vars(DeleteRecord(n, who))
       /\ WF_vars(FinalizeWhenDue(n))

FairSpec == Spec /\ Fairness

-----------------------------------------------------------------------------
AppState ==
  [app_id : {AppId}, alice_address : {Alice}, bob_address : {Bob},
   penalty_reserve : Penalties, dispute_window : Windows,
   timeout : Nat, closing_initiator : {"none", "alice", "bob"},
   latest_alice_balance : Nat, latest_bob_balance : Nat,
   latest_timestamp : Nat, total_deposit : Nat, escrow : Nat]

ASSUME NoAppAssumption == NoApp \notin AppState

TypeOK ==
  /\ app \in {NoApp} \cup AppState
  /\ round \in 1..MaxRound
  /\ \A t \in mempool :
       /\ t.sender \in Nodes
       /\ t.kind \in {"fund", "initiate", "cooperative", "dispute", "finalize"}
  /\ payout = <<>> \/ payout \in Nat \X Nat
  /\ opening.stage \in {"no", "created", "asking", "approved", "open", "failed"}
  /\ known \in [Nodes -> BOOLEAN] /\ deleting \in [Nodes -> SUBSET {"call", "watchtower"}]
  /\ clock \in [Nodes -> 0..MaxTime]
  /\ losses \in 0..MaxLosses /\ restarts \in 0..MaxRestarts
  /\ orderly \in BOOLEAN /\ agreed \subseteq Nat \X Nat

Pays(e) == payout = <<e.alice_balance - MinTxnFee, e.bob_balance - MinTxnFee>>

\* When nobody cheats and nobody pays on while a close is under way, a channel
\* that is paid out pays the newest balances of one of the two nodes, less the
\* fee of the payout: whoever closes, in whatever way, even if both nodes close
\* at once in two ways, with the watchtowers running, calls that come too early
\* and answers that were lost or one node that has restarted and forgotten the
\* channel, though not both (rpcserver.go 336-547, watchtower.go).
PayoutIsNewest ==
  (payout # <<>> /\ (restarts = 0 \/ (losses = 0 /\ restarts = 1))) =>
    \E n \in Nodes : HasLatest(log[n]) /\ Pays(Latest(log[n]))

\* Whatever the users do, TryToCheat and payments during a close included, what
\* is paid out is a state some node holds with both signatures in the fields
\* the contract verifies them from: as long as no node has forgotten its states,
\* one that has to prove later what it was paid has the proof (rpcserver.go
\* 300-317, server.go 298-325).
PayoutIsProvable ==
  (payout # <<>> /\ restarts = 0) =>
    \E n \in Nodes : \E ts \in DOMAIN log[n] :
      /\ Pays(log[n][ts])
      /\ BothSigned(app, STATE_UPDATE, CallOf(log[n][ts]))

\* When no user asks to pay more than it has, which Pay does not look at
\* (rpcserver.go 224), a node that has been paid can close on its own: as long as
\* it has its record of the channel and the latest state in its log is one it
\* received, the ledger takes its initiation, although it approved the channel
\* before its funding was confirmed and never looked at the deposit again
\* (server.go 160-190 and 602-616, rpcserver.go 111-118 and 363-372).
PaidCanInitiate ==
  payout = <<>> =>
    \A n \in Nodes :
      LET e == Latest(log[n])
      IN  (/\ known[n] /\ HasLatest(log[n])
           /\ ~StampedBy(n, e.timestamp)
           /\ Closable(e)) => InitiateTakesEffect(app, n, CallOf(e))

\* Once a close has been initiated by a user who does not cheat, and nobody
\* pays on, closes again or finalizes too early, the money is paid out: the
\* records that finished calls and the watchtower's vain disputes delete (after
\* an answer was lost, one node's balance on chain is below its latest) are
\* never those of both nodes before somebody has finalized.
ClosePays ==
  (app # NoApp /\ app.timeout # 0 /\ orderly /\ restarts = 0)
    ~> (payout # <<>> \/ ~orderly \/ restarts # 0)

\* The two nodes, their users, whatever these do, and the ledger together are
\* the escrow that the contract promises to be: one deposit, and one payout of
\* a split both nodes had signed; and they never come to charge a penalty.
Escrow == INSTANCE ChannelEscrow WITH
  Fee <- MinTxnFee,
  Penalties <- {},
  held <- IF app = NoApp THEN 0 ELSE app.escrow,
  payout <- IF payout = <<>> THEN <<0, 0>> ELSE payout

RefinesEscrow == Escrow!Spec

Taken(t) == t \in mempool /\ t \notin mempool'

\* "If the latest balances are not correct, we need to dispute" (watchtower.go
\* 92): once the ledger has taken a watchtower's dispute, before any payout, the
\* state on chain is no older than the one the watchtower sent.
DisputeIsSettled ==
  [][\A t \in mempool :
       Taken(t) /\ t.kind = "dispute" /\ payout = <<>>
         => app'.latest_timestamp >= t.call.timestamp]_vars

\* "Initiate the closing phase of an existing channel on-chain" (command
\* initiateclosechannel): once the ledger has taken the transaction of
\* InitiateCloseChannel, before any payout, the closing phase has begun.
InitiationBegins ==
  [][\A t \in mempool :
       Taken(t) /\ t.kind = "initiate" /\ payout = <<>>
         => app'.timeout # 0]_vars
=============================================================================
