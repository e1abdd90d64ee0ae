-------------------------- MODULE PaymentContract --------------------------
(***************************************************************************)
(* One payment channel on chain: the smart contract of                     *)
(* payment/payment_contract.py driven by everything that may reach it, in  *)
(* any order the ledger may put the calls.                                 *)
(*                                                                         *)
(* Alice creates and funds the application; off chain the two parties sign *)
(* ever newer splits of the deposit (STATE_UPDATE) and, when they want to  *)
(* close, a closing commitment (CLOSE_CHANNEL) of the latest split.        *)
(* Whatever signatures exist may be submitted at any time, by either party *)
(* and in either role, old ones included; disputes and finalizations may   *)
(* come from anyone.  A call that has no effect leaves no trace and is a   *)
(* stuttering step.  The ledger's round advances on its own.               *)
(***************************************************************************)
EXTENDS ContractMethods

CONSTANTS
  Alice, Bob,       \* the two accounts; Alice creates the application
  AppId,            \* the identifier the ledger gives to the application
  NoApp,            \* the application before its creation
  Penalties,        \* penalty reserves a channel may be created with
  Windows,          \* dispute windows, in rounds
  Deposits,         \* amounts Alice may fund the channel with
  Splits,           \* the splits <<alice, bob>> the parties may sign
  AliceFunds,       \* Alice's money before the channel exists
  MaxTimestamp,     \* bound: off-chain states signed
  MaxRound          \* bound: last round of the ledger

ASSUME ContractAssumption ==
  /\ Alice # Bob
  /\ Penalties \subseteq Nat
  /\ Windows \subseteq Nat
  /\ Deposits \subseteq Nat
  /\ Splits \subseteq Nat \X Nat
  /\ AliceFunds \in Nat
  /\ MaxTimestamp \in Nat
  /\ MaxRound \in Nat \ {0}

VARIABLES
  app,              \* the application's global state and account balance
  round,            \* Global.round()
  signed,           \* every signature either party has produced
  wallet,           \* the parties' own accounts
  payouts,          \* how often closeAccountTo has paid
  initiatedAt       \* history: round of the last effective initiation, or 0

vars == <<app, round, signed, wallet, payouts, initiatedAt>>

Parties == {Alice, Bob}
IsCreated == app # NoApp

AllCommitments ==
  {Commitment(tag, AppId, s[1], s[2], ts) :
     tag \in {STATE_UPDATE, CLOSE_CHANNEL}, s \in Splits, ts \in 1..MaxTimestamp}

Signatures == {Sign(p, c) : p \in Parties, c \in AllCommitments}

-----------------------------------------------------------------------------
(* The off-chain side, as far as the contract can see it: signatures.      *)
Cosigned(c) == \A p \in Parties : Sign(p, c) \in signed

IsLatest(c) ==
  \A d \in AllCommitments :
    (Cosigned(d) /\ d.tag = STATE_UPDATE) => d.timestamp <= c.timestamp

\* The payer signs a split newer than any it has signed or been shown.
OfferState(p, split, ts) ==
  /\ IsCreated
  /\ \A s \in signed : s.over.timestamp < ts
  /\ \A t \in 1..(ts - 1) : \E s \in signed : s.over.timestamp = t
  /\ signed' = signed \cup {SignState(AppId, p, split[1], split[2], ts)}
  /\ UNCHANGED <<app, round, wallet, payouts, initiatedAt>>

\* A party asks to close with the newest split both have signed.
OfferClose(p, c) ==
  /\ Cosigned(c) /\ c.tag = STATE_UPDATE /\ IsLatest(c)
  /\ signed' = signed \cup
       {SignClose(AppId, p, c.alice_balance, c.bob_balance, c.timestamp)}
  /\ UNCHANGED <<app, round, wallet, payouts, initiatedAt>>

\* The counterparty signs what it was offered: a newer split, or the close
\* of the split it holds as its latest.
Accept(p, s) ==
  /\ s.key # p
  /\ IsLatest(s.over)
  /\ signed' = signed \cup {Sign(p, s.over)}
  /\ UNCHANGED <<app, round, wallet, payouts, initiatedAt>>

-----------------------------------------------------------------------------
(* The contract's methods.                                                 *)
OnCreate(penalty, window) ==
  /\ app = NoApp
  /\ app' = Created(AppId, Alice, Bob, penalty, window)
  /\ UNCHANGED <<round, signed, wallet, payouts, initiatedAt>>

\* The payment into the escrow and the call that records it are one group:
\* both take effect or neither.
OnFunding(amount) ==
  /\ IsCreated
  /\ FundTakesEffect(app, Alice, amount)
  /\ amount <= wallet[Alice]
  /\ app' = Funded(app, amount)
  /\ wallet' = [wallet EXCEPT ![Alice] = @ - amount]
  /\ UNCHANGED <<round, signed, payouts, initiatedAt>>

\* Arguments made of two signatures somebody holds, in either order.  Other
\* numbers than those under the first signature cannot verify.
Calls ==
  {Call(s.over.alice_balance, s.over.bob_balance, s.over.timestamp, s, t) :
     s \in signed, t \in signed}

OnInitiateChannelClosing(sender, call) ==
  /\ IsCreated
  /\ InitiateTakesEffect(app, sender, call)
  /\ app' = Initiated(app, sender, call, round)
  /\ initiatedAt' = round
  /\ UNCHANGED <<round, signed, wallet, payouts>>

OnRaiseDispute(call) ==
  /\ IsCreated
  /\ DisputeTakesEffect(app, call)
  /\ app' = Disputed(app, call)
  /\ UNCHANGED <<round, signed, wallet, payouts, initiatedAt>>

\* closeAccountTo applied to a state of the application.
CloseAccount(a) ==
  /\ app' = PaidOut(a)
  /\ wallet' = [wallet EXCEPT ![Alice] = @ + AliceReceives(a),
                              ![Bob] = @ + BobReceives(a)]
  /\ payouts' = payouts + 1
  /\ UNCHANGED <<round, signed, initiatedAt>>

OnCooperativeClose(sender, call) ==
  /\ IsCreated
  /\ CoopCloseTakesEffect(app, sender, call)
  /\ CloseAccount(WithState(app, call))

OnFinalizeChannelClosing ==
  /\ IsCreated
  /\ FinalizeTakesEffect(app, round)
  /\ CloseAccount(app)

\* The ledger adds a block.
NextRound ==
  /\ round < MaxRound
  /\ round' = round + 1
  /\ UNCHANGED <<app, signed, wallet, payouts, initiatedAt>>

-----------------------------------------------------------------------------
Init ==
  /\ app = NoApp
  /\ round = 1
  /\ signed = {}
  /\ wallet = [p \in Parties |-> IF p = Alice THEN AliceFunds ELSE 0]
  /\ payouts = 0
  /\ initiatedAt = 0

Next ==
  \/ \E penalty \in Penalties, window \in Windows : OnCreate(penalty, window)
  \/ \E amount \in Deposits : OnFunding(amount)
  \/ \E p \in Parties, split \in Splits, ts \in 1..MaxTimestamp :
       OfferState(p, split, ts)
  \/ \E p \in Parties, c \in AllCommitments : OfferClose(p, c)
  \/ \E p \in Parties, s \in signed : Accept(p, s)
  \/ \E p \in Parties, call \in Calls : OnInitiateChannelClosing(p, call)
  \/ \E p \in Parties, call \in Calls : OnCooperativeClose(p, call)
  \/ \E call \in Calls : OnRaiseDispute(call)
  \/ OnFinalizeChannelClosing
  \/ NextRound

Spec == Init /\ [][Next]_vars

\* Blocks keep coming, and whoever is owed money asks for it.
Fairness == WF_vars(NextRound) /\ WF_vars(OnFinalizeChannelClosing)
FairSpec == Spec /\ Fairness

-----------------------------------------------------------------------------
AppState ==
  [app_id : {AppId}, alice_address : {Alice}, bob_address : {Bob},
   penalty_reserve : Penalties, dispute_window : Windows,
   timeout : Nat, closing_initiator : {"none", "alice", "bob"},
   latest_alice_balance : Nat, latest_bob_balance : Nat,
   latest_timestamp : Nat, total_deposit : Nat, escrow : Nat]

ASSUME NoAppAssumption == NoApp \notin AppState

\* The state of the application stays within the global state schema
\* (operation.go 17-18), balances never go below zero, and money paid out
\* goes to the two parties only.
TypeOK ==
  /\ app \in AppState \cup {NoApp}
  /\ round \in 1..MaxRound
  /\ signed \subseteq Signatures
  /\ wallet \in [Parties -> Nat]
  /\ payouts \in Nat
  /\ initiatedAt \in 0..MaxRound

\* Until it pays out, the contract holds at least what it has recorded as
\* owed to the two parties, through any mix of fundings, initiations and
\* penalties: closeAccountTo cannot run out of money half-way.
Solvent ==
  (IsCreated /\ payouts = 0) =>
    app.latest_alice_balance + app.latest_bob_balance <= app.escrow

\* No money leaves the contract before both parties have signed some state.
\* Nothing in finalizeChannelClosing says so: before the first initiation
\* timeout is 0 and has passed, and it is the underflow of Bob's zero balance
\* minus a fee in closeAccountTo (30-35) that stops Alice from taking the
\* deposit back.
NoPayoutBeforeAgreement ==
  payouts > 0 => \E c \in AllCommitments : Cosigned(c)

\* What is recorded on chain is Alice's own deposit, or a split both parties
\* signed, or such a split after exactly one penalty against the one who
\* initiated; the penalty only for a split signed for closing.
Penalized(c, who) ==
  IF who = "alice"
  THEN <<c.alice_balance - app.penalty_reserve, c.bob_balance + app.penalty_reserve>>
  ELSE <<c.alice_balance + app.penalty_reserve, c.bob_balance - app.penalty_reserve>>

SplitAuthorised ==
  (IsCreated /\ app.latest_timestamp # 0) =>
    \E c \in AllCommitments :
      /\ Cosigned(c)
      /\ c.timestamp = app.latest_timestamp
      /\ <<app.latest_alice_balance, app.latest_bob_balance>> \in
           {<<c.alice_balance, c.bob_balance>>} \cup
           (IF c.tag = CLOSE_CHANNEL THEN {Penalized(c, app.closing_initiator)}
                                     ELSE {})

\* A payout is either the cooperative one, of a state both signed for closing,
\* or comes when dispute_window rounds have passed since the last time
\* somebody started to close: a second initiation restarts the window.
PayoutIsDue ==
  [][payouts' > payouts =>
       \/ app.timeout = 0 /\ \E c \in AllCommitments :
            /\ c.tag = CLOSE_CHANNEL /\ Cosigned(c)
            /\ c.bob_balance = wallet'[Bob] - wallet[Bob] + MinTxnFee
       \/ initiatedAt # 0 /\ round > initiatedAt + app.dispute_window]_vars

\* What Alice has put into the contract, all fundings together, leaves it with
\* the next payout, less two fees: Bob gets what a state both signed gives him,
\* give or take a penalty, and Alice all the rest, also when a second funding
\* has put more into the account than is recorded. None of it stays behind, and
\* none goes to Bob (closeAccountTo 27-50).
SurplusIsAlices ==
  [][payouts' > payouts =>
       /\ wallet'[Alice] + wallet'[Bob] = AliceFunds - 2 * MinTxnFee * payouts'
       /\ \E c \in AllCommitments :
            /\ Cosigned(c)
            /\ wallet'[Bob] - wallet[Bob] + MinTxnFee - c.bob_balance \in
                 {0, app.penalty_reserve, -app.penalty_reserve}]_vars

\* Once closing has been initiated the money is released, unless somebody
\* initiates again in a later round, which restarts the window and which nothing
\* in on_initiateChannelClosing (157-166) limits, or what is recorded leaves one
\* party less than the fee of its own payout.  Disputes do not delay it, nor do
\* initiations in the same round.  Bound: windows that go past MaxRound.
ClosingCompletes ==
  \A r \in 1..MaxRound :
    (IsCreated /\ app.timeout \in 1..(MaxRound - 1) /\ initiatedAt = r) ~>
      \/ payouts > 0
      \/ initiatedAt > r
      \/ /\ IsCreated
         /\ \/ app.latest_alice_balance < MinTxnFee
            \/ app.latest_bob_balance < MinTxnFee

\* The contract is an escrow that pays once: its account balance is what is
\* held, the splits both parties signed, for either purpose, are what was
\* agreed on, and the money that came back to the parties is the payout.
\* AliceFunds must not suffice for funding the channel a second time.
Escrow == INSTANCE ChannelEscrow WITH
  Fee <- MinTxnFee,
  held <- IF IsCreated THEN app.escrow ELSE 0,
  agreed <- {<<c.alice_balance, c.bob_balance>> :
               c \in {d \in AllCommitments : Cosigned(d)}},
  payout <- IF payouts = 0 THEN <<0, 0>>
            ELSE <<wallet[Alice] - (AliceFunds - app.total_deposit), wallet[Bob]>>

\* Whatever happens on chain, the two parties together see that escrow.
RefinesEscrow == Escrow!Spec
=============================================================================
