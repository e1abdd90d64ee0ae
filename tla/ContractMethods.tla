-------------------------- MODULE ContractMethods --------------------------
(***************************************************************************)
(* The methods of the payment channel smart contract                       *)
(* (payment/payment_contract.py, deployed as                               *)
(* payment/build_contracts/payment_approval.teal), as operators on the     *)
(* application's global state.                                             *)
(*                                                                         *)
(* For each method M there is a condition, M_TakesEffect, and the state    *)
(* the method leaves behind.  When the condition is false the call either  *)
(* is rejected (an Assert fails, an unsigned subtraction underflows, a     *)
(* comparison has operands of two types) or is approved without effect     *)
(* (the If around the body is not taken): the application's state is the   *)
(* same after both.                                                        *)
(*                                                                         *)
(* Numbers are uint64 in the AVM, whose + and - abort on overflow and on   *)
(* underflow instead of wrapping.  Every sum the contract forms is either  *)
(* compared with a stored uint64 or bounded by total_deposit, so an        *)
(* aborting sum and a false comparison have the same outcome; each         *)
(* subtraction carries its underflow check as a conjunct.                  *)
(***************************************************************************)
EXTENDS Integers, Commitments

CONSTANT MinTxnFee          \* Global.min_txn_fee(), 1000 microAlgos

ASSUME MinTxnFeeAssumption == MinTxnFee \in Nat \ {0}

\* A call of initiateChannelClosing, cooperativeClose or raiseDispute: the
\* application arguments 2 to 6 of payment_contract.py 115-120.
Call(alice, bob, ts, alice_sig, bob_sig) ==
  [alice_balance |-> alice, bob_balance |-> bob, timestamp |-> ts,
   alice_signature |-> alice_sig, bob_signature |-> bob_sig]

-----------------------------------------------------------------------------
(* on_create.  A key that was never written reads as 0.  The escrow is the *)
(* balance of the application's account.                                   *)
Created(id, sender, bob, penalty, window) ==
  [app_id |-> id, alice_address |-> sender, bob_address |-> bob,
   penalty_reserve |-> penalty, dispute_window |-> window,
   timeout |-> 0, closing_initiator |-> "none",
   latest_alice_balance |-> 0, latest_bob_balance |-> 0,
   latest_timestamp |-> 0, total_deposit |-> 0, escrow |-> 0]

(* on_funding, with the payment that precedes it in its group.             *)
FundTakesEffect(app, sender, amount) ==
  /\ sender = app.alice_address
  /\ amount > app.penalty_reserve + MinTxnFee

Funded(app, amount) ==
  [app EXCEPT !.latest_alice_balance = amount,
              !.total_deposit = amount,
              !.escrow = @ + amount]

-----------------------------------------------------------------------------
(* Guards shared by the three methods that take a signed state.            *)
IsParty(app, sender) == sender \in {app.alice_address, app.bob_address}

BothSigned(app, tag, call) ==
  LET c == Commitment(tag, app.app_id, call.alice_balance, call.bob_balance,
                      call.timestamp)
  IN  /\ call.alice_signature = Sign(app.alice_address, c)
      /\ call.bob_signature = Sign(app.bob_address, c)

\* A slip: >= where the code has ==.
SumsToDeposit_AtLeast(app, call) ==
  call.alice_balance + call.bob_balance >= app.total_deposit

SumsToDeposit(app, call) ==
  call.alice_balance + call.bob_balance = app.total_deposit

WithState(app, call) ==
  [app EXCEPT !.latest_timestamp = call.timestamp,
              !.latest_alice_balance = call.alice_balance,
              !.latest_bob_balance = call.bob_balance]

-----------------------------------------------------------------------------
(* closeAccountTo: two inner payments, each also charging its fee to the   *)
(* escrow; the second one closes the account to Alice.                     *)

\* A slip: only Alice's subtraction guards the payout.
CanPayOut_AliceOnly(app) ==
  /\ app.latest_alice_balance >= MinTxnFee
  /\ app.escrow >= app.latest_alice_balance + app.latest_bob_balance

\* A slip: the fees of the inner payments come on top of the balances.
CanPayOut_FeesOnTop(app) ==
  /\ app.latest_bob_balance >= MinTxnFee
  /\ app.latest_alice_balance >= MinTxnFee
  /\ app.escrow >= app.latest_alice_balance + app.latest_bob_balance
                   + 2 * MinTxnFee

CanPayOut(app) ==
  /\ app.latest_bob_balance >= MinTxnFee
  /\ app.latest_alice_balance >= MinTxnFee
  /\ app.escrow >= app.latest_alice_balance + app.latest_bob_balance

BobReceives(app) == app.latest_bob_balance - MinTxnFee

\* A slip: no close_remainder_to, so that Alice is paid what is recorded and
\* the rest stays in the account.
AliceReceives_Recorded(app) == app.latest_alice_balance - MinTxnFee

AliceReceives(app) == app.escrow - app.latest_bob_balance - MinTxnFee

\* A slip: paying does not empty the account.
PaidOut_KeepsEscrow(app) == app

\* What the two payments and their fees leave in the account.
PaidOut(app) ==
  [app EXCEPT !.escrow = @ - BobReceives(app) - AliceReceives(app) - 2 * MinTxnFee]

-----------------------------------------------------------------------------
(* on_initiateChannelClosing.  Neither the timestamp of the state nor an   *)
(* earlier timeout is looked at.                                           *)
InitiateTakesEffect(app, sender, call) ==
  /\ IsParty(app, sender)
  /\ BothSigned(app, STATE_UPDATE, call)
  /\ SumsToDeposit(app, call)

\* A slip: a second initiation keeps the first one's timeout.
Initiated_FirstTimeout(app, sender, call, round) ==
  [WithState(app, call) EXCEPT
     !.closing_initiator = IF sender = app.alice_address THEN "alice" ELSE "bob",
     !.timeout = IF @ = 0 THEN round + app.dispute_window ELSE @]

Initiated(app, sender, call, round) ==
  [WithState(app, call) EXCEPT
     !.closing_initiator = IF sender = app.alice_address THEN "alice" ELSE "bob",
     !.timeout = round + app.dispute_window]

(* on_cooperativeClose: the state is stored and paid out at once.          *)
CoopCloseTakesEffect(app, sender, call) ==
  /\ IsParty(app, sender)
  /\ app.timeout = 0
  /\ BothSigned(app, CLOSE_CHANNEL, call)
  /\ SumsToDeposit(app, call)
  /\ CanPayOut(WithState(app, call))

(* on_raiseDispute.  `hash' was rebound to the CLOSE_CHANNEL hash before   *)
(* this method was built, so closing commitments are what it accepts.      *)
(* Before any initiation closing_initiator holds the integer 0, and        *)
(* comparing that with a byte string aborts the call.                      *)
Loser(app) ==
  IF app.closing_initiator = "alice" THEN app.latest_alice_balance
                                     ELSE app.latest_bob_balance

Rebalanced(app) ==
  LET toBob == IF app.closing_initiator = "alice" THEN app.penalty_reserve
                                                  ELSE -app.penalty_reserve
  IN  [app EXCEPT !.latest_alice_balance = @ - toBob,
                  !.latest_bob_balance = @ + toBob]

\* A slip: nothing stops the penalty from exceeding the loser's balance.
DisputeTakesEffect_NoReserve(app, call) ==
  /\ BothSigned(app, CLOSE_CHANNEL, call)
  /\ SumsToDeposit(app, call)
  /\ app.latest_timestamp < call.timestamp
  /\ app.closing_initiator # "none"

DisputeTakesEffect(app, call) ==
  /\ BothSigned(app, CLOSE_CHANNEL, call)
  /\ SumsToDeposit(app, call)
  /\ app.latest_timestamp < call.timestamp
  /\ app.closing_initiator # "none"
  /\ Loser(WithState(app, call)) >= app.penalty_reserve

\* A slip: the penalty is charged to the recorded state, not to the new one.
Disputed_OldSplit(app, call) ==
  [Rebalanced(app) EXCEPT !.latest_timestamp = call.timestamp]

Disputed(app, call) == Rebalanced(WithState(app, call))

(* on_finalizeChannelClosing: anyone, once the round has passed timeout.   *)
FinalizeTakesEffect(app, round) ==
  /\ round > app.timeout
  /\ CanPayOut(app)
=============================================================================
