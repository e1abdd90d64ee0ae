----------------------- MODULE PaymentClosing_proofs -----------------------
(***************************************************************************)
(* What the payment contract records and when it pays, for every choice of *)
(* the constants: a payout leaves nothing in the contract's account, it is *)
(* due, and the split on chain is one both parties signed.  Last, the      *)
(* contract implements ChannelEscrow as long as Alice funds it once: every *)
(* step of the contract and of the two parties is a deposit, an agreement  *)
(* or the settlement of the escrow, or changes nothing it sees.            *)
(***************************************************************************)
EXTENDS PaymentContract_proofs

USE MinTxnFeeAssumption, ContractAssumption

-----------------------------------------------------------------------------
(* What the methods leave behind, field by field.                          *)
LEMMA FundedFields ==
  ASSUME NEW a \in AppState, NEW amount \in Nat
  PROVE  /\ Funded(a, amount) \in AppState
         /\ Funded(a, amount).escrow = a.escrow + amount
         /\ Funded(a, amount).latest_bob_balance = a.latest_bob_balance
         /\ Funded(a, amount).timeout = a.timeout
         /\ Funded(a, amount).closing_initiator = a.closing_initiator
         /\ Funded(a, amount).dispute_window = a.dispute_window
<1>1. a.escrow + amount \in Nat
  BY DEF AppState
<1>2. Funded(a, amount) = [a EXCEPT !.latest_alice_balance = amount,
                                    !.total_deposit = amount,
                                    !.escrow = a.escrow + amount]
  BY DEF Funded
<1> QED
  BY <1>1, <1>2 DEF AppState

LEMMA InitiatedFields ==
  ASSUME NEW a \in AppState, NEW sender, NEW call, NEW r \in Nat,
         call.alice_balance \in Nat, call.bob_balance \in Nat,
         call.timestamp \in Nat
  PROVE  /\ Initiated(a, sender, call, r) \in AppState
         /\ Initiated(a, sender, call, r).escrow = a.escrow
         /\ Initiated(a, sender, call, r).total_deposit = a.total_deposit
         /\ Initiated(a, sender, call, r).latest_alice_balance = call.alice_balance
         /\ Initiated(a, sender, call, r).latest_bob_balance = call.bob_balance
         /\ Initiated(a, sender, call, r).latest_timestamp = call.timestamp
         /\ Initiated(a, sender, call, r).dispute_window = a.dispute_window
         /\ Initiated(a, sender, call, r).timeout = r + a.dispute_window
<1>1. r + a.dispute_window \in Nat
  <2>1. a.dispute_window \in Nat
    BY DEF AppState
  <2> QED
    BY <2>1
<1> DEFINE b == WithState(a, call)
<1>2. PICK who \in {"alice", "bob"} :
        Initiated(a, sender, call, r)
          = [b EXCEPT !.closing_initiator = who, !.timeout = r + a.dispute_window]
  BY DEF Initiated
<1>3. /\ b \in AppState
      /\ b.latest_alice_balance = call.alice_balance
      /\ b.latest_bob_balance = call.bob_balance
      /\ b.latest_timestamp = call.timestamp
      /\ b.escrow = a.escrow
      /\ b.total_deposit = a.total_deposit
      /\ b.dispute_window = a.dispute_window
  BY DEF AppState, WithState
<1> HIDE DEF b
<1> QED
  BY <1>1, <1>2, <1>3 DEF AppState

LEMMA WithStateFields ==
  ASSUME NEW a \in AppState, NEW call,
         call.alice_balance \in Nat, call.bob_balance \in Nat,
         call.timestamp \in Nat
  PROVE  /\ WithState(a, call) \in AppState
         /\ WithState(a, call).latest_timestamp = call.timestamp
         /\ WithState(a, call).timeout = a.timeout
  BY DEF AppState, WithState

LEMMA DisputedFields ==
  ASSUME NEW a \in AppState, NEW call,
         call.alice_balance \in Nat, call.bob_balance \in Nat,
         call.timestamp \in Nat,
         Loser(WithState(a, call)) >= a.penalty_reserve
  PROVE  /\ Disputed(a, call) \in AppState
         /\ Disputed(a, call).escrow = a.escrow
         /\ Disputed(a, call).total_deposit = a.total_deposit
         /\ Disputed(a, call).timeout = a.timeout
         /\ Disputed(a, call).closing_initiator = a.closing_initiator
         /\ Disputed(a, call).dispute_window = a.dispute_window
         /\ Disputed(a, call).penalty_reserve = a.penalty_reserve
         /\ Disputed(a, call).latest_timestamp = call.timestamp
<1> DEFINE b == WithState(a, call)
<1>1. /\ b \in AppState
      /\ b.escrow = a.escrow
      /\ b.total_deposit = a.total_deposit
      /\ b.timeout = a.timeout
      /\ b.closing_initiator = a.closing_initiator
      /\ b.dispute_window = a.dispute_window
      /\ b.penalty_reserve = a.penalty_reserve
      /\ b.latest_timestamp = call.timestamp
  BY WithStateType, WithStateFields
<1>2. Loser(b) >= b.penalty_reserve
  BY <1>1
<1>3. Disputed(a, call) = Rebalanced(b)
  BY DEF Disputed
<1> HIDE DEF b
<1>4. /\ Rebalanced(b) \in AppState
      /\ Rebalanced(b).escrow = b.escrow
      /\ Rebalanced(b).total_deposit = b.total_deposit
  BY <1>1, <1>2, RebalancedType
<1>5. /\ Rebalanced(b).timeout = b.timeout
      /\ Rebalanced(b).closing_initiator = b.closing_initiator
      /\ Rebalanced(b).dispute_window = b.dispute_window
      /\ Rebalanced(b).penalty_reserve = b.penalty_reserve
      /\ Rebalanced(b).latest_timestamp = b.latest_timestamp
  <2>1. PICK x, y : Rebalanced(b) = [b EXCEPT !.latest_alice_balance = x,
                                              !.latest_bob_balance = y]
    BY DEF Rebalanced
  <2> QED
    BY <1>1, <2>1 DEF AppState
<1> QED
  BY <1>1, <1>3, <1>4, <1>5

LEMMA PaidOutFields ==
  ASSUME NEW a \in AppState
  PROVE  /\ PaidOut(a) \in AppState
         /\ PaidOut(a).escrow = 0
         /\ PaidOut(a).total_deposit = a.total_deposit
         /\ PaidOut(a).timeout = a.timeout
         /\ PaidOut(a).closing_initiator = a.closing_initiator
         /\ PaidOut(a).dispute_window = a.dispute_window
         /\ PaidOut(a).penalty_reserve = a.penalty_reserve
         /\ PaidOut(a).latest_alice_balance = a.latest_alice_balance
         /\ PaidOut(a).latest_bob_balance = a.latest_bob_balance
         /\ PaidOut(a).latest_timestamp = a.latest_timestamp
  BY PaidOutEmpties DEF AppState

\* The commitment behind a call the contract verifies.
LEMMA SignedCall ==
  ASSUME TypeOK, IsCreated, NEW call \in Calls, NEW tag,
         BothSigned(app, tag, call)
  PROVE  \E c \in AllCommitments :
           /\ Cosigned(c) /\ c.tag = tag
           /\ c.alice_balance = call.alice_balance
           /\ c.bob_balance = call.bob_balance
           /\ c.timestamp = call.timestamp
<1> DEFINE c == Commitment(tag, app.app_id, call.alice_balance, call.bob_balance,
                           call.timestamp)
<1>1. app.alice_address = Alice /\ app.bob_address = Bob
  BY DEF TypeOK, IsCreated, AppState
<1>2. Sign(Alice, c) \in signed /\ Sign(Bob, c) \in signed
  BY <1>1, CallType DEF BothSigned
<1>3. c \in AllCommitments
  <2>1. Sign(Alice, c) \in Signatures
    BY <1>2 DEF TypeOK
  <2>2. Sign(Alice, c).over \in AllCommitments
    BY <2>1, SignatureParts
  <2> QED
    BY <2>2 DEF Sign
<1>4. /\ c.tag = tag
      /\ c.alice_balance = call.alice_balance
      /\ c.bob_balance = call.bob_balance
      /\ c.timestamp = call.timestamp
  BY DEF Commitment
<1> HIDE DEF c
<1> QED
  BY <1>2, <1>3, <1>4 DEF Cosigned, Parties

\* No step takes a signature back, nor the application once it is there.
LEMMA NothingTakenBack ==
  ASSUME IInv, Next
  PROVE  signed \subseteq signed'
  BY DEF Next, OnCreate, OnFunding, OfferState, OfferClose, Accept,
     OnInitiateChannelClosing, OnCooperativeClose, OnRaiseDispute,
     OnFinalizeChannelClosing, CloseAccount, NextRound

\* The application's type, where there is one.
LEMMA CreatedType ==
  ASSUME TypeOK, IsCreated
  PROVE  app \in AppState
  BY DEF TypeOK, IsCreated

-----------------------------------------------------------------------------
(* Money: closeAccountTo sends all there is, and Bob's part of it is his   *)
(* part of a state both signed, give or take one penalty.                  *)
Conserved ==
  wallet[Alice] + wallet[Bob] + (IF IsCreated THEN app.escrow ELSE 0)
    + 2 * MinTxnFee * payouts = AliceFunds

GivesBob(a, c) ==
  /\ Cosigned(c)
  /\ a.latest_bob_balance - c.bob_balance \in {0, a.penalty_reserve, -a.penalty_reserve}

BobsShare ==
  (IsCreated /\ app.latest_bob_balance # 0) =>
    \E c \in AllCommitments : GivesBob(app, c)

LEMMA PayoutMovesEverything ==
  ASSUME TypeOK, Conserved, IsCreated, NEW a \in AppState,
         CanPayOut(a), a.escrow = app.escrow, CloseAccount(a)
  PROVE  Conserved'
<1> DEFINE fees == 2 * MinTxnFee * payouts
<1>1. /\ AliceReceives(a) \in Nat /\ BobReceives(a) \in Nat
      /\ AliceReceives(a) + BobReceives(a) + 2 * MinTxnFee = a.escrow
  <2>1. a.escrow \in Nat /\ a.latest_bob_balance \in Nat
    BY DEF AppState
  <2> QED
    BY <2>1, PayoutType DEF AliceReceives, BobReceives
<1>2. /\ wallet'[Alice] = wallet[Alice] + AliceReceives(a)
      /\ wallet'[Bob] = wallet[Bob] + BobReceives(a)
      /\ wallet[Alice] \in Nat /\ wallet[Bob] \in Nat
  BY DEF CloseAccount, TypeOK, Parties
<1>3. (IF IsCreated THEN app.escrow ELSE 0)' = 0
  BY PaidOutFields DEF CloseAccount
<1>4. 2 * MinTxnFee * payouts' = fees + 2 * MinTxnFee
  BY DEF CloseAccount, TypeOK
<1>5. fees \in Nat
  BY DEF TypeOK
<1>6. wallet[Alice] + wallet[Bob] + a.escrow + fees = AliceFunds
  BY DEF Conserved
<1> HIDE DEF fees
<1>7. wallet'[Alice] + wallet'[Bob] + 0 + (fees + 2 * MinTxnFee) = AliceFunds
  BY <1>1, <1>2, <1>5, <1>6
<1> QED
  BY <1>3, <1>4, <1>7 DEF Conserved

LEMMA MoneyStep ==
  ASSUME IInv, Conserved, Next
  PROVE  Conserved'
<1>1. TypeOK
  BY DEF IInv
<1>2. ASSUME NEW penalty \in Penalties, NEW window \in Windows,
             OnCreate(penalty, window)
      PROVE  Conserved'
  <2>1. app'.escrow = 0
    BY <1>2 DEF OnCreate, Created
  <2> QED
    BY <1>2, <2>1 DEF OnCreate, IsCreated, Conserved
<1>3. ASSUME NEW amount \in Deposits, OnFunding(amount)
      PROVE  Conserved'
  <2>1. app \in AppState /\ IsCreated /\ amount \in Nat
    BY <1>1, <1>3, CreatedType DEF OnFunding
  <2>2. app' \in AppState /\ app'.escrow = app.escrow + amount
    BY <1>3, <2>1, FundedFields DEF OnFunding
  <2>3. IsCreated' /\ app.escrow \in Nat
    BY <2>1, <2>2, NoAppAssumption DEF IsCreated, AppState
  <2>4. /\ wallet'[Alice] = wallet[Alice] - amount
        /\ wallet'[Bob] = wallet[Bob]
        /\ wallet[Alice] \in Nat /\ wallet[Bob] \in Nat
    BY <1>1, <1>3 DEF OnFunding, TypeOK, Parties
  <2>5. payouts' = payouts /\ 2 * MinTxnFee * payouts \in Nat
    BY <1>1, <1>3 DEF OnFunding, TypeOK
  <2> QED
    BY <2>1, <2>2, <2>3, <2>4, <2>5 DEF Conserved
<1>4. ASSUME NEW sender \in Parties, NEW call \in Calls,
             OnInitiateChannelClosing(sender, call)
      PROVE  Conserved'
  <2>1. app \in AppState /\ IsCreated /\ round \in Nat
    BY <1>1, <1>4, CreatedType DEF OnInitiateChannelClosing, TypeOK
  <2>2. app' \in AppState /\ app'.escrow = app.escrow
    BY <1>1, <1>4, <2>1, CallType, InitiatedFields DEF OnInitiateChannelClosing
  <2> QED
    BY <1>4, <2>1, <2>2, NoAppAssumption
       DEF OnInitiateChannelClosing, IsCreated, Conserved
<1>5. ASSUME NEW call \in Calls, OnRaiseDispute(call)
      PROVE  Conserved'
  <2>1. app \in AppState /\ IsCreated
    BY <1>1, <1>5, CreatedType DEF OnRaiseDispute
  <2>2. app' \in AppState /\ app'.escrow = app.escrow
    BY <1>1, <1>5, <2>1, CallType, DisputedFields DEF OnRaiseDispute, DisputeTakesEffect
  <2> QED
    BY <1>5, <2>1, <2>2, NoAppAssumption DEF OnRaiseDispute, IsCreated, Conserved
<1>6. ASSUME NEW sender \in Parties, NEW call \in Calls,
             OnCooperativeClose(sender, call)
      PROVE  Conserved'
  <2>1. app \in AppState /\ IsCreated
    BY <1>1, <1>6, CreatedType DEF OnCooperativeClose
  <2>2. WithState(app, call) \in AppState /\ WithState(app, call).escrow = app.escrow
    BY <1>1, <2>1, CallType, WithStateType
  <2> QED
    BY <1>1, <1>6, <2>1, <2>2, PayoutMovesEverything
       DEF OnCooperativeClose, CoopCloseTakesEffect
<1>7. ASSUME OnFinalizeChannelClosing
      PROVE  Conserved'
  <2>1. app \in AppState /\ IsCreated
    BY <1>1, <1>7, CreatedType DEF OnFinalizeChannelClosing
  <2> QED
    BY <1>1, <1>7, <2>1, PayoutMovesEverything
       DEF OnFinalizeChannelClosing, FinalizeTakesEffect
<1>8. ASSUME UNCHANGED <<app, wallet, payouts>>
      PROVE  Conserved'
  BY <1>8 DEF Conserved, IsCreated
<1> QED
  BY <1>2, <1>3, <1>4, <1>5, <1>6, <1>7, <1>8
     DEF Next, OfferState, OfferClose, Accept, NextRound

LEMMA Conservation == Spec => []Conserved
<1>1. Init => Conserved
  BY DEF Init, Conserved, IsCreated, Parties
<1>2. IInv /\ Conserved /\ [Next]_vars => Conserved'
  BY MoneyStep DEF vars, Conserved, IsCreated
<1> QED
  BY Invariance, <1>1, <1>2, PTL DEF Spec

\* A step that leaves Bob's recorded balance and the penalty alone.
LEMMA ShareKept ==
  ASSUME BobsShare, IsCreated, signed \subseteq signed',
         app'.latest_bob_balance = app.latest_bob_balance,
         app'.penalty_reserve = app.penalty_reserve
  PROVE  BobsShare'
<1>1. ASSUME NEW c \in AllCommitments, GivesBob(app, c)
      PROVE  GivesBob(app, c)'
  BY <1>1 DEF GivesBob, Cosigned
<1> QED
  BY <1>1 DEF BobsShare

\* A step that records what a call carries.
LEMMA ShareOfCall ==
  ASSUME TypeOK, IsCreated, signed \subseteq signed', NEW call \in Calls, NEW tag,
         BothSigned(app, tag, call),
         app'.penalty_reserve = app.penalty_reserve,
         app'.latest_bob_balance - call.bob_balance
           \in {0, app.penalty_reserve, -app.penalty_reserve}
  PROVE  BobsShare'
<1>1. PICK c \in AllCommitments : Cosigned(c) /\ c.bob_balance = call.bob_balance
  BY SignedCall
<1>2. GivesBob(app, c)'
  BY <1>1 DEF GivesBob, Cosigned
<1> QED
  BY <1>2 DEF BobsShare

LEMMA ShareStep ==
  ASSUME IInv, BobsShare, Next
  PROVE  BobsShare'
<1>1. TypeOK /\ signed \subseteq signed'
  BY NothingTakenBack DEF IInv
<1>2. ASSUME NEW penalty \in Penalties, NEW window \in Windows,
             OnCreate(penalty, window)
      PROVE  BobsShare'
  <2>1. app'.latest_bob_balance = 0
    BY <1>2 DEF OnCreate, Created
  <2> QED
    BY <2>1 DEF BobsShare
<1>3. ASSUME NEW amount \in Deposits, OnFunding(amount)
      PROVE  BobsShare'
  <2>1. app \in AppState /\ IsCreated
    BY <1>1, <1>3, CreatedType DEF OnFunding
  <2>2. /\ app'.latest_bob_balance = app.latest_bob_balance
        /\ app'.penalty_reserve = app.penalty_reserve
    BY <1>3, <2>1 DEF OnFunding, Funded, AppState
  <2> QED
    BY <1>1, <2>1, <2>2, ShareKept
<1>4. ASSUME NEW sender \in Parties, NEW call \in Calls,
             OnInitiateChannelClosing(sender, call)
      PROVE  BobsShare'
  <2>1. app \in AppState /\ IsCreated /\ round \in Nat
    BY <1>1, <1>4, CreatedType DEF OnInitiateChannelClosing, TypeOK
  <2>2. BothSigned(app, STATE_UPDATE, call) /\ app' = Initiated(app, sender, call, round)
    BY <1>4 DEF OnInitiateChannelClosing, InitiateTakesEffect
  <2>3. call.alice_balance \in Nat /\ call.bob_balance \in Nat /\ call.timestamp \in Nat
    BY <1>1, CallType
  <2>4. app'.latest_bob_balance = call.bob_balance
    BY <2>1, <2>2, <2>3, InitiatedFields
  <2>5. app'.penalty_reserve = app.penalty_reserve
    BY <2>1, <2>2 DEF Initiated, WithState, AppState
  <2> QED
    BY <1>1, <2>1, <2>2, <2>3, <2>4, <2>5, ShareOfCall
<1>5. ASSUME NEW call \in Calls, OnRaiseDispute(call)
      PROVE  BobsShare'
  <2>1. app \in AppState /\ IsCreated
    BY <1>1, <1>5, CreatedType DEF OnRaiseDispute
  <2>2. BothSigned(app, CLOSE_CHANNEL, call) /\ app' = Rebalanced(WithState(app, call))
    BY <1>5 DEF OnRaiseDispute, DisputeTakesEffect, Disputed
  <2>3. call.alice_balance \in Nat /\ call.bob_balance \in Nat /\ call.timestamp \in Nat
    BY <1>1, CallType
  <2>4. PICK a : a = WithState(app, call)
    OBVIOUS
  <2>5. /\ a \in AppState /\ a.penalty_reserve = app.penalty_reserve
        /\ a.latest_bob_balance = call.bob_balance
    BY <2>1, <2>3, <2>4 DEF WithState, AppState
  <2>6. PICK toBob \in {a.penalty_reserve, -a.penalty_reserve} :
          app' = [a EXCEPT !.latest_alice_balance = a.latest_alice_balance - toBob,
                           !.latest_bob_balance = a.latest_bob_balance + toBob]
    BY <2>2, <2>4 DEF Rebalanced
  <2>7. /\ app'.latest_bob_balance = call.bob_balance + toBob
        /\ app'.penalty_reserve = app.penalty_reserve
    BY <2>5, <2>6 DEF AppState
  <2>8. app.penalty_reserve \in Nat
    BY <2>1 DEF AppState
  <2>9. app'.latest_bob_balance - call.bob_balance = toBob
    BY <2>3, <2>5, <2>6, <2>7, <2>8
  <2> QED
    BY <1>1, <2>1, <2>2, <2>5, <2>6, <2>7, <2>9, ShareOfCall
<1>6. ASSUME NEW sender \in Parties, NEW call \in Calls,
             OnCooperativeClose(sender, call)
      PROVE  BobsShare'
  <2>1. app \in AppState /\ IsCreated
    BY <1>1, <1>6, CreatedType DEF OnCooperativeClose
  <2>2. BothSigned(app, CLOSE_CHANNEL, call) /\ app' = PaidOut(WithState(app, call))
    BY <1>6 DEF OnCooperativeClose, CoopCloseTakesEffect, CloseAccount
  <2>3. call.alice_balance \in Nat /\ call.bob_balance \in Nat /\ call.timestamp \in Nat
    BY <1>1, CallType
  <2>4. /\ WithState(app, call) \in AppState
        /\ WithState(app, call).penalty_reserve = app.penalty_reserve
        /\ WithState(app, call).latest_bob_balance = call.bob_balance
    BY <2>1, <2>3 DEF WithState, AppState
  <2>5. /\ app'.latest_bob_balance = call.bob_balance
        /\ app'.penalty_reserve = app.penalty_reserve
    BY <2>2, <2>4, PaidOutFields
  <2> QED
    BY <1>1, <2>1, <2>2, <2>3, <2>5, ShareOfCall
<1>7. ASSUME OnFinalizeChannelClosing
      PROVE  BobsShare'
  <2>1. app \in AppState /\ IsCreated /\ app' = PaidOut(app)
    BY <1>1, <1>7, CreatedType DEF OnFinalizeChannelClosing, CloseAccount
  <2> QED
    BY <1>1, <2>1, PaidOutFields, ShareKept
<1>8. ASSUME UNCHANGED app
      PROVE  BobsShare'
  BY <1>1, <1>8, ShareKept DEF BobsShare, IsCreated
<1> QED
  BY <1>2, <1>3, <1>4, <1>5, <1>6, <1>7, <1>8
     DEF Next, OfferState, OfferClose, Accept, NextRound

LEMMA ShareInvariance == Spec => []BobsShare
<1>1. Init => BobsShare
  BY DEF Init, BobsShare, IsCreated
<1>2. IInv /\ BobsShare /\ [Next]_vars => BobsShare'
  <2>1. ASSUME BobsShare, UNCHANGED vars
        PROVE  BobsShare'
    BY <2>1, ShareKept DEF vars, BobsShare, IsCreated
  <2> QED
    BY <2>1, ShareStep
<1> QED
  BY Invariance, <1>1, <1>2, PTL DEF Spec

\* What a payout does to the wallets.
SurplusGoesBack ==
  /\ wallet'[Alice] + wallet'[Bob] = AliceFunds - 2 * MinTxnFee * payouts'
  /\ \E c \in AllCommitments :
       /\ Cosigned(c)
       /\ wallet'[Bob] - wallet[Bob] + MinTxnFee - c.bob_balance \in
            {0, app.penalty_reserve, -app.penalty_reserve}

LEMMA PayoutSharesOut ==
  ASSUME TypeOK, Conserved, Conserved', IsCreated, NEW a \in AppState, CloseAccount(a),
         a.penalty_reserve = app.penalty_reserve, payouts' \in Nat,
         NEW c \in AllCommitments, GivesBob(a, c)
  PROVE  SurplusGoesBack
<1>1. /\ wallet'[Alice] = wallet[Alice] + AliceReceives(a)
      /\ wallet'[Bob] = wallet[Bob] + BobReceives(a)
      /\ wallet[Alice] \in Nat /\ wallet[Bob] \in Nat
  BY DEF CloseAccount, TypeOK, Parties
<1>2. a.latest_bob_balance \in Nat /\ a.escrow \in Nat /\ c.bob_balance \in Nat
  BY CommitmentParts DEF AppState
<1>3. wallet'[Bob] - wallet[Bob] + MinTxnFee - c.bob_balance
        = a.latest_bob_balance - c.bob_balance
  BY <1>1, <1>2 DEF BobReceives
<1>4. /\ Cosigned(c)
      /\ wallet'[Bob] - wallet[Bob] + MinTxnFee - c.bob_balance \in
           {0, app.penalty_reserve, -app.penalty_reserve}
  BY <1>3 DEF GivesBob
<1>5. wallet'[Alice] + wallet'[Bob] + 0 + 2 * MinTxnFee * payouts' = AliceFunds
  <2>1. (IF IsCreated THEN app.escrow ELSE 0)' = 0
    BY PaidOutFields DEF CloseAccount
  <2> QED
    BY <2>1 DEF Conserved
<1>6. wallet'[Alice] \in Int /\ wallet'[Bob] \in Int
  BY <1>1, <1>2 DEF AliceReceives, BobReceives
<1>7. PICK fees : fees = 2 * MinTxnFee * payouts'
  OBVIOUS
<1>8. fees \in Nat
  <2>1. \A x, y \in Nat : 2 * x * y \in Nat
    OBVIOUS
  <2> QED
    BY <1>7, <2>1
<1>9. wallet'[Alice] + wallet'[Bob] = AliceFunds - fees
  BY <1>5, <1>6, <1>7, <1>8
<1> QED
  BY <1>4, <1>7, <1>9 DEF SurplusGoesBack

\* However often Alice funds the contract, a payout leaves none of it behind:
\* Bob gets his part of a state both signed, give or take one penalty, and Alice
\* all the rest (closeAccountTo 27-50).
THEOREM SurplusReturns == Spec => SurplusIsAlices
<1>1. ASSUME IInv, Conserved, Conserved', IInv', BobsShare, [Next]_vars, payouts' > payouts
      PROVE  SurplusGoesBack
  <2>1. TypeOK /\ payouts' \in Nat /\ payouts \in Nat
    BY <1>1 DEF IInv, TypeOK
  <2>2. ASSUME NEW sender \in Parties, NEW call \in Calls,
               OnCooperativeClose(sender, call)
        PROVE  SurplusGoesBack
    <3>1. app \in AppState /\ IsCreated
      BY <2>1, <2>2, CreatedType DEF OnCooperativeClose
    <3>2. BothSigned(app, CLOSE_CHANNEL, call) /\ CloseAccount(WithState(app, call))
      BY <2>2 DEF OnCooperativeClose, CoopCloseTakesEffect
    <3>3. call.alice_balance \in Nat /\ call.bob_balance \in Nat /\ call.timestamp \in Nat
      BY <2>1, CallType
    <3>4. PICK a : a = WithState(app, call)
      OBVIOUS
    <3>5. /\ a \in AppState /\ a.penalty_reserve = app.penalty_reserve
          /\ a.latest_bob_balance = call.bob_balance
      BY <3>1, <3>3, <3>4 DEF WithState, AppState
    <3>6. PICK c \in AllCommitments : Cosigned(c) /\ c.bob_balance = call.bob_balance
      BY <2>1, <3>1, <3>2, SignedCall
    <3>7. GivesBob(a, c)
      BY <3>3, <3>5, <3>6 DEF GivesBob
    <3> QED
      BY <1>1, <2>1, <3>1, <3>2, <3>4, <3>5, <3>7, PayoutSharesOut
  <2>3. ASSUME OnFinalizeChannelClosing
        PROVE  SurplusGoesBack
    <3>1. app \in AppState /\ IsCreated /\ CanPayOut(app) /\ CloseAccount(app)
      BY <2>1, <2>3, CreatedType DEF OnFinalizeChannelClosing, FinalizeTakesEffect
    <3>2. app.latest_bob_balance # 0
      BY <3>1, PayoutType DEF AppState
    <3>3. PICK c \in AllCommitments : GivesBob(app, c)
      BY <1>1, <3>1, <3>2 DEF BobsShare
    <3> QED
      BY <1>1, <2>1, <3>1, <3>3, PayoutSharesOut
  <2>4. ASSUME UNCHANGED payouts
        PROVE  FALSE
    BY <1>1, <2>1, <2>4
  <2> QED
    BY <1>1, <2>2, <2>3, <2>4
       DEF Next, OnCreate, OnFunding, OfferState, OfferClose, Accept,
           OnInitiateChannelClosing, OnRaiseDispute, NextRound, vars
<1>2. IInv /\ Conserved /\ Conserved' /\ IInv' /\ BobsShare /\ [Next]_vars
        => [payouts' > payouts => SurplusGoesBack]_vars
  BY <1>1
<1> QED
  BY Invariance, Conservation, ShareInvariance, <1>2, PTL
     DEF Spec, SurplusIsAlices, SurplusGoesBack

-----------------------------------------------------------------------------
(* When the contract pays.  While timeout is 0 only a cooperative close    *)
(* can have given Bob anything that a finalization could pay again; from   *)
(* then on timeout is the end of the window of the last initiation.        *)
SignedClose(bob) ==
  \E c \in AllCommitments :
    c.tag = CLOSE_CHANNEL /\ Cosigned(c) /\ c.bob_balance = bob

Window ==
  IsCreated =>
    /\ app.timeout # 0 =>
         initiatedAt # 0 /\ app.timeout = initiatedAt + app.dispute_window
    /\ app.closing_initiator # "none" => app.timeout # 0
    /\ (app.timeout = 0 /\ app.latest_bob_balance # 0)
         => SignedClose(app.latest_bob_balance)

LEMMA SignedCloseStays ==
  ASSUME NEW bob, SignedClose(bob), signed \subseteq signed'
  PROVE  SignedClose(bob)'
  BY DEF SignedClose, Cosigned

LEMMA WindowStep ==
  ASSUME IInv, Window, Next
  PROVE  Window'
<1>1. TypeOK /\ signed \subseteq signed'
  BY NothingTakenBack DEF IInv
<1>2. ASSUME NEW penalty \in Penalties, NEW window \in Windows,
             OnCreate(penalty, window)
      PROVE  Window'
  <2>1. /\ app'.timeout = 0 /\ app'.closing_initiator = "none"
        /\ app'.latest_bob_balance = 0
    BY <1>2 DEF OnCreate, Created
  <2> QED
    BY <2>1 DEF Window
<1>3. ASSUME NEW amount \in Deposits, OnFunding(amount)
      PROVE  Window'
  <2>1. app \in AppState /\ IsCreated /\ amount \in Nat
    BY <1>1, <1>3, CreatedType DEF OnFunding
  <2>2. /\ app'.latest_bob_balance = app.latest_bob_balance
        /\ app'.timeout = app.timeout
        /\ app'.closing_initiator = app.closing_initiator
        /\ app'.dispute_window = app.dispute_window
    BY <1>3, <2>1, FundedFields DEF OnFunding
  <2>3. initiatedAt' = initiatedAt
    BY <1>3 DEF OnFunding
  <2> QED
    BY <1>1, <2>1, <2>2, <2>3, SignedCloseStays DEF Window
<1>4. ASSUME NEW sender \in Parties, NEW call \in Calls,
             OnInitiateChannelClosing(sender, call)
      PROVE  Window'
  <2>1. app \in AppState /\ IsCreated /\ round \in 1..MaxRound
    BY <1>1, <1>4, CreatedType DEF OnInitiateChannelClosing, TypeOK
  <2>2. round \in Nat /\ round # 0 /\ app.dispute_window \in Nat
    <3>1. app.dispute_window \in Nat
      BY <2>1 DEF AppState
    <3> QED
      BY <2>1, <3>1
  <2>3. /\ app'.timeout = round + app.dispute_window
        /\ app'.dispute_window = app.dispute_window
    BY <1>1, <1>4, <2>1, <2>2, CallType, InitiatedFields DEF OnInitiateChannelClosing
  <2>4. initiatedAt' = round
    BY <1>4 DEF OnInitiateChannelClosing
  <2>5. app'.timeout # 0
    BY <2>2, <2>3
  <2> QED
    BY <2>2, <2>3, <2>4, <2>5 DEF Window
<1>5. ASSUME NEW call \in Calls, OnRaiseDispute(call)
      PROVE  Window'
  <2>1. /\ app \in AppState /\ IsCreated
        /\ app.closing_initiator # "none"
    BY <1>1, <1>5, CreatedType DEF OnRaiseDispute, DisputeTakesEffect
  <2>2. /\ app'.timeout = app.timeout
        /\ app'.closing_initiator = app.closing_initiator
        /\ app'.dispute_window = app.dispute_window
    BY <1>1, <1>5, <2>1, CallType, DisputedFields DEF OnRaiseDispute, DisputeTakesEffect
  <2>3. initiatedAt' = initiatedAt
    BY <1>5 DEF OnRaiseDispute
  <2> QED
    BY <2>1, <2>2, <2>3 DEF Window
<1>6. ASSUME NEW sender \in Parties, NEW call \in Calls,
             OnCooperativeClose(sender, call)
      PROVE  Window'
  <2>1. app \in AppState /\ IsCreated
    BY <1>1, <1>6, CreatedType DEF OnCooperativeClose
  <2> DEFINE a == WithState(app, call)
  <2>2. /\ a \in AppState
        /\ a.timeout = app.timeout
        /\ a.closing_initiator = app.closing_initiator
        /\ a.latest_bob_balance = call.bob_balance
    BY <1>1, <2>1, CallType, WithStateType, WithStateFields
  <2>3. app' = PaidOut(a) /\ app.timeout = 0 /\ initiatedAt' = initiatedAt
    BY <1>6 DEF OnCooperativeClose, CoopCloseTakesEffect, CloseAccount
  <2> HIDE DEF a
  <2>4. /\ app'.timeout = 0
        /\ app'.closing_initiator = app.closing_initiator
        /\ app'.latest_bob_balance = call.bob_balance
    BY <2>2, <2>3, PaidOutFields
  <2>5. SignedClose(call.bob_balance)
    BY <1>1, <1>6, <2>1, SignedCall
       DEF OnCooperativeClose, CoopCloseTakesEffect, SignedClose
  <2>6. SignedClose(call.bob_balance)'
    BY <1>1, <2>5 DEF SignedClose, Cosigned
  <2> QED
    BY <2>1, <2>3, <2>4, <2>6 DEF Window
<1>7. ASSUME OnFinalizeChannelClosing
      PROVE  Window'
  <2>1. app \in AppState /\ IsCreated
    BY <1>1, <1>7, CreatedType DEF OnFinalizeChannelClosing
  <2>2. app' = PaidOut(app) /\ initiatedAt' = initiatedAt
    BY <1>7 DEF OnFinalizeChannelClosing, CloseAccount
  <2>3. /\ app'.timeout = app.timeout
        /\ app'.closing_initiator = app.closing_initiator
        /\ app'.dispute_window = app.dispute_window
        /\ app'.latest_bob_balance = app.latest_bob_balance
    BY <2>1, <2>2, PaidOutFields
  <2> QED
    BY <1>1, <2>1, <2>2, <2>3, SignedCloseStays DEF Window
<1>8. ASSUME UNCHANGED <<app, initiatedAt>>
      PROVE  Window'
  BY <1>1, <1>8, SignedCloseStays DEF Window, IsCreated
<1> QED
  BY <1>2, <1>3, <1>4, <1>5, <1>6, <1>7, <1>8
     DEF Next, OfferState, OfferClose, Accept, NextRound

LEMMA WindowInvariance == Spec => []Window
<1>1. Init => Window
  BY DEF Init, Window, IsCreated
<1>2. IInv /\ Window /\ [Next]_vars => Window'
  <2>1. ASSUME Window, UNCHANGED vars PROVE Window'
    <3>1. signed \subseteq signed' /\ UNCHANGED <<app, initiatedAt>>
      BY <2>1 DEF vars
    <3> QED
      BY <2>1, <3>1, SignedCloseStays DEF Window, IsCreated
  <2> QED
    BY <2>1, WindowStep
<1> QED
  BY Invariance, <1>1, <1>2, PTL DEF Spec

\* A payout is a cooperative one, or the window of the last initiation is over.
THEOREM PayoutComesWhenDue == Spec => PayoutIsDue
<1> DEFINE Due ==
      \/ app.timeout = 0 /\ \E c \in AllCommitments :
           /\ c.tag = CLOSE_CHANNEL /\ Cosigned(c)
           /\ c.bob_balance = wallet'[Bob] - wallet[Bob] + MinTxnFee
      \/ initiatedAt # 0 /\ round > initiatedAt + app.dispute_window
<1>1. ASSUME IInv, Window, Next, payouts' > payouts
      PROVE  Due
  <2>1. TypeOK /\ payouts \in Nat
    BY <1>1 DEF IInv, TypeOK
  <2>2. ASSUME NEW a \in AppState, CloseAccount(a)
        PROVE  wallet'[Bob] - wallet[Bob] + MinTxnFee = a.latest_bob_balance
    <3>1. a.latest_bob_balance \in Nat /\ wallet[Bob] \in Nat
      BY <2>1 DEF AppState, TypeOK, Parties
    <3>2. wallet'[Bob] = wallet[Bob] + (a.latest_bob_balance - MinTxnFee)
      BY <2>1, <2>2 DEF CloseAccount, BobReceives, TypeOK, Parties
    <3> QED
      BY <3>1, <3>2
  <2>3. ASSUME NEW sender \in Parties, NEW call \in Calls,
               OnCooperativeClose(sender, call)
        PROVE  Due
    <3>1. app \in AppState /\ IsCreated
      BY <2>1, <2>3, CreatedType DEF OnCooperativeClose
    <3>2. /\ WithState(app, call) \in AppState
          /\ WithState(app, call).latest_bob_balance = call.bob_balance
      BY <2>1, <3>1, CallType, WithStateType
    <3>3. /\ CloseAccount(WithState(app, call)) /\ app.timeout = 0
          /\ BothSigned(app, CLOSE_CHANNEL, call)
      BY <2>3 DEF OnCooperativeClose, CoopCloseTakesEffect
    <3>4. wallet'[Bob] - wallet[Bob] + MinTxnFee = call.bob_balance
      BY <2>2, <3>2, <3>3
    <3>5. PICK c \in AllCommitments :
            c.tag = CLOSE_CHANNEL /\ Cosigned(c) /\ c.bob_balance = call.bob_balance
      BY <2>1, <3>1, <3>3, SignedCall
    <3> QED
      BY <3>3, <3>4, <3>5
  <2>4. ASSUME OnFinalizeChannelClosing
        PROVE  Due
    <3>1. app \in AppState /\ IsCreated
      BY <2>1, <2>4, CreatedType DEF OnFinalizeChannelClosing
    <3>2. CloseAccount(app) /\ round > app.timeout /\ CanPayOut(app)
      BY <2>4 DEF OnFinalizeChannelClosing, FinalizeTakesEffect
    <3>3. CASE app.timeout = 0
      <4>1. app.latest_bob_balance # 0
        BY <3>1, <3>2, PayoutType
      <4>2. SignedClose(app.latest_bob_balance)
        BY <1>1, <3>1, <3>3, <4>1 DEF Window
      <4>3. wallet'[Bob] - wallet[Bob] + MinTxnFee = app.latest_bob_balance
        BY <2>2, <3>1, <3>2
      <4> QED
        BY <3>3, <4>2, <4>3 DEF SignedClose
    <3>4. CASE app.timeout # 0
      BY <1>1, <3>1, <3>2, <3>4 DEF Window
    <3> QED
      BY <3>3, <3>4
  <2>5. ASSUME payouts' = payouts
        PROVE  Due
    BY <1>1, <2>1, <2>5
  <2> QED
    BY <1>1, <2>3, <2>4, <2>5
       DEF Next, OnCreate, OnFunding, OfferState, OfferClose, Accept,
       OnInitiateChannelClosing, OnRaiseDispute, NextRound
<1>2. IInv /\ Window /\ [Next]_vars => [payouts' > payouts => Due]_vars
  BY <1>1
<1> QED
  BY Invariance, WindowInvariance, <1>2, PTL DEF Spec, PayoutIsDue

-----------------------------------------------------------------------------
(* What the contract records.  Funding sets Alice's balance and nothing    *)
(* else, so a second one after a state has been recorded would make a      *)
(* split nobody signed; a node funds an application once, right after it   *)
(* has created it (OpenChannel, rpcserver.go 103-116).                     *)
FundedFirst ==
  [][(IsCreated /\ app.latest_timestamp # 0) => app'.escrow <= app.escrow]_vars

\* What SplitAuthorised says the contract may have recorded with a commitment.
Records(a, c) ==
  /\ c.timestamp = a.latest_timestamp
  /\ \/ /\ a.latest_alice_balance = c.alice_balance
        /\ a.latest_bob_balance = c.bob_balance
     \/ /\ c.tag = CLOSE_CHANNEL
        /\ LET toBob == IF a.closing_initiator = "alice" THEN a.penalty_reserve
                                                         ELSE -a.penalty_reserve
           IN  /\ a.latest_alice_balance = c.alice_balance - toBob
               /\ a.latest_bob_balance = c.bob_balance + toBob

SumOf(c) == c.alice_balance + c.bob_balance

Authorised ==
  IsCreated =>
    IF app.latest_timestamp = 0
    THEN app.latest_bob_balance = 0
    ELSE \E c \in AllCommitments :
           Cosigned(c) /\ Records(app, c) /\ SumOf(c) = app.total_deposit

LEMMA AuthorisedIsSplitAuthorised ==
  ASSUME TypeOK, Authorised
  PROVE  SplitAuthorised
<1> SUFFICES ASSUME IsCreated, app.latest_timestamp # 0
             PROVE  \E c \in AllCommitments :
                      /\ Cosigned(c)
                      /\ c.timestamp = app.latest_timestamp
                      /\ <<app.latest_alice_balance, app.latest_bob_balance>> \in
                           {<<c.alice_balance, c.bob_balance>>} \cup
                           (IF c.tag = CLOSE_CHANNEL
                              THEN {Penalized(c, app.closing_initiator)} ELSE {})
  BY DEF SplitAuthorised
<1>1. PICK c \in AllCommitments : Cosigned(c) /\ Records(app, c)
  BY DEF Authorised
<1>2. /\ c.alice_balance \in Nat /\ c.bob_balance \in Nat
      /\ app.penalty_reserve \in Nat
  <2>1. app \in AppState
    BY CreatedType
  <2>2. app.penalty_reserve \in Nat
    BY <2>1 DEF AppState
  <2> QED
    BY <2>2, CommitmentParts
<1>3. \/ <<app.latest_alice_balance, app.latest_bob_balance>>
           = <<c.alice_balance, c.bob_balance>>
      \/ /\ c.tag = CLOSE_CHANNEL
         /\ <<app.latest_alice_balance, app.latest_bob_balance>>
              = Penalized(c, app.closing_initiator)
  <2>1. CASE app.closing_initiator = "alice"
    BY <1>1, <1>2, <2>1 DEF Records, Penalized
  <2>2. CASE app.closing_initiator # "alice"
    BY <1>1, <1>2, <2>2 DEF Records, Penalized
  <2> QED
    BY <2>1, <2>2
<1>4. c.timestamp = app.latest_timestamp
  BY <1>1 DEF Records
<1> QED
  BY <1>1, <1>3, <1>4

\* A recorded state of which only what Records does not look at has changed.
LEMMA RecordsKept ==
  ASSUME Authorised, signed \subseteq signed', IsCreated,
         app'.latest_timestamp = app.latest_timestamp,
         app'.latest_alice_balance = app.latest_alice_balance,
         app'.latest_bob_balance = app.latest_bob_balance,
         app'.total_deposit = app.total_deposit,
         app'.closing_initiator = app.closing_initiator,
         app'.penalty_reserve = app.penalty_reserve
  PROVE  Authorised'
<1>1. ASSUME app.latest_timestamp # 0
      PROVE  \E c \in AllCommitments :
               Cosigned(c)' /\ Records(app', c) /\ SumOf(c) = app'.total_deposit
  <2>1. PICK c \in AllCommitments :
          Cosigned(c) /\ Records(app, c) /\ SumOf(c) = app.total_deposit
    BY <1>1 DEF Authorised
  <2>2. Cosigned(c)'
    BY <2>1 DEF Cosigned
  <2>3. Records(app', c)
    BY <2>1 DEF Records
  <2> QED
    BY <2>1, <2>2, <2>3
<1> QED
  BY <1>1 DEF Authorised

LEMMA RecordStep ==
  ASSUME IInv, Authorised, Next,
         (IsCreated /\ app.latest_timestamp # 0) => app'.escrow <= app.escrow
  PROVE  Authorised'
<1>1. TypeOK /\ signed \subseteq signed'
  BY NothingTakenBack DEF IInv
<1>2. ASSUME NEW c \in AllCommitments, Cosigned(c), Records(app', c),
             SumOf(c) = app'.total_deposit
      PROVE  Authorised'
  <2>1. Cosigned(c)'
    BY <1>1, <1>2 DEF Cosigned
  <2>2. app'.latest_timestamp # 0
    <3>1. c.timestamp \in 1..MaxTimestamp
      BY CommitmentParts
    <3>2. c.timestamp # 0
      BY <3>1
    <3> QED
      BY <1>2, <3>2 DEF Records
  <2> QED
    BY <1>2, <2>1, <2>2 DEF Authorised
<1>3. ASSUME NEW penalty \in Penalties, NEW window \in Windows,
             OnCreate(penalty, window)
      PROVE  Authorised'
  <2>1. app'.latest_timestamp = 0 /\ app'.latest_bob_balance = 0
    BY <1>3 DEF OnCreate, Created
  <2> QED
    BY <2>1 DEF Authorised
<1>4. ASSUME NEW amount \in Deposits, OnFunding(amount)
      PROVE  Authorised'
  <2>1. app \in AppState /\ IsCreated /\ amount \in Nat
    BY <1>1, <1>4, CreatedType DEF OnFunding
  <2>2. app'.escrow = app.escrow + amount /\ app.escrow \in Nat
    BY <1>4, <2>1, FundedFields DEF OnFunding, AppState
  <2>3. amount > 0
    <3>1. app.alice_address = Alice /\ app.penalty_reserve \in Nat
      BY <2>1 DEF AppState
    <3> QED
      BY <1>4, <2>1, <3>1 DEF OnFunding, FundTakesEffect
  <2>4. app.latest_timestamp = 0
    BY <2>1, <2>2, <2>3
  <2>5. /\ app'.latest_timestamp = app.latest_timestamp
        /\ app'.latest_bob_balance = app.latest_bob_balance
    BY <1>4, <2>1 DEF OnFunding, Funded, AppState
  <2> QED
    BY <2>1, <2>4, <2>5 DEF Authorised
<1>5. ASSUME NEW sender \in Parties, NEW call \in Calls,
             OnInitiateChannelClosing(sender, call)
      PROVE  Authorised'
  <2>1. app \in AppState /\ IsCreated /\ round \in Nat
    BY <1>1, <1>5, CreatedType DEF OnInitiateChannelClosing, TypeOK
  <2>2. /\ app'.latest_alice_balance = call.alice_balance
        /\ app'.latest_bob_balance = call.bob_balance
        /\ app'.latest_timestamp = call.timestamp
        /\ app'.total_deposit = app.total_deposit
    BY <1>1, <1>5, <2>1, CallType, InitiatedFields DEF OnInitiateChannelClosing
  <2>3. PICK c \in AllCommitments :
          /\ Cosigned(c)
          /\ c.alice_balance = call.alice_balance
          /\ c.bob_balance = call.bob_balance
          /\ c.timestamp = call.timestamp
    BY <1>1, <1>5, <2>1, SignedCall DEF OnInitiateChannelClosing, InitiateTakesEffect
  <2>4. call.alice_balance + call.bob_balance = app.total_deposit
    BY <1>5 DEF OnInitiateChannelClosing, InitiateTakesEffect, SumsToDeposit
  <2> QED
    BY <1>2, <2>2, <2>3, <2>4 DEF Records, SumOf
<1>6. ASSUME NEW call \in Calls, OnRaiseDispute(call)
      PROVE  Authorised'
  <2>1. app \in AppState /\ IsCreated
    BY <1>1, <1>6, CreatedType DEF OnRaiseDispute
  <2>2. /\ app'.closing_initiator = app.closing_initiator
        /\ app'.penalty_reserve = app.penalty_reserve
        /\ app'.latest_timestamp = call.timestamp
        /\ app'.total_deposit = app.total_deposit
    BY <1>1, <1>6, <2>1, CallType, DisputedFields DEF OnRaiseDispute, DisputeTakesEffect
  <2> DEFINE toBob == IF app.closing_initiator = "alice" THEN app.penalty_reserve
                                                         ELSE -app.penalty_reserve
  <2>3. /\ app'.latest_alice_balance = call.alice_balance - toBob
        /\ app'.latest_bob_balance = call.bob_balance + toBob
    <3> DEFINE a == WithState(app, call)
    <3>1. /\ a \in AppState
          /\ a.closing_initiator = app.closing_initiator
          /\ a.penalty_reserve = app.penalty_reserve
          /\ a.latest_alice_balance = call.alice_balance
          /\ a.latest_bob_balance = call.bob_balance
      BY <1>1, <2>1, CallType, WithStateType
    <3>2. app' = Rebalanced(a)
      BY <1>6 DEF OnRaiseDispute, Disputed
    <3> HIDE DEF a
    <3>3. app' = [a EXCEPT !.latest_alice_balance = a.latest_alice_balance - toBob,
                           !.latest_bob_balance = a.latest_bob_balance + toBob]
      BY <3>1, <3>2 DEF Rebalanced
    <3> HIDE DEF toBob
    <3> QED
      BY <3>1, <3>3 DEF AppState
  <2>4. PICK c \in AllCommitments :
          /\ Cosigned(c) /\ c.tag = CLOSE_CHANNEL
          /\ c.alice_balance = call.alice_balance
          /\ c.bob_balance = call.bob_balance
          /\ c.timestamp = call.timestamp
    BY <1>1, <1>6, <2>1, SignedCall DEF OnRaiseDispute, DisputeTakesEffect
  <2>5. Records(app', c)
    BY <2>2, <2>3, <2>4 DEF Records
  <2>6. call.alice_balance + call.bob_balance = app.total_deposit
    BY <1>6 DEF OnRaiseDispute, DisputeTakesEffect, SumsToDeposit
  <2> QED
    BY <1>2, <2>2, <2>4, <2>5, <2>6 DEF SumOf
<1>7. ASSUME NEW sender \in Parties, NEW call \in Calls,
             OnCooperativeClose(sender, call)
      PROVE  Authorised'
  <2>1. app \in AppState /\ IsCreated
    BY <1>1, <1>7, CreatedType DEF OnCooperativeClose
  <2> DEFINE a == WithState(app, call)
  <2>2. /\ a \in AppState
        /\ a.latest_alice_balance = call.alice_balance
        /\ a.latest_bob_balance = call.bob_balance
        /\ a.latest_timestamp = call.timestamp
        /\ a.total_deposit = app.total_deposit
    BY <1>1, <2>1, CallType, WithStateType, WithStateFields
  <2>3. app' = PaidOut(a)
    BY <1>7 DEF OnCooperativeClose, CloseAccount
  <2> HIDE DEF a
  <2>4. /\ app'.latest_alice_balance = call.alice_balance
        /\ app'.latest_bob_balance = call.bob_balance
        /\ app'.latest_timestamp = call.timestamp
        /\ app'.total_deposit = app.total_deposit
    BY <2>2, <2>3, PaidOutFields
  <2>5. PICK c \in AllCommitments :
          /\ Cosigned(c)
          /\ c.alice_balance = call.alice_balance
          /\ c.bob_balance = call.bob_balance
          /\ c.timestamp = call.timestamp
    BY <1>1, <1>7, <2>1, SignedCall DEF OnCooperativeClose, CoopCloseTakesEffect
  <2>6. call.alice_balance + call.bob_balance = app.total_deposit
    BY <1>7 DEF OnCooperativeClose, CoopCloseTakesEffect, SumsToDeposit
  <2> QED
    BY <1>2, <2>4, <2>5, <2>6 DEF Records, SumOf
<1>8. ASSUME OnFinalizeChannelClosing
      PROVE  Authorised'
  <2>1. app \in AppState /\ IsCreated
    BY <1>1, <1>8, CreatedType DEF OnFinalizeChannelClosing
  <2>2. app' = PaidOut(app)
    BY <1>8 DEF OnFinalizeChannelClosing, CloseAccount
  <2> QED
    BY <1>1, <2>1, <2>2, PaidOutFields, RecordsKept
<1>9. ASSUME UNCHANGED app
      PROVE  Authorised'
  <2>1. CASE IsCreated
    BY <1>1, <1>9, <2>1, RecordsKept
  <2>2. CASE ~IsCreated
    BY <1>9, <2>2 DEF Authorised, IsCreated
  <2> QED
    BY <2>1, <2>2
<1> QED
  BY <1>3, <1>4, <1>5, <1>6, <1>7, <1>8, <1>9
     DEF Next, OfferState, OfferClose, Accept, NextRound

LEMMA RecordInvariance == Spec /\ FundedFirst => []Authorised
<1> DEFINE NoLateFunding ==
      (IsCreated /\ app.latest_timestamp # 0) => app'.escrow <= app.escrow
<1>1. Init => Authorised
  BY DEF Init, Authorised, IsCreated
<1>2. IInv /\ Authorised /\ [Next]_vars /\ [NoLateFunding]_vars => Authorised'
  <2>1. ASSUME Authorised, UNCHANGED vars PROVE Authorised'
    <3>1. signed \subseteq signed' /\ UNCHANGED app
      BY <2>1 DEF vars
    <3>2. CASE IsCreated
      BY <2>1, <3>1, <3>2, RecordsKept
    <3>3. CASE ~IsCreated
      BY <3>1, <3>3 DEF Authorised, IsCreated
    <3> QED
      BY <3>2, <3>3
  <2>2. ASSUME IInv, Authorised, Next, NoLateFunding PROVE Authorised'
    BY <2>2, RecordStep
  <2> QED
    BY <2>1, <2>2
<1> QED
  BY Invariance, <1>1, <1>2, PTL DEF Spec, FundedFirst

\* What is recorded on chain is a split both parties signed, or such a split
\* after exactly one penalty, when funding is over before states are recorded.
THEOREM RecordedSplitIsSigned == Spec /\ FundedFirst => []SplitAuthorised
<1>1. TypeOK /\ Authorised => SplitAuthorised
  BY AuthorisedIsSplitAuthorised
<1> QED
  BY TypeCorrect, RecordInvariance, <1>1, PTL

-----------------------------------------------------------------------------
(* The escrow.                                                             *)
\* A funded application is not funded again (OpenChannel calls SetupPaymentApp
\* once, rpcserver.go 111).
FundedOnce ==
  [][(IsCreated /\ app.total_deposit # 0) => app'.escrow <= app.escrow]_vars

\* Until the one payout the deposit is in the contract's account, and from then
\* on nothing is.
Held ==
  /\ ~IsCreated => payouts = 0 /\ wallet[Alice] = AliceFunds
  /\ (IsCreated /\ payouts = 0) =>
       /\ app.escrow = app.total_deposit
       /\ wallet[Alice] = AliceFunds - app.total_deposit
  /\ payouts = 0 => wallet[Bob] = 0
  /\ payouts > 0 => IsCreated /\ app.escrow = 0 /\ app.total_deposit # 0

NoRefunding == (IsCreated /\ app.total_deposit # 0) => app'.escrow <= app.escrow

\* Only a funded contract that has not paid can pay.
LEMMA PayoutIsFirst ==
  ASSUME TypeOK, Held, IsCreated, NEW a \in AppState, CanPayOut(a),
         a.escrow = app.escrow
  PROVE  /\ payouts = 0
         /\ app.escrow = app.total_deposit /\ app.total_deposit \in Nat \ {0}
         /\ wallet[Alice] = AliceFunds - app.total_deposit /\ wallet[Bob] = 0
<1>1. app \in AppState
  BY CreatedType
<1>2. /\ a.escrow \in Nat /\ a.latest_alice_balance \in Nat
      /\ a.latest_bob_balance \in Nat /\ app.total_deposit \in Nat
  BY <1>1 DEF AppState
<1>3. app.escrow > 0
  BY <1>2 DEF CanPayOut
<1>4. payouts \in Nat
  BY DEF TypeOK
<1>5. payouts = 0
  BY <1>3, <1>4 DEF Held
<1> QED
  BY <1>2, <1>3, <1>5 DEF Held

LEMMA HeldPayout ==
  ASSUME TypeOK, Held, IsCreated, NEW a \in AppState, CanPayOut(a),
         a.escrow = app.escrow, a.total_deposit = app.total_deposit,
         CloseAccount(a)
  PROVE  Held'
<1>1. /\ app' \in AppState /\ app'.escrow = 0
      /\ app'.total_deposit = app.total_deposit
  BY PaidOutFields DEF CloseAccount
<1>2. IsCreated'
  BY <1>1, NoAppAssumption DEF IsCreated
<1>3. app.total_deposit # 0 /\ payouts' = 1
  BY PayoutIsFirst DEF CloseAccount
<1> QED
  BY <1>1, <1>2, <1>3 DEF Held

LEMMA HeldStep ==
  ASSUME IInv, Held, Next, NoRefunding
  PROVE  Held'
<1>1. TypeOK
  BY DEF IInv
<1>2. ASSUME NEW penalty \in Penalties, NEW window \in Windows,
             OnCreate(penalty, window)
      PROVE  Held'
  <2>1. app'.escrow = 0 /\ app'.total_deposit = 0
    BY <1>2 DEF OnCreate, Created
  <2>2. ~IsCreated /\ UNCHANGED <<payouts, wallet>>
    BY <1>2 DEF OnCreate, IsCreated
  <2> QED
    BY <2>1, <2>2 DEF Held
<1>3. ASSUME NEW amount \in Deposits, OnFunding(amount)
      PROVE  Held'
  <2>1. app \in AppState /\ IsCreated /\ amount \in Nat
    BY <1>1, <1>3, CreatedType DEF OnFunding
  <2>2. /\ app' \in AppState /\ app'.escrow = app.escrow + amount
        /\ app.escrow \in Nat
    BY <1>3, <2>1, FundedFields DEF OnFunding, AppState
  <2>3. app'.total_deposit = amount
    BY <1>3, <2>1 DEF OnFunding, Funded, AppState
  <2>4. amount > 0
    <3>1. app.penalty_reserve \in Nat
      BY <2>1 DEF AppState
    <3> QED
      BY <1>3, <2>1, <3>1 DEF OnFunding, FundTakesEffect
  <2>5. app.total_deposit = 0
    BY <2>1, <2>2, <2>4 DEF NoRefunding
  <2>6. payouts = 0 /\ app.escrow = 0
    <3>1. payouts \in Nat
      BY <1>1 DEF TypeOK
    <3> QED
      BY <2>1, <2>5, <3>1 DEF Held
  <2>7. /\ wallet[Alice] = AliceFunds
        /\ wallet'[Alice] = wallet[Alice] - amount
        /\ wallet'[Bob] = wallet[Bob] /\ payouts' = payouts
    <3>1. wallet[Alice] = AliceFunds - 0
      BY <2>1, <2>5, <2>6 DEF Held
    <3> QED
      BY <1>1, <1>3, <3>1 DEF OnFunding, TypeOK, Parties
  <2>8. IsCreated'
    BY <2>2, NoAppAssumption DEF IsCreated
  <2> QED
    BY <2>1, <2>2, <2>3, <2>6, <2>7, <2>8 DEF Held
<1>4. ASSUME NEW sender \in Parties, NEW call \in Calls,
             OnInitiateChannelClosing(sender, call)
      PROVE  Held'
  <2>1. app \in AppState /\ IsCreated /\ round \in Nat
    BY <1>1, <1>4, CreatedType DEF OnInitiateChannelClosing, TypeOK
  <2>2. /\ app' \in AppState /\ app'.escrow = app.escrow
        /\ app'.total_deposit = app.total_deposit
    BY <1>1, <1>4, <2>1, CallType, InitiatedFields DEF OnInitiateChannelClosing
  <2> QED
    BY <1>4, <2>1, <2>2, NoAppAssumption DEF OnInitiateChannelClosing, IsCreated, Held
<1>5. ASSUME NEW call \in Calls, OnRaiseDispute(call)
      PROVE  Held'
  <2>1. app \in AppState /\ IsCreated
    BY <1>1, <1>5, CreatedType DEF OnRaiseDispute
  <2>2. /\ app' \in AppState /\ app'.escrow = app.escrow
        /\ app'.total_deposit = app.total_deposit
    BY <1>1, <1>5, <2>1, CallType, DisputedFields DEF OnRaiseDispute, DisputeTakesEffect
  <2> QED
    BY <1>5, <2>1, <2>2, NoAppAssumption DEF OnRaiseDispute, IsCreated, Held
<1>6. ASSUME NEW sender \in Parties, NEW call \in Calls,
             OnCooperativeClose(sender, call)
      PROVE  Held'
  <2>1. app \in AppState /\ IsCreated
    BY <1>1, <1>6, CreatedType DEF OnCooperativeClose
  <2>2. /\ WithState(app, call) \in AppState
        /\ WithState(app, call).escrow = app.escrow
        /\ WithState(app, call).total_deposit = app.total_deposit
    BY <1>1, <2>1, CallType, WithStateType
  <2> QED
    BY <1>1, <1>6, <2>1, <2>2, HeldPayout DEF OnCooperativeClose, CoopCloseTakesEffect
<1>7. ASSUME OnFinalizeChannelClosing
      PROVE  Held'
  <2>1. app \in AppState /\ IsCreated
    BY <1>1, <1>7, CreatedType DEF OnFinalizeChannelClosing
  <2> QED
    BY <1>1, <1>7, <2>1, HeldPayout DEF OnFinalizeChannelClosing, FinalizeTakesEffect
<1>8. ASSUME UNCHANGED <<app, wallet, payouts>>
      PROVE  Held'
  BY <1>8 DEF Held, IsCreated
<1> QED
  BY <1>2, <1>3, <1>4, <1>5, <1>6, <1>7, <1>8
     DEF Next, OfferState, OfferClose, Accept, NextRound

LEMMA HeldInvariance == Spec /\ FundedOnce => []Held
<1>1. Init => Held
  BY DEF Init, Held, IsCreated, Parties
<1>2. IInv /\ Held /\ [Next]_vars /\ [NoRefunding]_vars => Held'
  <2>1. ASSUME Held, UNCHANGED vars PROVE Held'
    BY <2>1 DEF vars, Held, IsCreated
  <2> QED
    BY <2>1, HeldStep
<1> QED
  BY Invariance, <1>1, <1>2, PTL DEF Spec, FundedOnce, NoRefunding

-----------------------------------------------------------------------------
(* The refinement mapping, and what each step is to the escrow.            *)
HeldMoney == IF IsCreated THEN app.escrow ELSE 0

AgreedSplits ==
  {<<c.alice_balance, c.bob_balance>> : c \in {d \in AllCommitments : Cosigned(d)}}

PaidSplit ==
  IF payouts = 0 THEN <<0, 0>>
  ELSE <<wallet[Alice] - (AliceFunds - app.total_deposit), wallet[Bob]>>

EscrowStutters == UNCHANGED <<HeldMoney, AgreedSplits, PaidSplit>>

LEMMA EscrowSame ==
  EscrowStutters => UNCHANGED Escrow!escrowVars
  BY DEF EscrowStutters, Escrow!escrowVars, HeldMoney, AgreedSplits, PaidSplit

\* Signing is agreeing.
LEMMA SigningAgrees ==
  ASSUME TypeOK, signed \subseteq signed', UNCHANGED <<app, wallet, payouts>>
  PROVE  Escrow!Agree
<1>1. AgreedSplits \subseteq AgreedSplits'
  BY DEF AgreedSplits, Cosigned
<1>2. \A split \in AgreedSplits' : split \in Nat \X Nat
  BY CommitmentParts DEF AgreedSplits
<1>3. UNCHANGED <<HeldMoney, PaidSplit>>
  BY DEF HeldMoney, PaidSplit, IsCreated
<1> QED
  BY <1>1, <1>2, <1>3 DEF Escrow!Agree, HeldMoney, AgreedSplits, PaidSplit

\* Funding is depositing.
LEMMA FundingDeposits ==
  ASSUME IInv, Held, NoRefunding, NEW amount \in Deposits, OnFunding(amount)
  PROVE  Escrow!Deposit
<1>1. TypeOK /\ app \in AppState /\ IsCreated /\ amount \in Nat
  BY CreatedType DEF IInv, OnFunding
<1>2. /\ app' \in AppState /\ app'.escrow = app.escrow + amount
      /\ app.escrow \in Nat
  BY <1>1, FundedFields DEF OnFunding, AppState
<1>3. amount > 0
  <2>1. app.penalty_reserve \in Nat
    BY <1>1 DEF AppState
  <2> QED
    BY <1>1, <2>1 DEF OnFunding, FundTakesEffect
<1>4. app.total_deposit = 0
  BY <1>1, <1>2, <1>3 DEF NoRefunding
<1>5. payouts = 0 /\ app.escrow = 0
  <2>1. payouts \in Nat
    BY <1>1 DEF TypeOK
  <2> QED
    BY <1>1, <1>4, <2>1 DEF Held
<1>6. IsCreated'
  BY <1>2, NoAppAssumption DEF IsCreated
<1>7. HeldMoney = 0 /\ HeldMoney' = amount
  BY <1>1, <1>2, <1>5, <1>6 DEF HeldMoney
<1>8. PaidSplit = <<0, 0>> /\ PaidSplit' = <<0, 0>>
  BY <1>5 DEF PaidSplit, OnFunding
<1>9. AgreedSplits' = AgreedSplits
  BY DEF AgreedSplits, Cosigned, OnFunding
<1> QED
  BY <1>1, <1>3, <1>7, <1>8, <1>9
     DEF Escrow!Deposit, Escrow!Nothing, HeldMoney, PaidSplit, AgreedSplits

\* Paying out a split that was agreed on, give or take a penalty, is settling.
LEMMA PayoutSettles ==
  ASSUME TypeOK, Held, IsCreated, NEW a \in AppState, CanPayOut(a),
         a.escrow = app.escrow, a.total_deposit = app.total_deposit,
         CloseAccount(a),
         NEW c \in AllCommitments, Cosigned(c), SumOf(c) = app.total_deposit,
         NEW penalty \in {0} \cup Penalties \cup {-p : p \in Penalties},
         a.latest_alice_balance = c.alice_balance + penalty,
         a.latest_bob_balance = c.bob_balance - penalty
  PROVE  Escrow!Settle
<1> DEFINE split == <<c.alice_balance, c.bob_balance>>
<1>1. /\ payouts = 0 /\ app.escrow = app.total_deposit
      /\ app.total_deposit \in Nat \ {0}
      /\ wallet[Alice] = AliceFunds - app.total_deposit /\ wallet[Bob] = 0
  BY PayoutIsFirst
<1>2. /\ c.alice_balance \in Nat /\ c.bob_balance \in Nat /\ penalty \in Int
      /\ c.alice_balance + c.bob_balance = app.total_deposit
  <2>1. c.alice_balance \in Nat /\ c.bob_balance \in Nat
    BY CommitmentParts
  <2>2. penalty \in Int
    <3>1. \A p \in Penalties : p \in Int /\ -p \in Int
      OBVIOUS
    <3>2. CASE penalty \in {-p : p \in Penalties}
      BY <3>1, <3>2
    <3>3. CASE penalty \in {0} \cup Penalties
      BY <3>1, <3>3
    <3> QED
      BY <3>2, <3>3
  <2> QED
    BY <2>1, <2>2 DEF SumOf
<1>3. AliceReceives(a) \in Nat /\ BobReceives(a) \in Nat
  BY PayoutType
<1>4. /\ AliceReceives(a) = c.alice_balance + penalty - MinTxnFee
      /\ BobReceives(a) = c.bob_balance - penalty - MinTxnFee
  BY <1>1, <1>2 DEF AliceReceives, BobReceives
<1>5. /\ app'.escrow = 0 /\ app'.total_deposit = app.total_deposit
      /\ IsCreated'
  <2>1. /\ app' \in AppState /\ app'.escrow = 0
        /\ app'.total_deposit = app.total_deposit
    BY PaidOutFields DEF CloseAccount
  <2> QED
    BY <2>1, NoAppAssumption DEF IsCreated
<1>6. /\ wallet'[Alice] = wallet[Alice] + AliceReceives(a)
      /\ wallet'[Bob] = wallet[Bob] + BobReceives(a)
      /\ payouts' = 1
  BY <1>1 DEF CloseAccount, TypeOK, Parties
<1>7. PaidSplit' = <<AliceReceives(a), BobReceives(a)>>
  <2>1. PaidSplit' = <<wallet'[Alice] - (AliceFunds - app'.total_deposit), wallet'[Bob]>>
    BY <1>6 DEF PaidSplit
  <2>2. /\ wallet'[Alice] - (AliceFunds - app'.total_deposit) = AliceReceives(a)
        /\ wallet'[Bob] = BobReceives(a)
    BY <1>1, <1>3, <1>5, <1>6
  <2> QED
    BY <2>1, <2>2
<1>8. HeldMoney > 0 /\ HeldMoney' = 0 /\ HeldMoney = split[1] + split[2]
  BY <1>1, <1>2, <1>5 DEF HeldMoney
<1>9. split \in AgreedSplits /\ AgreedSplits' = AgreedSplits
  BY DEF AgreedSplits, Cosigned, CloseAccount
<1>10. PaidSplit' = <<split[1] + penalty - MinTxnFee, split[2] - penalty - MinTxnFee>>
  BY <1>4, <1>7
<1>11. PaidSplit'[1] >= 0 /\ PaidSplit'[2] >= 0
  BY <1>3, <1>7
<1> HIDE DEF split
<1> QED
  BY <1>8, <1>9, <1>10, <1>11 DEF Escrow!Settle, HeldMoney, AgreedSplits, PaidSplit

LEMMA EscrowStep ==
  ASSUME IInv, Held, Authorised, Next, NoRefunding
  PROVE  Escrow!Next \/ UNCHANGED Escrow!escrowVars
<1>1. TypeOK
  BY DEF IInv
<1>2. ASSUME NEW penalty \in Penalties, NEW window \in Windows,
             OnCreate(penalty, window)
      PROVE  EscrowStutters
  <2>1. app'.escrow = 0 /\ ~IsCreated /\ UNCHANGED <<payouts, wallet, signed>>
    BY <1>2 DEF OnCreate, Created, IsCreated
  <2>2. payouts = 0
    BY <2>1 DEF Held
  <2> QED
    BY <2>1, <2>2 DEF EscrowStutters, HeldMoney, AgreedSplits, PaidSplit, Cosigned
<1>3. ASSUME NEW sender \in Parties, NEW call \in Calls,
             OnInitiateChannelClosing(sender, call)
      PROVE  EscrowStutters
  <2>1. app \in AppState /\ IsCreated /\ round \in Nat
    BY <1>1, <1>3, CreatedType DEF OnInitiateChannelClosing, TypeOK
  <2>2. /\ app' \in AppState /\ app'.escrow = app.escrow
        /\ app'.total_deposit = app.total_deposit
    BY <1>1, <1>3, <2>1, CallType, InitiatedFields DEF OnInitiateChannelClosing
  <2> QED
    BY <1>3, <2>1, <2>2, NoAppAssumption
       DEF OnInitiateChannelClosing, IsCreated, EscrowStutters, HeldMoney,
       AgreedSplits, PaidSplit, Cosigned
<1>4. ASSUME NEW call \in Calls, OnRaiseDispute(call)
      PROVE  EscrowStutters
  <2>1. app \in AppState /\ IsCreated
    BY <1>1, <1>4, CreatedType DEF OnRaiseDispute
  <2>2. /\ app' \in AppState /\ app'.escrow = app.escrow
        /\ app'.total_deposit = app.total_deposit
    BY <1>1, <1>4, <2>1, CallType, DisputedFields DEF OnRaiseDispute, DisputeTakesEffect
  <2> QED
    BY <1>4, <2>1, <2>2, NoAppAssumption
       DEF OnRaiseDispute, IsCreated, EscrowStutters, HeldMoney, AgreedSplits,
       PaidSplit, Cosigned
<1>5. ASSUME NEW sender \in Parties, NEW call \in Calls,
             OnCooperativeClose(sender, call)
      PROVE  Escrow!Settle
  <2>1. app \in AppState /\ IsCreated
    BY <1>1, <1>5, CreatedType DEF OnCooperativeClose
  <2> DEFINE a == WithState(app, call)
  <2>2. /\ a \in AppState /\ a.escrow = app.escrow
        /\ a.total_deposit = app.total_deposit
        /\ a.latest_alice_balance = call.alice_balance
        /\ a.latest_bob_balance = call.bob_balance
    BY <1>1, <2>1, CallType, WithStateType
  <2>3. /\ CanPayOut(a) /\ CloseAccount(a)
        /\ BothSigned(app, CLOSE_CHANNEL, call)
        /\ call.alice_balance + call.bob_balance = app.total_deposit
    BY <1>5 DEF OnCooperativeClose, CoopCloseTakesEffect, SumsToDeposit
  <2>4. PICK c \in AllCommitments :
          /\ Cosigned(c)
          /\ c.alice_balance = call.alice_balance
          /\ c.bob_balance = call.bob_balance
    BY <1>1, <2>1, <2>3, SignedCall
  <2>5. /\ SumOf(c) = app.total_deposit
        /\ call.alice_balance = c.alice_balance + 0
        /\ call.bob_balance = c.bob_balance - 0
    <3>1. c.alice_balance \in Nat /\ c.bob_balance \in Nat
      BY CommitmentParts
    <3> QED
      BY <2>3, <2>4, <3>1 DEF SumOf
  <2> HIDE DEF a
  <2> QED
    BY <1>1, <2>1, <2>2, <2>3, <2>4, <2>5, PayoutSettles
<1>6. ASSUME OnFinalizeChannelClosing
      PROVE  Escrow!Settle
  <2>1. app \in AppState /\ IsCreated
    BY <1>1, <1>6, CreatedType DEF OnFinalizeChannelClosing
  <2>2. CanPayOut(app) /\ CloseAccount(app)
    BY <1>6 DEF OnFinalizeChannelClosing, FinalizeTakesEffect
  <2>3. app.latest_timestamp # 0
    BY <2>1, <2>2, PayoutType DEF Authorised
  <2>4. PICK c \in AllCommitments :
          Cosigned(c) /\ Records(app, c) /\ SumOf(c) = app.total_deposit
    BY <2>1, <2>3 DEF Authorised
  <2>5. /\ c.alice_balance \in Nat /\ c.bob_balance \in Nat
        /\ app.penalty_reserve \in Penalties /\ app.penalty_reserve \in Nat
    BY <2>1, CommitmentParts DEF AppState
  <2>6. PICK penalty \in {0} \cup Penalties \cup {-p : p \in Penalties} :
          /\ app.latest_alice_balance = c.alice_balance + penalty
          /\ app.latest_bob_balance = c.bob_balance - penalty
    <3>1. CASE /\ app.latest_alice_balance = c.alice_balance
               /\ app.latest_bob_balance = c.bob_balance
      <4>1. /\ app.latest_alice_balance = c.alice_balance + 0
            /\ app.latest_bob_balance = c.bob_balance - 0
        BY <2>5, <3>1
      <4> QED
        BY <4>1
    <3>2. CASE /\ app.closing_initiator = "alice"
               /\ app.latest_alice_balance = c.alice_balance - app.penalty_reserve
               /\ app.latest_bob_balance = c.bob_balance + app.penalty_reserve
      <4>1. /\ app.latest_alice_balance = c.alice_balance + (-app.penalty_reserve)
            /\ app.latest_bob_balance = c.bob_balance - (-app.penalty_reserve)
        BY <2>5, <3>2
      <4> QED
        BY <2>5, <4>1
    <3>3. CASE /\ app.closing_initiator # "alice"
               /\ app.latest_alice_balance = c.alice_balance - (-app.penalty_reserve)
               /\ app.latest_bob_balance = c.bob_balance + (-app.penalty_reserve)
      <4>1. /\ app.latest_alice_balance = c.alice_balance + app.penalty_reserve
            /\ app.latest_bob_balance = c.bob_balance - app.penalty_reserve
        BY <2>5, <3>3
      <4> QED
        BY <2>5, <4>1
    <3> QED
      BY <2>4, <3>1, <3>2, <3>3 DEF Records
  <2> QED
    BY <1>1, <2>1, <2>2, <2>4, <2>6, PayoutSettles
<1>7. ASSUME \/ \E p \in Parties, split \in Splits, ts \in 1..MaxTimestamp :
                  OfferState(p, split, ts)
             \/ \E p \in Parties, c \in AllCommitments : OfferClose(p, c)
             \/ \E p \in Parties, s \in signed : Accept(p, s)
      PROVE  Escrow!Agree
  <2>1. signed \subseteq signed' /\ UNCHANGED <<app, wallet, payouts>>
    BY <1>7 DEF OfferState, OfferClose, Accept
  <2> QED
    BY <1>1, <2>1, SigningAgrees
<1>8. ASSUME NextRound
      PROVE  EscrowStutters
  BY <1>8 DEF NextRound, EscrowStutters, HeldMoney, AgreedSplits, PaidSplit, Cosigned,
     IsCreated
<1> QED
  BY <1>2, <1>3, <1>4, <1>5, <1>6, <1>7, <1>8, FundingDeposits, EscrowSame
     DEF Next, Escrow!Next

\* The contract and the two parties are the escrow of ChannelEscrow: one
\* deposit, and one payout of a split both had signed, give or take a penalty.
THEOREM ContractRefinesEscrow == Spec /\ FundedFirst /\ FundedOnce => RefinesEscrow
<1>1. Init => Escrow!Init
  <2> SUFFICES ASSUME Init PROVE Escrow!Init
    OBVIOUS
  <2>1. HeldMoney = 0 /\ PaidSplit = <<0, 0>>
    BY DEF Init, HeldMoney, PaidSplit, IsCreated
  <2>2. AgreedSplits = {}
    BY DEF Init, AgreedSplits, Cosigned, Parties
  <2> QED
    BY <2>1, <2>2 DEF Escrow!Init, Escrow!Nothing, HeldMoney, PaidSplit, AgreedSplits
<1>2. IInv /\ Held /\ Authorised /\ [Next]_vars /\ [NoRefunding]_vars
        => [Escrow!Next]_(Escrow!escrowVars)
  <2>1. UNCHANGED vars => UNCHANGED Escrow!escrowVars
    BY EscrowSame
       DEF vars, EscrowStutters, HeldMoney, AgreedSplits, PaidSplit, Cosigned, IsCreated
  <2> QED
    BY <2>1, EscrowStep
<1> QED
  BY Invariance, HeldInvariance, RecordInvariance, <1>1, <1>2, PTL
     DEF Spec, FundedOnce, NoRefunding, RefinesEscrow, Escrow!Spec
=============================================================================
