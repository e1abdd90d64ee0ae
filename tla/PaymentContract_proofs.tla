----------------------- MODULE PaymentContract_proofs -----------------------
(***************************************************************************)
(* Theorems about the payment contract, for every choice of the constants: *)
(* any set of splits the parties may sign, any penalties, windows and      *)
(* deposits, any amount of money Alice may put in, several times included. *)
(***************************************************************************)
EXTENDS PaymentContract, TLAPS

USE MinTxnFeeAssumption, ContractAssumption

\* Reading a commitment back from a record that is one.
LEMMA CommitmentParts ==
  ASSUME NEW c \in AllCommitments
  PROVE  /\ c.alice_balance \in Nat
         /\ c.bob_balance \in Nat
         /\ c.timestamp \in 1..MaxTimestamp
         /\ c.app_id = AppId
         /\ c.tag \in {STATE_UPDATE, CLOSE_CHANNEL}
         /\ <<c.alice_balance, c.bob_balance>> \in Splits
  BY DEF AllCommitments, Commitment

\* Reading a signature's commitment.
LEMMA SignatureParts ==
  ASSUME NEW s \in Signatures
  PROVE  s.key \in Parties /\ s.over \in AllCommitments
  BY DEF Signatures, Sign

\* A call made of signatures that exist carries a split both numbers of which
\* are natural, and a timestamp of an off-chain state.
LEMMA CallType ==
  ASSUME TypeOK, NEW call \in Calls
  PROVE  /\ call.alice_balance \in Nat
         /\ call.bob_balance \in Nat
         /\ call.timestamp \in Nat
         /\ call.alice_signature \in signed
         /\ call.bob_signature \in signed
<1>1. PICK s \in signed, t \in signed :
        call = Call(s.over.alice_balance, s.over.bob_balance, s.over.timestamp, s, t)
  BY DEF Calls
<1>2. s.over \in AllCommitments
  BY SignatureParts DEF TypeOK
<1>3. /\ s.over.alice_balance \in Nat
      /\ s.over.bob_balance \in Nat
      /\ s.over.timestamp \in Nat
  <2>1. PICK c \in AllCommitments : c = s.over
    BY <1>2
  <2>2. /\ c.alice_balance \in Nat
        /\ c.bob_balance \in Nat
        /\ c.timestamp \in 1..MaxTimestamp
    BY CommitmentParts
  <2> QED
    BY <2>1, <2>2
<1> QED
  BY <1>1, <1>3 DEF Call

-----------------------------------------------------------------------------
\* Signatures are added to the ones there are, never taken away.
LEMMA TypeOK_Signing ==
  ASSUME TypeOK,
         \/ \E p \in Parties, split \in Splits, ts \in 1..MaxTimestamp :
              OfferState(p, split, ts)
         \/ \E p \in Parties, c \in AllCommitments : OfferClose(p, c)
         \/ \E p \in Parties, s \in signed : Accept(p, s)
  PROVE  TypeOK' /\ signed \subseteq signed'
<1>1. ASSUME NEW p \in Parties, NEW split \in Splits, NEW ts \in 1..MaxTimestamp,
             OfferState(p, split, ts)
      PROVE  TypeOK' /\ signed \subseteq signed'
  <2>1. SignState(AppId, p, split[1], split[2], ts) \in Signatures
    BY DEF SignState, Signatures, AllCommitments
  <2> QED
    BY <1>1, <2>1 DEF OfferState, TypeOK
<1>2. ASSUME NEW p \in Parties, NEW c \in AllCommitments, OfferClose(p, c)
      PROVE  TypeOK' /\ signed \subseteq signed'
  <2>1. SignClose(AppId, p, c.alice_balance, c.bob_balance, c.timestamp) \in Signatures
    <3> DEFINE split == <<c.alice_balance, c.bob_balance>>
    <3>1. split \in Splits /\ c.timestamp \in 1..MaxTimestamp
      BY CommitmentParts
    <3>2. Commitment(CLOSE_CHANNEL, AppId, split[1], split[2], c.timestamp)
            \in AllCommitments
      BY <3>1 DEF AllCommitments
    <3> QED
      BY <3>2 DEF SignClose, Signatures
  <2> QED
    BY <1>2, <2>1 DEF OfferClose, TypeOK
<1>3. ASSUME NEW p \in Parties, NEW s \in signed, Accept(p, s)
      PROVE  TypeOK' /\ signed \subseteq signed'
  <2>1. Sign(p, s.over) \in Signatures
    BY SignatureParts DEF Signatures, TypeOK
  <2> QED
    BY <1>3, <2>1 DEF Accept, TypeOK
<1> QED
  BY <1>1, <1>2, <1>3

-----------------------------------------------------------------------------
(* What each method leaves behind is again a state of the application, and *)
(* closeAccountTo never computes a negative amount.                        *)
LEMMA WithStateType ==
  ASSUME NEW a \in AppState, NEW call,
         call.alice_balance \in Nat, call.bob_balance \in Nat,
         call.timestamp \in Nat
  PROVE  /\ WithState(a, call) \in AppState
         /\ WithState(a, call).latest_alice_balance = call.alice_balance
         /\ WithState(a, call).latest_bob_balance = call.bob_balance
         /\ WithState(a, call).total_deposit = a.total_deposit
         /\ WithState(a, call).escrow = a.escrow
         /\ WithState(a, call).penalty_reserve = a.penalty_reserve
         /\ WithState(a, call).dispute_window = a.dispute_window
         /\ WithState(a, call).closing_initiator = a.closing_initiator
  BY DEF AppState, WithState

LEMMA RebalancedType ==
  ASSUME NEW a \in AppState, Loser(a) >= a.penalty_reserve
  PROVE  /\ Rebalanced(a) \in AppState
         /\ Rebalanced(a).latest_alice_balance + Rebalanced(a).latest_bob_balance
              = a.latest_alice_balance + a.latest_bob_balance
         /\ Rebalanced(a).total_deposit = a.total_deposit
         /\ Rebalanced(a).escrow = a.escrow
<1> DEFINE toBob == IF a.closing_initiator = "alice" THEN a.penalty_reserve
                                                     ELSE -a.penalty_reserve
           alice == a.latest_alice_balance - toBob
           bob == a.latest_bob_balance + toBob
<1>1. /\ a.penalty_reserve \in Nat
      /\ a.latest_alice_balance \in Nat
      /\ a.latest_bob_balance \in Nat
  BY DEF AppState
<1>2. /\ alice \in Nat /\ bob \in Nat
      /\ alice + bob = a.latest_alice_balance + a.latest_bob_balance
  BY <1>1 DEF Loser
<1>3. Rebalanced(a) = [a EXCEPT !.latest_alice_balance = alice,
                                !.latest_bob_balance = bob]
  BY DEF Rebalanced
<1> HIDE DEF alice, bob
<1>4. /\ Rebalanced(a) \in AppState
      /\ Rebalanced(a).latest_alice_balance = alice
      /\ Rebalanced(a).latest_bob_balance = bob
      /\ Rebalanced(a).total_deposit = a.total_deposit
      /\ Rebalanced(a).escrow = a.escrow
  BY <1>2, <1>3 DEF AppState
<1> QED
  BY <1>2, <1>4

\* The two payments and their fees are all there is.
LEMMA PaidOutEmpties ==
  ASSUME NEW a \in AppState
  PROVE  PaidOut(a) = [a EXCEPT !.escrow = 0]
<1>1. a.escrow \in Nat /\ a.latest_bob_balance \in Nat
  BY DEF AppState
<1>2. a.escrow - BobReceives(a) - AliceReceives(a) - 2 * MinTxnFee = 0
  BY <1>1, MinTxnFeeAssumption DEF AliceReceives, BobReceives
<1> QED
  BY <1>2 DEF PaidOut

LEMMA PayoutType ==
  ASSUME NEW a \in AppState, CanPayOut(a)
  PROVE  /\ PaidOut(a) \in AppState
         /\ AliceReceives(a) \in Nat
         /\ BobReceives(a) \in Nat
         /\ a.latest_bob_balance > 0
         /\ PaidOut(a).latest_bob_balance = a.latest_bob_balance
<1>1. /\ a.escrow \in Nat
      /\ a.latest_alice_balance \in Nat
      /\ a.latest_bob_balance \in Nat
  BY DEF AppState
<1>2. PaidOut(a) \in AppState /\ PaidOut(a).latest_bob_balance = a.latest_bob_balance
  BY PaidOutEmpties DEF AppState
<1> QED
  BY <1>1, <1>2 DEF CanPayOut, AliceReceives, BobReceives

-----------------------------------------------------------------------------
(* The inductive invariant.  Solvent alone is not inductive: initiating,   *)
(* closing and disputing record a split of total_deposit, so that figure   *)
(* must be covered as well.  NoPayoutBeforeAgreement needs to know that    *)
(* Bob's recorded balance stays zero until both have signed something.     *)
Backed ==
  (IsCreated /\ payouts = 0) =>
    /\ app.latest_alice_balance + app.latest_bob_balance <= app.escrow
    /\ app.total_deposit <= app.escrow

Agreed == \E c \in AllCommitments : Cosigned(c)

NothingWithoutAgreement ==
  (payouts > 0 \/ (IsCreated /\ app.latest_bob_balance > 0)) => Agreed

IInv == TypeOK /\ Backed /\ NothingWithoutAgreement

\* A call the contract verifies shows a commitment both have signed.
LEMMA BothSignedAgreement ==
  ASSUME TypeOK, IsCreated, NEW call \in Calls, NEW tag,
         BothSigned(app, tag, call)
  PROVE  Agreed
<1> DEFINE c == Commitment(tag, app.app_id, call.alice_balance, call.bob_balance,
                           call.timestamp)
<1>1. app.alice_address = Alice /\ app.bob_address = Bob
  BY DEF TypeOK, IsCreated, AppState
<1>2. Sign(Alice, c) \in signed /\ Sign(Bob, c) \in signed
  BY <1>1, CallType DEF BothSigned
<1>3. Sign(Alice, c).over \in AllCommitments
  <2>1. Sign(Alice, c) \in Signatures
    BY <1>2 DEF TypeOK
  <2> QED
    BY <2>1, SignatureParts
<1>4. c \in AllCommitments
  BY <1>3 DEF Sign
<1> HIDE DEF c
<1> QED
  BY <1>2, <1>4 DEF Agreed, Cosigned, Parties

\* Signing more never undoes an agreement.
LEMMA AgreementStays ==
  ASSUME Agreed, signed \subseteq signed'
  PROVE  Agreed'
  BY DEF Agreed, Cosigned

-----------------------------------------------------------------------------
LEMMA InitIInv == Init => IInv
  BY DEF Init, IInv, TypeOK, Backed, NothingWithoutAgreement, IsCreated, Parties

LEMMA CreateStep ==
  ASSUME IInv, NEW penalty \in Penalties, NEW window \in Windows,
         OnCreate(penalty, window)
  PROVE  IInv'
<1>1. Created(AppId, Alice, Bob, penalty, window) \in AppState
  BY DEF Created, AppState
<1>2. TypeOK'
  BY <1>1 DEF IInv, TypeOK, OnCreate
<1>3. Backed'
  BY DEF OnCreate, Created, Backed
<1>4. NothingWithoutAgreement'
  <2>1. app'.latest_bob_balance = 0
    BY DEF OnCreate, Created
  <2> QED
    BY <2>1, AgreementStays DEF OnCreate, IInv, NothingWithoutAgreement
<1> QED
  BY <1>2, <1>3, <1>4 DEF IInv

LEMMA FundingStep ==
  ASSUME IInv, NEW amount \in Deposits, OnFunding(amount)
  PROVE  IInv'
<1>1. app \in AppState /\ IsCreated /\ amount \in Nat
  BY DEF OnFunding, IInv, TypeOK, IsCreated
<1>2. /\ app' \in AppState
      /\ app'.latest_alice_balance = amount
      /\ app'.total_deposit = amount
      /\ app'.latest_bob_balance = app.latest_bob_balance
      /\ app'.escrow = app.escrow + amount
  <2>1. app.escrow + amount \in Nat
    BY <1>1 DEF AppState
  <2>2. app' = [app EXCEPT !.latest_alice_balance = amount,
                           !.total_deposit = amount,
                           !.escrow = app.escrow + amount]
    BY DEF OnFunding, Funded
  <2> QED
    BY <1>1, <2>1, <2>2 DEF AppState
<1>3. TypeOK'
  <2>1. wallet' \in [Parties -> Nat]
    BY <1>1 DEF OnFunding, IInv, TypeOK, Parties
  <2> QED
    BY <1>2, <2>1 DEF OnFunding, IInv, TypeOK
<1>4. Backed'
  <2>1. /\ app.escrow \in Nat /\ app.latest_alice_balance \in Nat
        /\ app.latest_bob_balance \in Nat
    BY <1>1 DEF AppState
  <2> QED
    BY <1>1, <1>2, <2>1 DEF OnFunding, IInv, Backed
<1>5. NothingWithoutAgreement'
  BY <1>1, <1>2, AgreementStays DEF OnFunding, IInv, NothingWithoutAgreement
<1> QED
  BY <1>3, <1>4, <1>5 DEF IInv

\* Offering, accepting and asking to close change nothing on chain.
LEMMA SigningStep ==
  ASSUME IInv,
         \/ \E p \in Parties, split \in Splits, ts \in 1..MaxTimestamp :
              OfferState(p, split, ts)
         \/ \E p \in Parties, c \in AllCommitments : OfferClose(p, c)
         \/ \E p \in Parties, s \in signed : Accept(p, s)
  PROVE  IInv'
<1>1. TypeOK' /\ signed \subseteq signed'
  BY TypeOK_Signing DEF IInv
<1>2. UNCHANGED <<app, payouts>>
  BY DEF OfferState, OfferClose, Accept
<1>3. Backed'
  BY <1>2 DEF IInv, Backed, IsCreated
<1>4. NothingWithoutAgreement'
  BY <1>1, <1>2, AgreementStays DEF IInv, NothingWithoutAgreement, IsCreated
<1> QED
  BY <1>1, <1>3, <1>4 DEF IInv

LEMMA RoundStep ==
  ASSUME IInv, NextRound
  PROVE  IInv'
<1>1. TypeOK'
  BY DEF NextRound, IInv, TypeOK
<1>2. Backed' /\ NothingWithoutAgreement'
  BY AgreementStays DEF NextRound, IInv, Backed, NothingWithoutAgreement, IsCreated
<1> QED
  BY <1>1, <1>2 DEF IInv

LEMMA InitiateStep ==
  ASSUME IInv, NEW sender \in Parties, NEW call \in Calls,
         OnInitiateChannelClosing(sender, call)
  PROVE  IInv'
<1>1. app \in AppState /\ IsCreated
  BY DEF OnInitiateChannelClosing, IInv, TypeOK, IsCreated
<1>2. /\ call.alice_balance \in Nat /\ call.bob_balance \in Nat
      /\ call.timestamp \in Nat
  BY CallType DEF IInv
<1> DEFINE a == WithState(app, call)
<1>3. /\ a \in AppState
      /\ a.latest_alice_balance + a.latest_bob_balance = app.total_deposit
      /\ a.total_deposit = app.total_deposit
      /\ a.escrow = app.escrow
  <2>1. call.alice_balance + call.bob_balance = app.total_deposit
    BY DEF OnInitiateChannelClosing, InitiateTakesEffect, SumsToDeposit
  <2> QED
    BY <1>1, <1>2, <2>1, WithStateType
<1>4. /\ app' \in AppState
      /\ app'.latest_alice_balance = a.latest_alice_balance
      /\ app'.latest_bob_balance = a.latest_bob_balance
      /\ app'.total_deposit = a.total_deposit
      /\ app'.escrow = a.escrow
  <2>1. round + app.dispute_window \in Nat
    <3>1. app.dispute_window \in Nat
      BY <1>1 DEF AppState
    <3>2. round \in 1..MaxRound
      BY DEF IInv, TypeOK
    <3> QED
      BY <3>1, <3>2
  <2>2. PICK who \in {"alice", "bob"} :
          app' = [a EXCEPT !.closing_initiator = who,
                           !.timeout = round + app.dispute_window]
    BY DEF OnInitiateChannelClosing, Initiated
  <2> HIDE DEF a
  <2> QED
    BY <1>3, <2>1, <2>2 DEF AppState
<1> HIDE DEF a
<1>5. TypeOK'
  <2>1. round \in 0..MaxRound
    BY DEF IInv, TypeOK
  <2> QED
    BY <1>4, <2>1 DEF OnInitiateChannelClosing, IInv, TypeOK
<1>6. Backed'
  BY <1>1, <1>3, <1>4 DEF OnInitiateChannelClosing, IInv, Backed
<1>7. NothingWithoutAgreement'
  <2>1. Agreed
    BY <1>1, BothSignedAgreement
       DEF IInv, OnInitiateChannelClosing, InitiateTakesEffect
  <2>2. Agreed'
    BY <2>1, AgreementStays DEF OnInitiateChannelClosing
  <2> QED
    BY <2>2 DEF NothingWithoutAgreement
<1> QED
  BY <1>5, <1>6, <1>7 DEF IInv

LEMMA DisputeStep ==
  ASSUME IInv, NEW call \in Calls, OnRaiseDispute(call)
  PROVE  IInv'
<1>1. app \in AppState /\ IsCreated
  BY DEF OnRaiseDispute, IInv, TypeOK, IsCreated
<1>2. /\ call.alice_balance \in Nat /\ call.bob_balance \in Nat
      /\ call.timestamp \in Nat
  BY CallType DEF IInv
<1> DEFINE a == WithState(app, call)
<1>3. /\ a \in AppState
      /\ a.latest_alice_balance + a.latest_bob_balance = app.total_deposit
      /\ a.total_deposit = app.total_deposit
      /\ a.escrow = app.escrow
      /\ Loser(a) >= a.penalty_reserve
  <2>1. /\ call.alice_balance + call.bob_balance = app.total_deposit
        /\ Loser(a) >= app.penalty_reserve
    BY DEF OnRaiseDispute, DisputeTakesEffect, SumsToDeposit
  <2> QED
    BY <1>1, <1>2, <2>1, WithStateType
<1>4. app' = Rebalanced(a)
  BY DEF OnRaiseDispute, Disputed
<1> HIDE DEF a
<1>5. /\ app' \in AppState
      /\ app'.latest_alice_balance + app'.latest_bob_balance = app.total_deposit
      /\ app'.total_deposit = app.total_deposit
      /\ app'.escrow = app.escrow
  BY <1>3, <1>4, RebalancedType
<1>6. TypeOK'
  BY <1>5 DEF OnRaiseDispute, IInv, TypeOK
<1>7. Backed'
  BY <1>1, <1>5 DEF OnRaiseDispute, IInv, Backed
<1>8. NothingWithoutAgreement'
  <2>1. Agreed
    BY <1>1, BothSignedAgreement DEF IInv, OnRaiseDispute, DisputeTakesEffect
  <2>2. Agreed'
    BY <2>1, AgreementStays DEF OnRaiseDispute
  <2> QED
    BY <2>2 DEF NothingWithoutAgreement
<1> QED
  BY <1>6, <1>7, <1>8 DEF IInv

\* Paying out of a state that is backed, once both have signed something.
LEMMA CloseStep ==
  ASSUME IInv, NEW a \in AppState, CanPayOut(a), CloseAccount(a), Agreed
  PROVE  IInv'
<1>1. /\ PaidOut(a) \in AppState
      /\ AliceReceives(a) \in Nat
      /\ BobReceives(a) \in Nat
  BY PayoutType
<1>2. TypeOK'
  <2>1. wallet' \in [Parties -> Nat]
    BY <1>1 DEF CloseAccount, IInv, TypeOK, Parties
  <2> QED
    BY <1>1, <2>1 DEF CloseAccount, IInv, TypeOK
<1>3. payouts' > 0
  BY DEF CloseAccount, IInv, TypeOK
<1>4. Backed'
  BY <1>3 DEF Backed
<1>5. NothingWithoutAgreement'
  BY AgreementStays DEF CloseAccount, NothingWithoutAgreement
<1> QED
  BY <1>2, <1>4, <1>5 DEF IInv

LEMMA CooperativeStep ==
  ASSUME IInv, NEW sender \in Parties, NEW call \in Calls,
         OnCooperativeClose(sender, call)
  PROVE  IInv'
<1>1. app \in AppState /\ IsCreated
  BY DEF OnCooperativeClose, IInv, TypeOK, IsCreated
<1>2. WithState(app, call) \in AppState
  BY <1>1, CallType, WithStateType DEF IInv
<1>3. Agreed
  BY <1>1, BothSignedAgreement DEF IInv, OnCooperativeClose, CoopCloseTakesEffect
<1> QED
  BY <1>2, <1>3, CloseStep DEF OnCooperativeClose, CoopCloseTakesEffect

\* Finalizing pays out what is recorded, and that Bob has something recorded
\* is what shows that there was an agreement.
LEMMA FinalizeStep ==
  ASSUME IInv, OnFinalizeChannelClosing
  PROVE  IInv'
<1>1. app \in AppState /\ IsCreated
  BY DEF OnFinalizeChannelClosing, IInv, TypeOK, IsCreated
<1>2. CanPayOut(app)
  BY DEF OnFinalizeChannelClosing, FinalizeTakesEffect
<1>3. Agreed
  BY <1>1, <1>2, PayoutType DEF IInv, NothingWithoutAgreement
<1> QED
  BY <1>1, <1>2, <1>3, CloseStep DEF OnFinalizeChannelClosing

-----------------------------------------------------------------------------
THEOREM Invariance == Spec => []IInv
<1>1. IInv /\ [Next]_vars => IInv'
  <2> SUFFICES ASSUME IInv, [Next]_vars PROVE IInv'
    OBVIOUS
  <2>1. CASE UNCHANGED vars
    <3>1. TypeOK'
      BY <2>1 DEF vars, IInv, TypeOK
    <3>2. Backed' /\ NothingWithoutAgreement'
      BY <2>1, AgreementStays
         DEF vars, IInv, Backed, NothingWithoutAgreement, IsCreated
    <3> QED
      BY <3>1, <3>2 DEF IInv
  <2>2. CASE Next
    BY <2>2, CreateStep, FundingStep, SigningStep, InitiateStep, CooperativeStep,
       DisputeStep, FinalizeStep, RoundStep DEF Next
  <2> QED
    BY <2>1, <2>2
<1> QED
  BY InitIInv, <1>1, PTL DEF Spec

\* The state of the application keeps its type: no balance ever goes below
\* zero, in the contract or in the parties' accounts.
THEOREM TypeCorrect == Spec => []TypeOK
<1>1. IInv => TypeOK
  BY DEF IInv
<1> QED
  BY Invariance, <1>1, PTL

\* Until it pays out, the contract holds what it owes.
THEOREM Solvency == Spec => []Solvent
<1>1. IInv => Solvent
  BY DEF IInv, Backed, Solvent
<1> QED
  BY Invariance, <1>1, PTL

\* No money leaves the contract before both parties have signed some state.
THEOREM AgreementComesFirst == Spec => []NoPayoutBeforeAgreement
<1>1. IInv => NoPayoutBeforeAgreement
  BY DEF IInv, NothingWithoutAgreement, Agreed, NoPayoutBeforeAgreement
<1> QED
  BY Invariance, <1>1, PTL
=============================================================================
