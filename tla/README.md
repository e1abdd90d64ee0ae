# Formal model of algorand-state-channels

TLA+ modules, TLC configurations and TLAPS proofs about a payment channel on
Algorand: two nodes (Go) that pay each other off chain by co-signing balances,
and a smart contract (PyTeal) that holds the deposit and pays it out.

File names below are those of the repository; line numbers of every definition
are in `PROJECT.json` under `map`.

## 1. The system

### Components

| component | state it keeps | operations | modelled in |
|---|---|---|---|
| smart contract (`payment/payment_contract.py`, deployed as `payment_approval.teal`) | global state: addresses, `penalty_reserve`, `dispute_window`, `timeout`, `closing_initiator`, latest balances and timestamp, `total_deposit`; the account's balance | create, fund, initiateChannelClosing, raiseDispute, cooperativeClose, finalizeChannelClosing, increaseBudget (no effect) | `ContractMethods`, `PaymentContract` |
| signatures and transactions (`payment/operation.go`) | none | Sign/VerifyState, Sign/VerifyClose, one function per transaction | `Commitments`, `StateChannel` |
| peer handlers (`server.go`) | `payment_channels_onchain_states` (a record per partner), `payment_channels_offchain_states_log` (signed states by timestamp) | open_channel_request, pay_request, close_channel_request | `OffChainState`, `OffChainPayments`, `StateChannel`, `ChannelRegistry` |
| user calls (`rpcserver.go`) | the same two maps | OpenChannel, Pay, InitiateCloseChannel, FinalizeCloseChannel, CooperativeCloseChannel, TryToCheat, Reset, GetInfo | `OffChainPayments`, `StateChannel`, `ChannelRegistry` (Reset); GetInfo changes nothing |
| watchtower (`watchtower.go`) | the same two maps | a loop per opened channel: compare, dispute, delete the record | `StateChannel` |
| peer connections (`client.go`) | none | one request, one response | `OffChainPayments`, `StateChannel`, `ChannelRegistry` |
| node startup (`asd.go`, `config.go`) | none on disk | start with empty maps and the account of `SEED_PHRASE` | `Restart` of `StateChannel` and `ChannelRegistry` |
| command line (`cmd/ascli`) | none | one command per gRPC call | the commands are the user's actions; the 0 arguments `openchannel` refuses are `OpenCommand` |
| `asrpc`, `payment/testing`, the Python prototype, sandbox and testbed | no protocol state | generated code, test accounts | not modelled |

### Interactions

- A user's gRPC call runs in a goroutine of its node; it reads the maps, sends
  one request to the partner over a fresh TCP connection, or a transaction to
  the ledger, waits, and writes the maps.
- The partner serves every connection in a goroutine of its own. No lock guards
  the maps.
- The watchtower goroutine reads the contract's state from the ledger every
  second.
- The ledger decides the order of transactions and whether each has an effect.
  A method of the contract that does not like its arguments either fails or is
  approved without effect, and the node cannot tell.

### What is hard

Interleaved Pay calls and handlers (check in one step, store in another);
answers that are lost after the partner has stored a state; states ordered by
the clocks of two machines; `uint64` that wraps in Go and traps in the AVM;
closes of two kinds by two parties racing disputes and finalizations; old
states submitted later than new ones; records deleted although a transaction
had no effect, or although another channel is in them by now; one log for all
channels with a partner; all state in memory. `PROJECT.json` lists them as `hazards`,
each at its line.

### What makes each component correct

- *Contract*: it can always pay what it records; it pays once, only what both
  signed (give or take one penalty), not before it is due; a close completes
  unless its window is started again.
- *Handlers and Pay*: the two logs never disagree about a payment the payer
  counts on; a receiver can enforce what it was paid; the payer keeps the
  penalty; a payment the receiver stores is to its advantage.
- *Closing calls and watchtower*: the payout is the newest state, whoever
  closes and however; an old state on chain is disputed away; a close that was begun is
  paid although records are deleted on the way.
- *Opening*: both nodes mean the same channel, also after earlier ones, lost
  answers and restarts, and no state of one channel passes for one of another.

## 2. The modules

| module | what it is |
|---|---|
| `Commitments` | the two kinds of commitments, their signatures and verification |
| `ContractMethods` | each method of the contract as a condition (`..TakesEffect`) and the state it leaves |
| `PaymentContract` | state machine: the contract under every order of calls |
| `ChannelEscrow` | abstract: an escrow that pays one agreed split, once |
| `PaymentContract_proofs` | TLAPS: the contract's types, its solvency, no payout before an agreement |
| `PaymentClosing_proofs` | TLAPS: where the money goes, when it is paid, what is recorded; `PaymentContract` implements `ChannelEscrow` |
| `OffChainState` | what Pay computes and stores, what a pay_request checks and stores |
| `OffChainState_proofs` | TLAPS: lemmas about words, requests, what verifies, and logs |
| `OffChainPayments` | state machine: concurrent payments of two nodes |
| `OffChainPayments_proofs` | TLAPS: its types, no payer is ahead of its partner |
| `OffChainEnforcement_proofs` | TLAPS: without overdrafts, what was paid can be enforced and leaves the penalty; with one call at a time, every payment benefits its receiver and `OffChainPayments` implements `AtomicPayments` |
| `OffChainAgreement_proofs` | TLAPS: with nothing in flight or lost, the two nodes agree |
| `AtomicPayments` | abstract: one pair of balances, atomic transfers that leave the reserve |
| `StateChannel` | composition: nodes, user calls, watchtowers, pending transactions, restarts and the contract |
| `StateChannel_proofs` | TLAPS: its types, payouts are provable and newest, the paid can close, `StateChannel` implements `ChannelEscrow` |
| `ChannelRegistry` | composition: the records and logs of two nodes that open several channels, with restarts and Reset |
| `ChannelRegistry_proofs` | TLAPS: its types, states of two channels do not mix, records agree, states fit their channel |
| `MC_*` | the instances TLC checks |

`PaymentContract` extends `ContractMethods` extends `Commitments`;
`OffChainPayments`, `StateChannel` and `ChannelRegistry` extend `OffChainState`
and `ContractMethods`, so all four machines use one transcription of the contract
and one of the node's arithmetic. Definitions preceded by "A slip:" are
mutations of the definition after them; no specification uses them. They are
the bugs that show each property can fail.

### How state and actions correspond to the code

`PaymentContract`. `app` is the application's global state and account balance.
A key never written reads as 0, except `closing_initiator`: comparing the
integer 0 with a byte string aborts raiseDispute, so it starts as `"none"`.
Each method is one action. A transaction group (payment and fund call; call and
budget increases) is one step, as it is on the ledger. The variable `signed`
holds every signature either party has produced; calls may combine any two of
them, in either order, old or new. Who may sign what follows the nodes: a
payer signs newer and newer splits, a closer signs a close of the latest
cosigned split, the partner countersigns the latest. Splits that do not add up to the deposit are
included. `raiseDispute` accepts *closing* commitments and not state updates,
because that is what the program compiled from `payment_contract.py` does: the
Python variable `hash` is rebound at line 174 before `on_raiseDispute` is built
at line 225. The payments inside `closeAccountTo` take their fees from what
they pay. A second initiation moves the timeout, although the declaration
(`payment_contract.py:16`) calls it fixed during execution, and may put an older
state in the place of a newer one; `PayoutIsDue` is about the last window, and
`ClosingCompletes` about each window that nobody starts again: either party can
put the payout off for ever. Each inner payment takes its own share and fee from
the account (`PaidOut`); what is left there after both is what `SurplusIsAlices`
is about. The fees of the outer transactions, paid by their senders, are left
out, and so is the account's minimum balance.

`OffChainPayments`. A record in `calls` is a Pay call together with the
connection that serves it; its stage says how far the handler is. `Pay` is
steps 1 to 5 of the call, `CheckPayRequest` steps 1 to 5 of the handler,
`SavePayRequest` steps 6 and 7, `PayApproved` and `PayRejected` the rest of the
call. `LoseRequest` and `LoseResponse` are the two places where a connection
can fail; the caller then gives up and the handler does not notice. Clocks of
the two nodes are independent and only go forward. Balances are words of
`UintSize` values: Pay wraps, the handler compares signed differences.

`StateChannel`. `known[n]` is the record, `log[n]` the log, `deleting[n]` who is
about to delete the record: the deletion is a step apart from sending the
transaction, and happens whether the transaction was taken or not. `mempool`
holds transactions sent and not taken, the funding of the channel among them;
the ledger takes them in any order, so Bob may approve a channel whose deposit
has not arrived or never will. A payment is one step. Pay does not compare the
amount with the balance, and `MayPay` does so only when users do not ask for
more than they have (`AllowOverdraft` false): the balances of a state in a log
are words, whose sum is the deposit up to a wrap. The watchtower is the
loop as written: it looks at balances, disputes once and deletes the record.
`Restart` empties both maps and ends what the node's calls, handlers and
watchtower were about to do; what the node has sent to the ledger stays there.
It keeps the account, which is what `SEED_PHRASE` is for; a node restarted
without it is, for this channel, a node that takes no more steps.
Two variables are history: `agreed` is the set of splits both nodes have
signed, which the refinement of `ChannelEscrow` needs, and `orderly` says that
nobody has cheated, paid on, closed again or finalized too early since a close
began, which liveness needs.

`ChannelRegistry`. `apps[id]` is the application with that identifier,
`record[n]` the identifier node `n` has under its partner's address (0 for
none), `log[n]` its log, which all its channels share. `openings` and
`payments` are calls under way with the handler that serves them, by stage: the
handler's and the opener's writes of the record and of the first state are four
steps. `closing[n]` is a closing call that is about to delete the record.
Creation and payout are immediate here; `StateChannel` has what happens in
between. Funding is not: the ledger takes the deposit (`Fund`) at any time after
the creation of the application, or never, while the opening goes on. The opener
starts from the amount it has asked to fund, and its partner from what its
handler has found on the ledger (`found`), so that the two may start from
different states. All clocks read one counter, plus a skew of each node in
half readings, so that two nodes never read the same nanosecond. `Restart` ends
the node's calls and handlers; `Reset` puts new maps in the place of the old
ones under the calls and handlers that run. `overlaps` is history: whether an
opening has overlapped with another one or with a payment.

## 3. The runs

Run from this directory, e.g.
`tlc -config MC_PaymentContract.cfg MC_PaymentContract`.

| run | shows |
|---|---|
| `contract` | passes: `Solvent`, `NoPayoutBeforeAgreement`, `SplitAuthorised`, `PayoutIsDue`, `ClosingCompletes` (liveness of a close whose window is not started again), `RefinesEscrow` (refinement of `ChannelEscrow`) |
| `contract_refunded` | passes: `Solvent`, `SurplusIsAlices`, `PayoutIsDue`, when Alice funds the contract twice, before, during or after a close |
| `payments_concurrent` | passes: `PayerNeverAhead`, `LogsAgreeAtRest`, `ReceiverCanEnforce`, `PenaltyCovered`, with three calls in flight and one lost connection |
| `payments_serial` | passes: one call at a time implements `AtomicPayments`, and every stored payment benefits its receiver |
| `payments_race` | **violated**: `SavesBenefitReceiver`. Two calls in flight are judged by the same latest state |
| `payments_overdraft` | **violated**: `PenaltyCovered`. Paying more than one has wraps around and is accepted |
| `channel_honest` | passes: `PayoutIsNewest`, `PaidCanInitiate`, `ClosePays` (liveness) and `RefinesEscrow`, with pending or failed funding, refused openings, a lost answer and a restart, and users who neither cheat nor overdraw |
| `channel_adverse` | passes: `PayoutIsProvable` and `RefinesEscrow` (refinement of `ChannelEscrow` by nodes and contract together), with TryToCheat, overdrafts, payments during a close and a lost answer |
| `channel_dispute` | **violated**: `DisputeIsSettled`. Alice pays, Bob pays, Bob closes with the state before his payment; the dispute of Alice's watchtower is taken and has no effect |
| `channel_initiate` | **violated**: `InitiationBegins`. After Bob has paid, his InitiateCloseChannel has no effect, for the two signatures are in each other's field |
| `registry` | passes: `RecordsAgree`, `StatesFitTheirChannel`, `NoMixedStates`, with two channels opened in either direction, in turn or at once, deposits that come late or never, skewed clocks, and a lost connection, a restart or a Reset |
| `registry_delete` | **violated**: `DeletesOwnChannel`. A closing call deletes the record of a channel opened in the meantime |

The violated runs are disagreements of the code with its own comments and
descriptions; `PROJECT.json` quotes both sides under `findings`. Note what
`payments_concurrent` says beside `payments_race`: concurrent payments may cost
the receiver the benefit of one of them, but the two nodes still agree.

Four premises of the properties are there because the code needs them; TLC
finds the counterexample without each.

- `RecordsAgree` assumes openings that do not cross and no lost answer. Crossed
  openings can leave each node with the other's channel in its record, and the
  partner of a lost answer keeps a channel the opener does not know of.
- `StatesFitTheirChannel` assumes openings that overlap neither with each other
  nor with a payment. Both nodes write the record first and the first state
  later; a payment in between takes the new channel's identifier and the
  balances of the old channel, and a partner whose latest state is of the old
  channel too, stamped by a clock that is ahead, say, accepts it. It also
  excepts the empty first state of a partner that has found no deposit yet:
  nobody has signed it, no state is paid from it (the receiver's check of the
  differences fails), and no contract takes it.
- `StatesFitTheirChannel` and `PaidCanInitiate` assume users that do not pay
  more than they have. The receiver accepts a payment that wraps
  (`payments_overdraft`), and the contract refuses its state, for the balances
  do not add up: a node whose latest state is such a payment cannot close with
  it. `PayoutIsProvable`, `RefinesEscrow` and `PayoutIsNewest` need no such
  premise, because of that check of the sum.
- `PayoutIsNewest` assumes that no node has restarted, or that one has, once, and
  no answer was lost: the only copy of the newest state may otherwise be the one
  forgotten.

`RefinesEscrow` of `StateChannel` instantiates the escrow without penalties: the
contract takes none of the disputes a node can raise, which `channel_dispute`
shows from the other side.

### Bounds, and why they are enough

- *Contract*: one deposit of 10, fee 1, penalties of 1 and 2, windows of 1 and 2 rounds,
  three splits (a good one, one that leaves Bob less than a penalty and
  exactly a fee, one that does not add up), two timestamps, five rounds. Two
  timestamps give an old and a new state for both kinds of signatures; five
  rounds allow an initiation, a second and a third one in later rounds and the
  end of their windows. Nothing bounds initiations. A window that would
  end beyond the last round cannot elapse in the model, and `ClosingCompletes`
  excludes those by name.
- *Contract, funded twice*: deposits of 10 and 11 and Alice owning 21, so that
  she can fund with either and then once more; one window, four rounds. The
  second deposit replaces the first one in the record, and the splits of
  both are offered, so that closes of either total are tried; the account
  then holds 21 where 10 or 11 are recorded, which is the surplus.
- *Payments*: deposit 10, reserve 2, payments of 3 and 6, words of 32 values
  (anything above the deposit would do for what does not wrap; the overdraft
  run wraps). Clock readings up to 8 allow three payments after the opening,
  from both sides, with the initial clocks apart in either direction.
- *Composition*: openings with good and bad parameters (no deposit, one that
  does not exceed reserve plus fee, reserves ascli and Bob refuse), payments of
  3 and 6, two pending transactions, four rounds, clock readings to 5 or 6, one
  lost answer, and in `channel_honest` one restart. Two pending transactions are
  what racing closes, or a close racing the funding, need. `channel_honest` has
  no cheating and no payments once a close is pending (`AllowCheat`,
  `PayWhileClosing`): both would make the newest state a different one from what
  was submitted. In `channel_adverse` payments are of 3 and of 11, which is more
  than the deposit and wraps; it has three rounds, so that a second initiation
  falls into the round of the first if it is to be finalized, and no restarts:
  `channel_honest` has those, and the theorems about both properties hold for any
  number of them. Five readings are enough for both first states, a payment and
  one back, or one that starts from a state whose answer was lost.
- *Registry*: two channels, of deposits 7 and 10 so that a state of the one is
  none of the other, payments of 3, one in flight, one fault (a lost
  connection, a restart or a Reset), one closing call per node at a time, five
  clock readings: two channels take four of them, a payment in either the fifth.
  A skew of five half readings puts the partner's states of an old channel after
  the first ones of the next.
- `MaxTime`, `MaxInFlight`, `MaxPending`, `MaxLosses`, `MaxRestarts`,
  `MaxFaults`, `MaxApps`, `MaxPayments`, `MaxRound`, `MaxTimestamp` bound
  counters only; at the bounds the machines stop, which is why deadlock is not
  checked.

Only `registry` uses symmetry: its two nodes start alike, every action is open
to both, and its properties are invariants. In the other machines the parties
play different roles.

### Fairness

Two properties need it.

- `ClosingCompletes`: `FairSpec` of `PaymentContract` has weak fairness of
  `NextRound` (the ledger goes on) and of `OnFinalizeChannelClosing` (anyone may
  call it, and who is owed money will). Nothing is assumed of signing,
  initiating or disputing. The property is about each initiation: its window
  ends in a payout, or somebody initiates again in a later round. That exit is
  real: `payment_contract.py` 157-166 restarts the timeout at every initiation,
  so that either party can put the payout off for as long as it initiates. So is
  the exception: a penalty can leave a party less than the fee of its own
  payout, and the contract then never pays.
- `ClosePays`: `FairSpec` of `StateChannel` has weak fairness of `NextRound` and
  of `TakeTransaction` (the ledger goes on taking what is sent, in no
  particular order), of `DeleteRecord` (a call or
  a watchtower that has sent its transaction comes to its last line:
  WaitForConfirmation gives up after four rounds), and of `FinalizeWhenDue`: a
  user whose node still has the channel finalizes it once the window is over,
  for that is the only way to the money. Disputes are not assumed. The property
  promises nothing after a disturbance (`orderly` false) or a restart: a
  finalization sent too early, say, has no effect and its record is deleted,
  and if both users do that nobody can finalize any more.

## 4. What is proved

Every theorem holds for every value of the constants. The assumptions are the
named ones of the modules:

- `MinTxnFeeAssumption`: the fee is positive. A zero fee would let Alice take the
  deposit back.
- `ContractAssumption`, `StateChannelAssumption`, `RegistryAssumption`: two
  different parties, balances that are natural numbers, deposits that fit an
  int64, zero and those the contract refuses included. In `ChannelRegistry`,
  besides, clocks never show the same reading: a skew is 0 or odd, in
  half readings, and `Init` gives one node the skew 0.
- `NoAppAssumption`: the value of "not created" is no application.
- `UintSizeAssumption`, `PaymentsAssumption`: words of an even number of values,
  a deposit that fits an int64.

A theorem that needs more says so: `~AllowOverdraft`, `MaxInFlight = 1`,
`~AllowCheat`, `~PayWhileClosing` are what the runs of the same properties set,
and TLC has counterexamples without them.

### The contract

| theorem | states |
|---|---|
| `TypeCorrect` | `Spec => []TypeOK`: balances never go below zero |
| `Solvency` | `Spec => []Solvent` |
| `AgreementComesFirst` | `Spec => []NoPayoutBeforeAgreement` |
| `SurplusReturns` | `Spec => SurplusIsAlices`, for any number of fundings |
| `PayoutComesWhenDue` | `Spec => PayoutIsDue` |
| `RecordedSplitIsSigned` | `Spec /\ FundedFirst => []SplitAuthorised` |
| `ContractRefinesEscrow` | `Spec /\ FundedFirst /\ FundedOnce => RefinesEscrow` |

- The first three follow from `Invariance`, that `IInv == TypeOK /\ Backed /\
  NothingWithoutAgreement` is invariant. None of the three is inductive alone.
  `Solvent` needs more than "balances sum to at most the escrow": a later
  initiation is only checked against `total_deposit`, so `Backed` says that,
  until a payout, balances and `total_deposit` are both backed by the escrow.
  `NoPayoutBeforeAgreement` needs to know why a finalization before any
  agreement fails: while nothing is cosigned Bob's recorded balance is 0, which
  with `CanPayOut` and a positive fee excludes a payout.
- `SurplusReturns` says of every payout that what both parties then have is all
  the money there was, less the fees of the payouts, and that Bob gets what some
  state both signed gives him, give or take a penalty. It is not conservation of
  money, which the ledger sees to: it fails for a contract whose payout leaves
  something in the account, as it would without `close_remainder_to`.
- `PayoutComesWhenDue` rests on `Window`: the timeout is that of the last
  initiation, and where there was none, only a close can have given Bob
  anything.
- `RecordedSplitIsSigned` rests on `Authorised`, the property with the sums of
  the signed splits. It needs `FundedFirst`: a funding after a state was
  recorded would change Alice's balance and nothing else, to a split nobody
  signed. OpenChannel funds an application once, right after creating it.
- `ContractRefinesEscrow` rests on `Held`: until the payout the whole deposit
  is in the account, and then nothing is. Each action is shown to be a deposit,
  an agreement, the settlement, or to change nothing the escrow sees. It needs
  `FundedOnce`, for the abstract escrow has one deposit. In the run `contract`
  Alice owns one deposit, so both assumptions hold there.

### Payments off chain

| theorem | states |
|---|---|
| `PaymentsTyped` | `Spec => []TypeOK`, wrapped balances included |
| `PayerIsNeverAhead` | `Spec => []PayerNeverAhead` |
| `PayersKeepThePenalty` | `Spec => []PenaltyCovered`, if no user overdraws |
| `ReceiversCanEnforce` | `Spec => []ReceiverCanEnforce`, if no user overdraws |
| `LogsAgree` | `Spec => []LogsAgreeAtRest` |

All are for any number of calls in flight and of lost connections.

- The first two follow from `PInv`. Its parts say why calls do not disturb each
  other: a node's readings are `Fresh`, so no two calls share a timestamp
  (`Distinct`), so that what a handler stores is read by its own caller and by
  nobody else (`Traces`): nothing of it is in a log before the handler stores
  it, and the split is there, unchanged, until the payer has its answer.
- `EInv` adds that balances sum to the deposit. That is invariant only without
  overdrafts (`ASSUME ~AllowOverdraft`): then nothing wraps. The run
  `payments_overdraft` is the counterexample otherwise.
- `LogsAgree` needs to know which states the two nodes do not share: `AInv` says
  that there is an opening state at each node, older than every payment in
  either log - the partner's because of the check of timestamps - and that
  every other state is shared, or its answer is on its way.

| theorem, for one call at a time (`MaxInFlight = 1`) and no overdrafts | states |
|---|---|
| `PaymentsBenefitTheirReceivers` | `Spec => SavesBenefitReceiver` |
| `SerialPaymentsAreAtomic` | `Spec => RefinesAtomicPayments` |

- `Serial` adds to `EInv` what the only call there is knows of the two latest
  states: its request leaves the payer no more than the payer's own latest
  state does, and once checked it gives the receiver more than the receiver's.
  A second call could replace either state in between, which is the
  counterexample of `payments_race`.
- The abstract balances are those of the newest state of either log. The logs
  may have different ones after a lost answer, so the handler's write has two
  cases: the newest state was the payer's, from which the request was made, or
  the receiver's, against which it was checked. In both the payer pays, or
  nothing moves. The payer's own write moves nothing: its partner has the same
  split already, and no older one as its latest.

### A whole channel

| theorem | states |
|---|---|
| `ChannelTyped` | `Spec => []TypeOK` of `StateChannel` |
| `PayoutsAreProvable` | `Spec => []PayoutIsProvable` |
| `ThePaidCanInitiate` | `Spec => []PaidCanInitiate`, if no user overdraws |
| `ChannelRefinesEscrow` | `Spec => RefinesEscrow` |
| `PayoutsAreNewest` | `Spec => []PayoutIsNewest`, if no user cheats or pays on once a close has begun |

All are for any number of pending transactions, lost answers and restarts, any
payments, overdrafts included but for `ThePaidCanInitiate`, and any parameters
of the opening.

- The first four follow from `SInv`, which says of everything that travels what
  `Logs` says of the two logs. A state is either a first state, unsigned, or
  `Shared`: two words whose sum, as a word, is the deposit (its very sum, if
  nobody overdraws), agreed, signed by both, in the fields the
  contract verifies or, in Bob's copies of his own payments only, the other way
  round. `Txns` says the same of pending transactions, which must stay true
  while logs grow and nodes restart: a transaction the ledger would take
  carries an agreed split, and until a restart somebody can still prove it. That a
  state the ledger takes is a split of the deposit and not just up to a wrap is
  the contract's own check of the sum.
  `Contract` says it of what the ledger has recorded. `Phases` orders the
  opening: nobody has a state before Bob's approval, which may come before the
  deposit.
- `ChannelRefinesEscrow` uses `agreed`, the splits both have signed, as the
  agreements of the escrow. No step maps to a penalty, because every dispute a
  node sends is one the contract ignores.
- `PayoutsAreNewest` adds `NInv`: what is pending, recorded or paid is the newest
  split of one of the nodes. It is inductive only with `Mirrored`, that while
  nothing is lost or forgotten both nodes have the same newest split, for
  after a restart the split must be found at the other node.

### Several channels

| theorem | states |
|---|---|
| `RegistryTyped` | `Spec => []TypeOK` of `ChannelRegistry` |
| `StatesNeverMix` | `Spec => []NoMixedStates` |
| `RecordsStayEqual` | `Spec => []RecordsAgree` |
| `StatesFit` | `Spec => []StatesFitTheirChannel` |

All are for any number of channels, payments and faults, any skews, and deposits
that arrive at any time or never; `StatesFit` assumes that no user overdraws.

- The first two follow from `RInv`. A reading is one that neither
  clock has shown before (`Past`), so payments have timestamps of their own
  (`Distinct`), a payment has no trace in a log before the handler stores
  it, and then the split it asked for (`Trace`); hence one timestamp in both
  logs is one payment (`Unmixed`).
- `RecordsStayEqual` adds `Turns`. While openings follow one another there is at
  most one, and its stage says what the records may be: the partner writes
  first, the opener last, and in between either record may be deleted. An
  opener that nobody waits for has restarted, so it has no record that could
  disagree with the partner's.
- `StatesFit` adds `Fitting`. The handler compares a payment with its own latest
  state only, which may be of an older channel. What saves it is that one of
  the two clocks is not behind: the latest state of that node (`Leading`) is of the channel in
  its record, except between its two writes of an opening (`Midway`), during
  which no payment runs. A payment it makes fits, and one it receives is
  compared with a state that fits. A node that has found no deposit starts from
  an empty state, from which it can pay nothing and against which every payment
  it is offered fails the check of the differences.

### Only model-checked

Liveness, `ClosingCompletes` and `ClosePays`: it needs ENABLED, which is out of
the prover's reach. And what the violated runs show: their counterexamples.
Every invariant, action property and refinement of a passing run is stated by
a theorem.

## 5. Not modelled

- Creation that is not confirmed: OpenChannel then asks the partner about
  application 0, and the partner's node ends with `log.Fatalf`, which is a
  `Restart` of the partner with the opening lost.
- The deposit of a channel the partner refused: no call of either node can pay
  it out (`NoPayoutBeforeAgreement`), so no property of theirs could hold.
- The additional watchtower loops a second opening starts. They look at the same
  maps as the first one and send the same dispute, which the contract refuses;
  where Go detects that two of them use a map at once the process ends, which is
  a `Restart`. No property covers what else two loops could do.
- Payments made after the partner has signed a cooperative close have no
  property of their own. They happen in `channel_adverse`, and nothing in the
  code promises that they are paid: `PayoutIsNewest` assumes users who stop
  paying once a close has begun, and after a lost answer it is about the newest
  state of one of the nodes, since the payer then does not know the newest.
- Closing several channels through pending transactions: `ChannelRegistry` has
  several channels and `StateChannel` pending transactions, but no machine has
  both.
- `GetInfo` and the logging: they change nothing.
- Encoding: JSON framing, the 2 KB read buffer, byte strings under a hash. A
  commitment is a record and a signature names its key and what it is over.
- Map data races as Go's memory model sees them; map operations are atomic
  here.
- The components in the last row of the table of section 1.

## 6. Plan

1. *Done*: contract, off-chain payments, composition with funding, restarts
   and liveness, several channels, a second funding, and the refinements of the
   two abstract specifications.
2. *Done*: every property of a passing run proved, but liveness.
3. *Larger instances*: two payments in flight in `ChannelRegistry`, three
   pending transactions in `StateChannel`. The theorems say that nothing new is
   to be expected of their safety.
4. *One machine for several channels and pending transactions*: see section 5.
