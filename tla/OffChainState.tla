--------------------------- MODULE OffChainState ---------------------------
(***************************************************************************)
(* The off-chain states a node keeps of one channel and the arithmetic on  *)
(* them: what Pay (rpcserver.go 188-334) computes and stores, and what the *)
(* handler of pay_request (server.go 192-335) checks and stores.           *)
(*                                                                         *)
(* A node's log is the Go map of paymentChannelOffChainState by timestamp: *)
(* a function whose domain is the set of timestamps present.  Balances are *)
(* Go uint64, so Pay's subtraction wraps; the handler compares differences *)
(* it converts to int64.  UintSize stands for 2^64.                        *)
(***************************************************************************)
EXTENDS Integers, FiniteSets, Commitments

CONSTANT UintSize

ASSUME UintSizeAssumption == UintSize \in Nat \ {0, 1} /\ UintSize % 2 = 0

Uint(x) == x % UintSize

\* The conversion int64(x) of an unsigned x, and int64 subtraction.
AsInt(x) == IF x < UintSize \div 2 THEN x ELSE x - UintSize
IntDiff(x, y) == AsInt(Uint(AsInt(x) - AsInt(y)))

-----------------------------------------------------------------------------
\* paymentChannelOffChainState
OffChainEntry(id, ts, alice, bob, alice_sig, bob_sig) ==
  [app_id |-> id, timestamp |-> ts, alice_balance |-> alice, bob_balance |-> bob,
   alice_signature |-> alice_sig, bob_signature |-> bob_sig]

EmptyLog == [ts \in {} |-> 0]

Store(log, e) ==
  [ts \in DOMAIN log \cup {e.timestamp} |->
     IF ts = e.timestamp THEN e ELSE log[ts]]

\* getLatestOffChainState; without a positive timestamp it returns an error.
HasLatest(log) == \E ts \in DOMAIN log : ts > 0

LatestTimestamp(log) ==
  CHOOSE ts \in DOMAIN log : \A other \in DOMAIN log : other <= ts

Latest(log) == log[LatestTimestamp(log)]

\* getHighestBalanceOffChainState: which of several entries with the same
\* balance it returns is up to Go's map iteration.
BalanceOf(is_alice, e) == IF is_alice THEN e.alice_balance ELSE e.bob_balance

HighestBalanceStates(is_alice, log) ==
  {log[ts] : ts \in {t \in DOMAIN log :
     /\ BalanceOf(is_alice, log[t]) > 0
     /\ \A other \in DOMAIN log :
          BalanceOf(is_alice, log[other]) <= BalanceOf(is_alice, log[t])}}

-----------------------------------------------------------------------------
(* Pay.  `me' is the caller's account, `last' its latest state.            *)
PayRequest(id, me, me_alice, last, amount, ts) ==
  LET mine == Uint(BalanceOf(me_alice, last) - amount)
      theirs == Uint(BalanceOf(~me_alice, last) + amount)
      alice == IF me_alice THEN mine ELSE theirs
      bob == IF me_alice THEN theirs ELSE mine
  IN  [from |-> me, alice_balance |-> alice, bob_balance |-> bob, timestamp |-> ts,
       signature |-> SignState(id, me, alice, bob, ts)]

\* A slip: the timestamp field is not set.
PayerEntry_NoTimestamp(id, req, partner_signature) ==
  OffChainEntry(id, 0, req.alice_balance, req.bob_balance, req.signature,
                partner_signature)

\* Steps 7 and 8: what the payer stores once the partner's signature has been
\* verified.  The payer's own signature goes into alice_signature whichever
\* side it is (rpcserver.go 307-308).
PayerEntry(id, req, partner_signature) ==
  OffChainEntry(id, req.timestamp, req.alice_balance, req.bob_balance,
                req.signature, partner_signature)

-----------------------------------------------------------------------------
(* pay_request.  `last' is the receiver's latest state.                    *)

\* A slip: the payer may spend its reserve.
Beneficial_NoReserve(me_alice, last, req, penalty_reserve) ==
  LET theirDiff == IntDiff(BalanceOf(~me_alice, last), BalanceOf(~me_alice, req))
      myDiff == IntDiff(BalanceOf(me_alice, last), BalanceOf(me_alice, req))
  IN  /\ theirDiff > 0
      /\ myDiff = AsInt(Uint(-theirDiff))
      /\ last.timestamp < req.timestamp

\* A slip: the sign of the payment is not looked at.
Beneficial_AnySign(me_alice, last, req, penalty_reserve) ==
  LET theirDiff == IntDiff(BalanceOf(~me_alice, last), BalanceOf(~me_alice, req))
      myDiff == IntDiff(BalanceOf(me_alice, last), BalanceOf(me_alice, req))
  IN  /\ myDiff = AsInt(Uint(-theirDiff))
      /\ BalanceOf(~me_alice, req) >= penalty_reserve
      /\ last.timestamp < req.timestamp

Beneficial(me_alice, last, req, penalty_reserve) ==
  LET theirDiff == IntDiff(BalanceOf(~me_alice, last), BalanceOf(~me_alice, req))
      myDiff == IntDiff(BalanceOf(me_alice, last), BalanceOf(me_alice, req))
  IN  /\ theirDiff > 0
      /\ myDiff = AsInt(Uint(-theirDiff))
      /\ BalanceOf(~me_alice, req) >= penalty_reserve
      /\ last.timestamp < req.timestamp

PayAcceptable(id, me_alice, last, req, penalty_reserve) ==
  /\ Beneficial(me_alice, last, req, penalty_reserve)
  /\ VerifyState(id, req.alice_balance, req.bob_balance, req.signature, req.from,
                 req.timestamp)

ReceiverSignature(id, me, req) ==
  SignState(id, me, req.alice_balance, req.bob_balance, req.timestamp)

\* A slip: the payer's signature goes into alice_signature, as in Pay.
ReceiverEntry_TheirsFirst(id, me, me_alice, req) ==
  OffChainEntry(id, req.timestamp, req.alice_balance, req.bob_balance,
                req.signature, ReceiverSignature(id, me, req))

ReceiverEntry(id, me, me_alice, req) ==
  LET mine == ReceiverSignature(id, me, req)
  IN  OffChainEntry(id, req.timestamp, req.alice_balance, req.bob_balance,
                    IF me_alice THEN mine ELSE req.signature,
                    IF me_alice THEN req.signature ELSE mine)
=============================================================================
