---------------------------- MODULE Commitments ----------------------------
(***************************************************************************)
(* What the two parties of a payment channel sign off chain, and how a     *)
(* signature is checked (payment/operation.go, SignState ... VerifyState;  *)
(* the same bytes are rebuilt by the contract, payment_contract.py 121-134 *)
(* and 174-187).                                                           *)
(*                                                                         *)
(* A commitment is the tuple that goes into the hash.  The concatenation   *)
(* of a tag, fixed-width numbers and a closing tag is injective, so a      *)
(* record of those values stands for the bytes and for their hash.  The    *)
(* Algorand port is the literal 4161 in every call and is left out.  An    *)
(* Ed25519 signature is the pair of its key and of what it is over.        *)
(***************************************************************************)

CONSTANT NoSignature        \* the nil slice of a state nobody has signed

\* The prefixes that keep a payment commitment and a closing commitment apart.
STATE_UPDATE == "STATE_UPDATE"
CLOSE_CHANNEL == "CLOSE_CHANNEL"

Commitment(tag, id, alice, bob, ts) ==
  [tag |-> tag, app_id |-> id, alice_balance |-> alice, bob_balance |-> bob,
   timestamp |-> ts]

Sign(key, commitment) == [key |-> key, over |-> commitment]

SignState(id, key, alice, bob, ts) ==
  Sign(key, Commitment(STATE_UPDATE, id, alice, bob, ts))

SignClose(id, key, alice, bob, ts) ==
  Sign(key, Commitment(CLOSE_CHANNEL, id, alice, bob, ts))

\* A slip: a state of another channel will do.
VerifyState_AnyApp(id, alice, bob, signature, key, ts) ==
  \E other \in {id, signature.over.app_id} :
    signature = SignState(other, key, alice, bob, ts)

VerifyState(id, alice, bob, signature, key, ts) ==
  signature = SignState(id, key, alice, bob, ts)

VerifyClose(id, alice, bob, signature, key, ts) ==
  signature = SignClose(id, key, alice, bob, ts)
=============================================================================
