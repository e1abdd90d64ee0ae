------------------------ MODULE OffChainState_proofs ------------------------
(***************************************************************************)
(* Lemmas about the operators of OffChainState and Commitments: unsigned   *)
(* and signed words, the request of a payment and what its receiver        *)
(* verifies, and logs of off-chain states.                                 *)
(***************************************************************************)
EXTENDS OffChainState, TLAPS

-----------------------------------------------------------------------------
(* Words.                                                                  *)

\* Amounts that fit in a channel, where signed and unsigned words are the same.
Half == UintSize \div 2
Small == 0..(Half - 1)

LEMMA HalfType == Half \in Nat \ {0} /\ UintSize = 2 * Half
  BY UintSizeAssumption DEF Half

LEMMA SmallUint ==
  ASSUME NEW x \in Small
  PROVE  Uint(x) = x
<1>1. x \in Nat /\ x < UintSize /\ UintSize \in Nat \ {0}
  BY HalfType DEF Small
<1> QED
  BY <1>1 DEF Uint

LEMMA SignedWord ==
  ASSUME NEW d \in (-(Half - 1))..(Half - 1)
  PROVE  AsInt(Uint(d)) = d
<1>1. Half \in Nat \ {0} /\ UintSize = 2 * Half /\ UintSize \div 2 = Half
  BY HalfType DEF Half
<1>2. CASE d >= 0
  <2>1. d \in Small
    BY <1>1, <1>2 DEF Small
  <2>2. Uint(d) = d
    BY <2>1, SmallUint
  <2> QED
    BY <1>1, <2>1, <2>2 DEF AsInt, Small
<1>3. CASE d < 0
  <2>1. Uint(d) = d + UintSize
    BY <1>1, <1>3 DEF Uint
  <2>2. ~(d + UintSize < Half)
    BY <1>1, <1>3
  <2> QED
    BY <1>1, <2>1, <2>2 DEF AsInt
<1> QED
  BY <1>1, <1>2, <1>3

LEMMA SmallDiff ==
  ASSUME NEW x \in Small, NEW y \in Small
  PROVE  IntDiff(x, y) = x - y
<1>1. x - y \in (-(Half - 1))..(Half - 1)
  BY HalfType DEF Small
<1>2. AsInt(x) = x /\ AsInt(y) = y
  BY HalfType DEF AsInt, Small, Half
<1> QED
  BY <1>1, <1>2, SignedWord DEF IntDiff

\* Words, and sums and differences of two of them, which wrap at most once.
Words == 0..(UintSize - 1)
OneWrap(x, y) == x = y \/ x = y + UintSize \/ x = y - UintSize

LEMMA WordWraps ==
  ASSUME NEW x \in Int, -UintSize <= x, x < 2 * UintSize
  PROVE  Uint(x) \in Words /\ OneWrap(Uint(x), x)
<1>1. UintSize \in Nat \ {0}
  BY HalfType
<1>2. CASE x < 0
  <2>1. Uint(x) = x + UintSize
    <3>1. CASE x = -UintSize
      BY <1>1, <3>1 DEF Uint
    <3> QED
      BY <1>1, <1>2 DEF Uint
  <2> QED
    BY <1>1, <1>2, <2>1 DEF Words, OneWrap
<1>3. CASE 0 <= x /\ x < UintSize
  <2>1. Uint(x) = x
    BY <1>1, <1>3 DEF Uint
  <2> QED
    BY <1>1, <1>3, <2>1 DEF Words, OneWrap
<1>4. CASE UintSize <= x
  <2>1. Uint(x) = x - UintSize
    BY <1>1, <1>4 DEF Uint
  <2> QED
    BY <1>1, <1>4, <2>1 DEF Words, OneWrap
<1> QED
  BY <1>1, <1>2, <1>3, <1>4

LEMMA SameWord ==
  ASSUME NEW x \in Words, NEW y \in Words, OneWrap(x, y)
  PROVE  x = y
  BY HalfType DEF Words, OneWrap

\* Two sums of two words that differ by one wrap are one word.
LEMMA SameSum ==
  ASSUME NEW a \in Words, NEW b \in Words, NEW c \in Words, NEW d \in Words,
         OneWrap(a + b, c + d)
  PROVE  Uint(a + b) = Uint(c + d)
<1>1. PICK x, y : x = Uint(a + b) /\ y = Uint(c + d)
  OBVIOUS
<1>2. /\ a + b \in Int /\ -UintSize <= a + b /\ a + b < 2 * UintSize
      /\ c + d \in Int /\ -UintSize <= c + d /\ c + d < 2 * UintSize
  BY HalfType DEF Words
<1>3. /\ x \in Words /\ OneWrap(x, a + b) /\ y \in Words /\ OneWrap(y, c + d)
  BY <1>1, <1>2, WordWraps
<1>4. x = y
  BY <1>2, <1>3, HalfType DEF Words, OneWrap
<1> QED
  BY <1>1, <1>4

\* The signed conversion is one-to-one on words, and keeps differences.
LEMMA SignedIsOne ==
  ASSUME NEW x \in Words, NEW y \in Words, AsInt(x) = AsInt(y)
  PROVE  x = y
  BY HalfType DEF Words, AsInt, Half

LEMMA SignedDiff ==
  ASSUME NEW x \in Words, NEW y \in Words
  PROVE  /\ Uint(x - y) \in Words /\ OneWrap(Uint(x - y), x - y)
         /\ IntDiff(x, y) = AsInt(Uint(x - y))
<1>1. PICK s, t : s = AsInt(x) /\ t = AsInt(y)
  OBVIOUS
<1>2. /\ s \in Int /\ -Half <= s /\ s < Half /\ (s = x \/ s = x - UintSize)
      /\ t \in Int /\ -Half <= t /\ t < Half /\ (t = y \/ t = y - UintSize)
  BY <1>1, HalfType DEF Words, AsInt, Half
<1>3. PICK v, w : v = Uint(s - t) /\ w = Uint(x - y)
  OBVIOUS
<1>4. /\ s - t \in Int /\ -UintSize <= s - t /\ s - t < 2 * UintSize
      /\ x - y \in Int /\ -UintSize <= x - y /\ x - y < 2 * UintSize
  BY <1>2, HalfType DEF Words
<1>5. v \in Words /\ OneWrap(v, s - t) /\ w \in Words /\ OneWrap(w, x - y)
  BY <1>3, <1>4, WordWraps
<1>6. v = w
  BY <1>2, <1>4, <1>5, HalfType DEF Words, OneWrap
<1> QED
  BY <1>1, <1>3, <1>5, <1>6 DEF IntDiff

-----------------------------------------------------------------------------
(* Payments.                                                               *)
LEMMA RequestTyped ==
  ASSUME NEW id, NEW n, NEW me_alice \in BOOLEAN, NEW last,
         last.alice_balance \in Nat, last.bob_balance \in Nat, NEW amount \in Nat, NEW ts
  PROVE  LET r == PayRequest(id, n, me_alice, last, amount, ts)
         IN  /\ r.alice_balance \in Nat /\ r.bob_balance \in Nat
             /\ r.from = n /\ r.timestamp = ts
             /\ r.signature = SignState(id, n, r.alice_balance, r.bob_balance, ts)
<1> DEFINE m == BalanceOf(me_alice, last)
           t == BalanceOf(~me_alice, last)
           r == PayRequest(id, n, me_alice, last, amount, ts)
<1>1. m \in Nat /\ t \in Nat
  BY DEF BalanceOf
<1>2. \/ r.alice_balance = Uint(m - amount) /\ r.bob_balance = Uint(t + amount)
      \/ r.bob_balance = Uint(m - amount) /\ r.alice_balance = Uint(t + amount)
  BY DEF PayRequest
<1>3. /\ r.from = n /\ r.timestamp = ts
      /\ r.signature = SignState(id, n, r.alice_balance, r.bob_balance, ts)
  BY DEF PayRequest
<1> HIDE DEF m, t, r
<1>4. m - amount \in Int /\ t + amount \in Int
  BY <1>1
<1>5. \A x \in Int : Uint(x) \in Nat
  BY HalfType DEF Uint
<1>6. r.alice_balance \in Nat /\ r.bob_balance \in Nat
  BY <1>2, <1>4, <1>5
<1>7. /\ r.alice_balance \in Nat /\ r.bob_balance \in Nat
      /\ r.from = n /\ r.timestamp = ts
      /\ r.signature = SignState(id, n, r.alice_balance, r.bob_balance, ts)
  BY <1>3, <1>6
<1> QED
  BY <1>7 DEF r

\* What the payer sends splits what its latest state splits: nothing wraps.
LEMMA RequestParts ==
  ASSUME NEW id, NEW n, NEW me_alice \in BOOLEAN, NEW last,
         last.alice_balance \in Small, last.bob_balance \in Small,
         last.alice_balance + last.bob_balance \in Small,
         NEW amount \in Nat, amount <= BalanceOf(me_alice, last), NEW ts
  PROVE  LET r == PayRequest(id, n, me_alice, last, amount, ts)
         IN  /\ r.alice_balance \in Small /\ r.bob_balance \in Small
             /\ r.alice_balance \in Nat /\ r.bob_balance \in Nat
             /\ r.alice_balance + r.bob_balance = last.alice_balance + last.bob_balance
             /\ r.from = n /\ r.timestamp = ts
             /\ r.signature = SignState(id, n, r.alice_balance, r.bob_balance, ts)
<1> DEFINE m == BalanceOf(me_alice, last)
           t == BalanceOf(~me_alice, last)
           r == PayRequest(id, n, me_alice, last, amount, ts)
<1>1. /\ m \in Small /\ t \in Small /\ amount <= m
      /\ m + t \in Small
      /\ m + t = last.alice_balance + last.bob_balance
  BY DEF BalanceOf, Small
<1>2. \/ r.alice_balance = Uint(m - amount) /\ r.bob_balance = Uint(t + amount)
      \/ r.bob_balance = Uint(m - amount) /\ r.alice_balance = Uint(t + amount)
  BY DEF PayRequest
<1>3. /\ r.from = n /\ r.timestamp = ts
      /\ r.signature = SignState(id, n, r.alice_balance, r.bob_balance, ts)
  BY DEF PayRequest
<1> HIDE DEF m, t, r
<1>4. m - amount \in Small /\ t + amount \in Small
  BY <1>1, HalfType DEF Small
<1>5. Uint(m - amount) = m - amount /\ Uint(t + amount) = t + amount
  BY <1>4, SmallUint
<1>6. (m - amount) + (t + amount) = m + t /\ (t + amount) + (m - amount) = m + t
  BY <1>1 DEF Small
<1>7. /\ r.alice_balance \in Small /\ r.bob_balance \in Small
      /\ r.alice_balance + r.bob_balance = m + t
  BY <1>2, <1>4, <1>5, <1>6
<1>8. \A x \in Small : x \in Nat
  BY DEF Small
<1>9. /\ r.alice_balance \in Small /\ r.bob_balance \in Small
      /\ r.alice_balance \in Nat /\ r.bob_balance \in Nat
      /\ r.alice_balance + r.bob_balance = last.alice_balance + last.bob_balance
      /\ r.from = n /\ r.timestamp = ts
      /\ r.signature = SignState(id, n, r.alice_balance, r.bob_balance, ts)
  BY <1>1, <1>3, <1>7, <1>8
<1> QED
  BY <1>9 DEF r

\* A receiver takes a state only if it splits what its latest one splits, gives
\* it more, and is newer.
LEMMA BeneficialSums ==
  ASSUME NEW me_alice \in BOOLEAN, NEW last, NEW req, NEW reserve,
         last.alice_balance \in Small, last.bob_balance \in Small,
         req.alice_balance \in Small, req.bob_balance \in Small,
         Beneficial(me_alice, last, req, reserve)
  PROVE  /\ req.alice_balance + req.bob_balance = last.alice_balance + last.bob_balance
         /\ BalanceOf(me_alice, last) < BalanceOf(me_alice, req)
         /\ last.timestamp < req.timestamp
<1> DEFINE t == BalanceOf(~me_alice, last)
           u == BalanceOf(~me_alice, req)
           m == BalanceOf(me_alice, last)
           k == BalanceOf(me_alice, req)
<1>1. /\ \/ /\ t = last.alice_balance /\ u = req.alice_balance
            /\ m = last.bob_balance /\ k = req.bob_balance
         \/ /\ t = last.bob_balance /\ u = req.bob_balance
            /\ m = last.alice_balance /\ k = req.alice_balance
  BY DEF BalanceOf
<1>2. t \in Small /\ u \in Small /\ m \in Small /\ k \in Small
  BY <1>1
<1>3. /\ IntDiff(m, k) = AsInt(Uint(-IntDiff(t, u)))
      /\ IntDiff(t, u) > 0
      /\ last.timestamp < req.timestamp
  BY DEF Beneficial
<1> HIDE DEF t, u, m, k
<1>4. IntDiff(m, k) = m - k /\ IntDiff(t, u) = t - u
  BY <1>2, SmallDiff
<1>5. -(t - u) \in (-(Half - 1))..(Half - 1)
  BY <1>2, HalfType DEF Small
<1>6. m - k = -(t - u)
  BY <1>3, <1>4, <1>5, SignedWord
<1>7. k + u = m + t /\ u + k = t + m
  BY <1>2, <1>6 DEF Small
<1>8. m < k
  BY <1>2, <1>3, <1>4, <1>6 DEF Small
<1> QED
  BY <1>1, <1>3, <1>7, <1>8 DEF m, k

\* Whatever is paid, and however the words wrap, the sum of the balances stays
\* the same word: in what the payer sends ...
LEMMA RequestSums ==
  ASSUME NEW id, NEW n, NEW me_alice \in BOOLEAN, NEW last,
         last.alice_balance \in Words, last.bob_balance \in Words,
         NEW amount \in Words, NEW ts
  PROVE  LET r == PayRequest(id, n, me_alice, last, amount, ts)
         IN  /\ r.alice_balance \in Words /\ r.bob_balance \in Words
             /\ Uint(r.alice_balance + r.bob_balance)
                  = Uint(last.alice_balance + last.bob_balance)
<1> DEFINE m == BalanceOf(me_alice, last)
           t == BalanceOf(~me_alice, last)
           r == PayRequest(id, n, me_alice, last, amount, ts)
<1>1. /\ m \in Words /\ t \in Words
      /\ \/ m = last.alice_balance /\ t = last.bob_balance
         \/ t = last.alice_balance /\ m = last.bob_balance
  BY DEF BalanceOf
<1>2. \/ r.alice_balance = Uint(m - amount) /\ r.bob_balance = Uint(t + amount)
      \/ r.bob_balance = Uint(m - amount) /\ r.alice_balance = Uint(t + amount)
  BY DEF PayRequest
<1> HIDE DEF m, t, r
<1>3. PICK v, w : v = Uint(m - amount) /\ w = Uint(t + amount)
  OBVIOUS
<1>4. /\ m - amount \in Int /\ -UintSize <= m - amount /\ m - amount < 2 * UintSize
      /\ t + amount \in Int /\ -UintSize <= t + amount /\ t + amount < 2 * UintSize
  BY <1>1, HalfType DEF Words
<1>5. v \in Words /\ OneWrap(v, m - amount) /\ w \in Words /\ OneWrap(w, t + amount)
  BY <1>3, <1>4, WordWraps
<1>6. OneWrap(v + w, m + t) /\ v + w = w + v /\ m + t = t + m
  BY <1>1, <1>5, HalfType DEF Words, OneWrap
<1>7. Uint(v + w) = Uint(m + t)
  BY <1>1, <1>5, <1>6, SameSum
<1>8. /\ r.alice_balance \in Words /\ r.bob_balance \in Words
      /\ Uint(r.alice_balance + r.bob_balance)
           = Uint(last.alice_balance + last.bob_balance)
  BY <1>1, <1>2, <1>3, <1>5, <1>6, <1>7
<1> QED
  BY <1>8 DEF r

\* ... and in what the receiver accepts.
LEMMA BeneficialWords ==
  ASSUME NEW me_alice \in BOOLEAN, NEW last, NEW req, NEW reserve,
         last.alice_balance \in Words, last.bob_balance \in Words,
         req.alice_balance \in Words, req.bob_balance \in Words,
         Beneficial(me_alice, last, req, reserve)
  PROVE  /\ Uint(req.alice_balance + req.bob_balance)
              = Uint(last.alice_balance + last.bob_balance)
         /\ last.timestamp < req.timestamp
<1> DEFINE t == BalanceOf(~me_alice, last)
           u == BalanceOf(~me_alice, req)
           m == BalanceOf(me_alice, last)
           k == BalanceOf(me_alice, req)
<1>1. /\ \/ /\ t = last.alice_balance /\ u = req.alice_balance
            /\ m = last.bob_balance /\ k = req.bob_balance
         \/ /\ t = last.bob_balance /\ u = req.bob_balance
            /\ m = last.alice_balance /\ k = req.alice_balance
  BY DEF BalanceOf
<1>2. t \in Words /\ u \in Words /\ m \in Words /\ k \in Words
  BY <1>1
<1>3. /\ IntDiff(m, k) = AsInt(Uint(-IntDiff(t, u)))
      /\ last.timestamp < req.timestamp
  BY DEF Beneficial
<1> HIDE DEF t, u, m, k
<1>4. PICK v, w : v = Uint(m - k) /\ w = Uint(t - u)
  OBVIOUS
<1>5. /\ v \in Words /\ OneWrap(v, m - k) /\ IntDiff(m, k) = AsInt(v)
      /\ w \in Words /\ OneWrap(w, t - u) /\ IntDiff(t, u) = AsInt(w)
  BY <1>2, <1>4, SignedDiff
<1>6. PICK s : s = AsInt(w)
  OBVIOUS
<1>7. s \in Int /\ -Half <= s /\ s < Half /\ (s = w \/ s = w - UintSize)
  BY <1>5, <1>6, HalfType DEF Words, AsInt, Half
<1>8. PICK x : x = Uint(-s)
  OBVIOUS
<1>9. -s \in Int /\ -UintSize <= -s /\ -s < 2 * UintSize
  BY <1>7, HalfType
<1>10. x \in Words /\ OneWrap(x, -s)
  BY <1>8, <1>9, WordWraps
<1>11. v = x
  BY <1>3, <1>5, <1>6, <1>8, <1>10, SignedIsOne
<1>12. OneWrap(k + u, m + t) /\ k + u = u + k /\ m + t = t + m
  BY <1>2, <1>5, <1>7, <1>10, <1>11, HalfType DEF Words, OneWrap
<1>13. Uint(k + u) = Uint(m + t)
  BY <1>2, <1>12, SameSum
<1> QED
  BY <1>1, <1>3, <1>12, <1>13

-----------------------------------------------------------------------------
(* Signatures.                                                             *)
LEMMA SameClose ==
  ASSUME NEW id, NEW key, NEW a, NEW b, NEW ts, NEW c, NEW d, NEW us,
         VerifyClose(id, c, d, SignClose(id, key, a, b, ts), key, us)
  PROVE  a = c /\ b = d /\ ts = us
<1>1. SignClose(id, key, a, b, ts) = SignClose(id, key, c, d, us)
  BY DEF VerifyClose
<1>2. Commitment(CLOSE_CHANNEL, id, a, b, ts) = Commitment(CLOSE_CHANNEL, id, c, d, us)
  <2>1. \A w : Sign(key, w).over = w
    BY DEF Sign
  <2> QED
    BY <1>1, <2>1 DEF SignClose
<1>3. /\ Commitment(CLOSE_CHANNEL, id, a, b, ts).alice_balance = a
      /\ Commitment(CLOSE_CHANNEL, id, a, b, ts).bob_balance = b
      /\ Commitment(CLOSE_CHANNEL, id, a, b, ts).timestamp = ts
      /\ Commitment(CLOSE_CHANNEL, id, c, d, us).alice_balance = c
      /\ Commitment(CLOSE_CHANNEL, id, c, d, us).bob_balance = d
      /\ Commitment(CLOSE_CHANNEL, id, c, d, us).timestamp = us
  BY DEF Commitment
<1> QED
  BY <1>2, <1>3

LEMMA SameState ==
  ASSUME NEW id, NEW key, NEW a, NEW b, NEW ts, NEW other, NEW c, NEW d, NEW us,
         VerifyState(other, c, d, SignState(id, key, a, b, ts), key, us)
  PROVE  id = other /\ a = c /\ b = d /\ ts = us
<1>1. SignState(id, key, a, b, ts) = SignState(other, key, c, d, us)
  BY DEF VerifyState
<1>2. Commitment(STATE_UPDATE, id, a, b, ts) = Commitment(STATE_UPDATE, other, c, d, us)
  <2>1. \A w : Sign(key, w).over = w
    BY DEF Sign
  <2> QED
    BY <1>1, <2>1 DEF SignState
<1>3. /\ Commitment(STATE_UPDATE, id, a, b, ts).app_id = id
      /\ Commitment(STATE_UPDATE, id, a, b, ts).alice_balance = a
      /\ Commitment(STATE_UPDATE, id, a, b, ts).bob_balance = b
      /\ Commitment(STATE_UPDATE, id, a, b, ts).timestamp = ts
      /\ Commitment(STATE_UPDATE, other, c, d, us).app_id = other
      /\ Commitment(STATE_UPDATE, other, c, d, us).alice_balance = c
      /\ Commitment(STATE_UPDATE, other, c, d, us).bob_balance = d
      /\ Commitment(STATE_UPDATE, other, c, d, us).timestamp = us
  BY DEF Commitment
<1> QED
  BY <1>2, <1>3

-----------------------------------------------------------------------------
(* Logs.  That a log with states has a latest one is part of being ordered, *)
(* for Latest is a CHOOSE.                                                 *)
Ordered(l) ==
  /\ DOMAIN l \subseteq Nat \ {0}
  /\ DOMAIN l = {} \/ \E ts \in DOMAIN l : \A other \in DOMAIN l : other <= ts

LEMMA EmptyOrdered == Ordered(EmptyLog) /\ DOMAIN EmptyLog = {}
  BY DEF Ordered, EmptyLog

LEMMA OrderedLatest ==
  ASSUME NEW l, Ordered(l)
  PROVE  /\ HasLatest(l) <=> DOMAIN l # {}
         /\ HasLatest(l) =>
              /\ LatestTimestamp(l) \in DOMAIN l
              /\ Latest(l) = l[LatestTimestamp(l)]
              /\ \A ts \in DOMAIN l : ts <= LatestTimestamp(l)
<1>1. HasLatest(l) <=> DOMAIN l # {}
  BY DEF Ordered, HasLatest
<1>2. ASSUME DOMAIN l # {}
      PROVE  /\ LatestTimestamp(l) \in DOMAIN l
             /\ \A ts \in DOMAIN l : ts <= LatestTimestamp(l)
  <2>1. \E ts \in DOMAIN l : \A other \in DOMAIN l : other <= ts
    BY <1>2 DEF Ordered
  <2> QED
    BY <2>1 DEF LatestTimestamp
<1> QED
  BY <1>1, <1>2 DEF Latest

LEMMA StoreOrdered ==
  ASSUME NEW l, Ordered(l), NEW e, NEW t \in Nat \ {0}, e.timestamp = t
  PROVE  /\ Ordered(Store(l, e))
         /\ DOMAIN Store(l, e) = DOMAIN l \cup {t}
         /\ Store(l, e)[t] = e
         /\ \A ts \in DOMAIN l : ts # t => Store(l, e)[ts] = l[ts]
<1>1. /\ DOMAIN Store(l, e) = DOMAIN l \cup {t}
      /\ Store(l, e)[t] = e
      /\ \A ts \in DOMAIN l : ts # t => Store(l, e)[ts] = l[ts]
  BY DEF Store
<1>2. DOMAIN l \subseteq Int
  BY DEF Ordered
<1>3. \E ts \in DOMAIN Store(l, e) : \A other \in DOMAIN Store(l, e) : other <= ts
  <2>1. CASE DOMAIN l = {}
    <3>1. t <= t
      OBVIOUS
    <3> QED
      BY <1>1, <2>1, <3>1
  <2>2. CASE DOMAIN l # {}
    <3>1. PICK m \in DOMAIN l : \A other \in DOMAIN l : other <= m
      BY <2>2 DEF Ordered
    <3>2. CASE t <= m
      BY <1>1, <3>1, <3>2
    <3>3. CASE ~(t <= m)
      <4>1. \A other \in DOMAIN l \cup {t} : other <= t
        BY <1>2, <3>1, <3>3
      <4> QED
        BY <1>1, <4>1
    <3> QED
      BY <3>2, <3>3
  <2> QED
    BY <2>1, <2>2
<1> QED
  BY <1>1, <1>3 DEF Ordered

\* A state newer than all others is the latest of the log it is stored in, and
\* one that is older leaves the latest as it is.
LEMMA LatestAfterStore ==
  ASSUME NEW l, Ordered(l), NEW e, NEW t \in Nat \ {0}, e.timestamp = t
  PROVE  /\ HasLatest(Store(l, e))
         /\ (\A ts \in DOMAIN l : ts < t) =>
              Latest(Store(l, e)) = e /\ LatestTimestamp(Store(l, e)) = t
         /\ (HasLatest(l) /\ LatestTimestamp(l) > t) =>
              /\ Latest(Store(l, e)) = Latest(l)
              /\ LatestTimestamp(Store(l, e)) = LatestTimestamp(l)
<1>1. PICK s : s = Store(l, e)
  OBVIOUS
<1>2. /\ Ordered(s) /\ DOMAIN s = DOMAIN l \cup {t} /\ s[t] = e
      /\ \A ts \in DOMAIN l : ts # t => s[ts] = l[ts]
  <2>1. Ordered(Store(l, e))
    BY StoreOrdered
  <2>2. /\ DOMAIN Store(l, e) = DOMAIN l \cup {t}
        /\ Store(l, e)[t] = e
        /\ \A ts \in DOMAIN l : ts # t => Store(l, e)[ts] = l[ts]
    BY DEF Store
  <2> QED
    BY <1>1, <2>1, <2>2
<1>3. /\ HasLatest(s)
      /\ LatestTimestamp(s) \in DOMAIN s /\ Latest(s) = s[LatestTimestamp(s)]
      /\ \A ts \in DOMAIN s : ts <= LatestTimestamp(s)
  BY <1>2, OrderedLatest
<1>4. DOMAIN l \subseteq Nat
  BY DEF Ordered
<1>5. ASSUME \A ts \in DOMAIN l : ts < t
      PROVE  LatestTimestamp(s) = t
  BY <1>2, <1>3, <1>4, <1>5
<1>6. ASSUME HasLatest(l), LatestTimestamp(l) > t
      PROVE  LatestTimestamp(s) = LatestTimestamp(l) /\ Latest(s) = Latest(l)
  <2>1. /\ LatestTimestamp(l) \in DOMAIN l /\ Latest(l) = l[LatestTimestamp(l)]
        /\ \A ts \in DOMAIN l : ts <= LatestTimestamp(l)
    BY <1>6, OrderedLatest
  <2>2. LatestTimestamp(s) = LatestTimestamp(l)
    BY <1>2, <1>3, <1>4, <1>6, <2>1
  <2> QED
    BY <1>2, <1>3, <1>4, <1>6, <2>1, <2>2
<1> QED
  BY <1>1, <1>2, <1>3, <1>5, <1>6

\* Whatever is stored, the latest state is the new one or the one before.
LEMMA LatestOfStore ==
  ASSUME NEW l, Ordered(l), NEW e, NEW t \in Nat \ {0}, e.timestamp = t
  PROVE  \/ Latest(Store(l, e)) = e
         \/ HasLatest(l) /\ Latest(Store(l, e)) = Latest(l)
<1>1. PICK s : s = Store(l, e)
  OBVIOUS
<1>2. /\ DOMAIN s = DOMAIN l \cup {t} /\ s[t] = e
      /\ \A ts \in DOMAIN l : ts # t => s[ts] = l[ts]
  BY <1>1 DEF Store
<1>3. Ordered(s)
  BY <1>1, StoreOrdered
<1>4. /\ LatestTimestamp(s) \in DOMAIN s /\ Latest(s) = s[LatestTimestamp(s)]
      /\ \A ts \in DOMAIN s : ts <= LatestTimestamp(s)
  <2>1. DOMAIN s # {}
    BY <1>2
  <2> QED
    BY <1>3, <2>1, OrderedLatest
<1>5. CASE LatestTimestamp(s) # t
  <2>1. LatestTimestamp(s) \in DOMAIN l
    BY <1>2, <1>4, <1>5
  <2>2. /\ HasLatest(l) /\ LatestTimestamp(l) \in DOMAIN l
        /\ Latest(l) = l[LatestTimestamp(l)]
        /\ \A ts \in DOMAIN l : ts <= LatestTimestamp(l)
    BY <2>1, OrderedLatest
  <2>3. DOMAIN l \subseteq Nat
    BY DEF Ordered
  <2>4. LatestTimestamp(s) = LatestTimestamp(l)
    BY <1>2, <1>4, <2>1, <2>2, <2>3
  <2> QED
    BY <1>1, <1>2, <1>4, <1>5, <2>1, <2>2, <2>4
<1> QED
  BY <1>1, <1>2, <1>4, <1>5
=============================================================================
