--------------------------- MODULE RateLimitProofs ---------------------------
(***************************************************************************)
(* The lazy buckets agree with the reference for any caps and intervals,   *)
(* any sources, any table size, and however long a bucket is not looked    *)
(* at: the arithmetic of whole intervals and remainders.                   *)
(***************************************************************************)
EXTENDS RateLimit, TLAPS

-----------------------------------------------------------------------------
(* Whole intervals.                                                        *)

LEMMA Monotone ==
  ASSUME NEW d \in Nat \ {0}, NEW a \in Int, NEW b \in Int, a >= b + 1
  PROVE  d * a >= d * b + d
PROOF
  <1>1. PICK k \in Nat : a = b + 1 + k
    <2>1. a - b - 1 \in Nat /\ a = b + 1 + (a - b - 1)
      OBVIOUS
    <2> QED BY <2>1
  <1>2. d * a = d * b + d + d * k
    BY <1>1
  <1>3. d * k >= 0 /\ d * b \in Int /\ d * k \in Int
    BY <1>1
  <1> QED BY <1>2, <1>3

LEMMA Quotients == \A d, n \in Int : d > 0 => n = d * (n \div d) + (n % d)
PROOF
  BY SMTT(30)

LEMMA Euclid ==
  ASSUME NEW d \in Nat \ {0}, NEW n \in Nat
  PROVE  n \div d \in Nat /\ n % d \in 0..(d - 1) /\ n = d * (n \div d) + (n % d)
PROOF
  <1>1. n = d * (n \div d) + (n % d)
    BY Quotients
  <1>2. n % d \in 0..(d - 1) /\ n \div d \in Int
    OBVIOUS
  <1>3. n \div d >= 0
    BY SMTT(30)
  <1> QED BY <1>1, <1>2, <1>3

LEMMA Unique ==
  ASSUME NEW d \in Nat \ {0}, NEW n \in Nat, NEW q \in Int, NEW r \in 0..(d - 1), n = d * q + r
  PROVE  q = n \div d /\ r = n % d
PROOF
  <1> DEFINE p == n \div d
  <1> DEFINE s == n % d
  <1>1. p \in Nat /\ s \in 0..(d - 1) /\ n = d * p + s
    BY Euclid
  <1> HIDE DEF p, s
  <1>2. ~(p >= q + 1)
    <2> SUFFICES ASSUME p >= q + 1 PROVE FALSE
      OBVIOUS
    <2>1. d * p >= d * q + d
      BY <1>1, Monotone
    <2> QED BY <2>1, <1>1
  <1>3. ~(q >= p + 1)
    <2> SUFFICES ASSUME q >= p + 1 PROVE FALSE
      OBVIOUS
    <2>1. d * q >= d * p + d
      BY <1>1, Monotone
    <2> QED BY <2>1, <1>1
  <1>4. p = q
    BY <1>1, <1>2, <1>3
  <1> QED BY <1>1, <1>4 DEF p, s

\* Another unit completes an interval exactly when nothing remains.
LEMMA NextUnit ==
  ASSUME NEW d \in Nat \ {0}, NEW n \in Nat
  PROVE  (n + 1) \div d = (n \div d) + (IF (n + 1) % d = 0 THEN 1 ELSE 0)
PROOF
  <1> DEFINE p == n \div d
  <1> DEFINE s == n % d
  <1>1. p \in Nat /\ s \in 0..(d - 1) /\ n = d * p + s
    BY Euclid
  <1> HIDE DEF p, s
  <1>2. CASE s + 1 = d
    <2>1. n + 1 = d * (p + 1) + 0
      BY <1>1, <1>2
    <2>2. p + 1 = (n + 1) \div d /\ 0 = (n + 1) % d
      BY <1>1, <2>1, Unique
    <2> QED BY <2>2 DEF p
  <1>3. CASE s + 1 # d
    <2>1. PICK r \in 0..(d - 1) : r = s + 1 /\ n + 1 = d * p + r /\ r # 0
      BY <1>1, <1>3
    <2>2. p = (n + 1) \div d /\ r = (n + 1) % d
      <3>1. n + 1 \in Nat /\ p \in Int
        BY <1>1
      <3> QED BY <2>1, <3>1, Unique
    <2>3. (n + 1) % d # 0
      BY <2>1, <2>2
    <2>4. (n + 1) \div d = p + 0
      <3>1. p = p + 0
        BY <1>1
      <3> QED BY <2>2, <3>1
    <2> QED BY <2>3, <2>4 DEF p
  <1> QED BY <1>2, <1>3

\* Whole intervals before do not change what remains.
LEMMA SameRemainder ==
  ASSUME NEW d \in Nat \ {0}, NEW m \in Nat, NEW n \in Nat, m % d = 0
  PROVE  (m + n) % d = n % d
PROOF
  <1> DEFINE p == m \div d
  <1> DEFINE q == n \div d
  <1> DEFINE s == n % d
  <1>1. p \in Nat /\ m = d * p
    BY Euclid
  <1>2. q \in Nat /\ s \in 0..(d - 1) /\ n = d * q + s
    BY Euclid
  <1> HIDE DEF p, q, s
  <1>3. m + n = d * (p + q) + s
    <2>1. d * (p + q) = d * p + d * q
      BY <1>1, <1>2
    <2> QED BY <1>1, <1>2, <2>1
  <1>4. s = (m + n) % d
    BY <1>1, <1>2, <1>3, Unique
  <1> QED BY <1>4 DEF s

LEMMA LessOfTwo ==
  ASSUME NEW a \in Nat, NEW b \in Nat
  PROVE  Min({a, b}) = IF a <= b THEN a ELSE b
PROOF
  <1>1. \E x \in {a, b} : \A y \in {a, b} : x =< y
    <2>1. CASE a <= b
      BY <2>1
    <2>2. CASE b <= a
      BY <2>2
    <2> QED BY <2>1, <2>2
  <1> QED BY <1>1 DEF Min

-----------------------------------------------------------------------------
(* One bucket and its reference.                                           *)

Buckets(c) == [tokens : 0..c, at : 0..now]

\* A bucket was last refilled whole intervals after the reference was made, and
\* lacks the tokens of the intervals since.
Agrees(b, ref, d, c) ==
  /\ ref.born \in Nat /\ ref.born <= b.at /\ (b.at - ref.born) % d = 0
  /\ ref.tokens = Min({c, b.tokens + ((now - b.at) \div d)})

LEMMA TokensOf ==
  ASSUME now \in Nat, NEW d \in Nat \ {0}, NEW c \in Nat, NEW b \in Buckets(c), NEW ref,
         Agrees(b, ref, d, c)
  PROVE  /\ now - b.at \in Nat /\ (now - b.at) \div d \in Nat /\ ref.tokens \in 0..c
         /\ (now - b.at) \div d = 0 => ref.tokens = b.tokens
         /\ (now - b.at) \div d >= c => ref.tokens = c
PROOF
  <1>1. now - b.at \in Nat /\ b.tokens \in 0..c
    BY DEF Buckets
  <1>2. (now - b.at) \div d \in Nat
    BY <1>1, Euclid
  <1> DEFINE k == (now - b.at) \div d
  <1>3. k \in Nat /\ b.tokens + k \in Nat
    BY <1>1, <1>2
  <1>4. ref.tokens = IF c <= b.tokens + k THEN c ELSE b.tokens + k
    BY <1>3, LessOfTwo DEF Agrees
  <1> HIDE DEF k
  <1>5. ref.tokens \in 0..c /\ (k = 0 => ref.tokens = b.tokens) /\ (k >= c => ref.tokens = c)
    BY <1>1, <1>3, <1>4
  <1> QED BY <1>1, <1>2, <1>5 DEF k

\* Refilling gives the bucket the tokens of its reference, and loses no time.
LEMMA Refilled ==
  ASSUME now \in Nat, NEW d \in Nat \ {0}, NEW c \in Nat, NEW b \in Buckets(c), NEW ref,
         Agrees(b, ref, d, c)
  PROVE  /\ Refill(b, d, c) \in Buckets(c) /\ Refill(b, d, c).tokens = ref.tokens
         /\ (now - Refill(b, d, c).at) \div d = 0 /\ now - Refill(b, d, c).at < d
         /\ ref.born <= Refill(b, d, c).at /\ (Refill(b, d, c).at - ref.born) % d = 0
PROOF
  <1> DEFINE n == now - b.at
  <1> DEFINE k == n \div d
  <1> DEFINE s == n % d
  <1>1. n \in Nat /\ k \in Nat /\ ref.tokens \in 0..c /\ b.tokens \in 0..c /\ b.at \in 0..now
    BY TokensOf DEF Buckets
  <1>2. s \in 0..(d - 1) /\ n = d * k + s
    BY <1>1, Euclid
  <1>3. ref.born \in Nat /\ ref.born <= b.at /\ (b.at - ref.born) % d = 0
    BY DEF Agrees
  <1>4. CASE k = 0
    <2>1. Refill(b, d, c) = b /\ ref.tokens = b.tokens
      BY <1>4, TokensOf DEF Refill
    <2>2. n < d
      <3> HIDE DEF k, s
      <3> QED BY <1>1, <1>2, <1>4
    <2> QED BY <1>3, <1>4, <2>1, <2>2
  <1>5. CASE k # 0
    <2> DEFINE at == now - s
    <2>1. Refill(b, d, c) = [tokens |-> Min({c, b.tokens + Min({k, c})}), at |-> at]
      BY <1>5 DEF Refill
    <2>2. Min({c, b.tokens + Min({k, c})}) = ref.tokens
      <3> HIDE DEF k
      <3>1. Min({k, c}) = IF k <= c THEN k ELSE c
        BY <1>1, LessOfTwo
      <3>2. Min({k, c}) \in Nat /\ b.tokens + Min({k, c}) \in Nat /\ b.tokens + k \in Nat
        BY <1>1, <3>1
      <3>3. Min({c, b.tokens + Min({k, c})}) =
              IF c <= b.tokens + Min({k, c}) THEN c ELSE b.tokens + Min({k, c})
        BY <3>2, LessOfTwo
      <3>4. Min({c, b.tokens + k}) = IF c <= b.tokens + k THEN c ELSE b.tokens + k
        BY <3>2, LessOfTwo
      <3>5. ref.tokens = Min({c, b.tokens + k})
        BY DEF Agrees, k
      <3> QED BY <1>1, <3>1, <3>3, <3>4, <3>5
    <2>3. at \in 0..now /\ b.at <= at /\ at - b.at = d * k /\ now - at = s
      <3>1. d * k \in Nat
        <4> HIDE DEF k
        <4> QED BY <1>1
      <3> HIDE DEF k, s
      <3> QED BY <1>1, <1>2, <3>1
    <2>4. (at - b.at) % d = 0
      <3> HIDE DEF k, s, at
      <3>1. PICK m \in Nat : m = at - b.at
        BY <1>1, <2>3
      <3>2. d * k \in Nat /\ d * k = d * k + 0
        BY <1>1
      <3>3. m = d * k + 0
        BY <2>3, <3>1, <3>2
      <3>4. m % d = 0
        <4>1. k \in Int /\ 0 \in 0..(d - 1)
          BY <1>1
        <4> QED BY <3>3, <4>1, Unique
      <3> QED BY <3>1, <3>4
    <2>5. (at - ref.born) % d = 0 /\ ref.born <= at
      <3> HIDE DEF at
      <3>1. /\ b.at - ref.born \in Nat /\ at - b.at \in Nat
            /\ at - ref.born = (b.at - ref.born) + (at - b.at) /\ ref.born <= at
        <4>1. at \in 0..now /\ b.at <= at
          BY <2>3
        <4> QED BY <1>1, <1>3, <4>1
      <3>2. ((b.at - ref.born) + (at - b.at)) % d = (at - b.at) % d
        BY <1>3, <3>1, SameRemainder
      <3> QED BY <2>4, <3>1, <3>2
    <2>6. s \div d = 0 /\ s < d
      <3>0. s \in 0..(d - 1)
        BY <1>2
      <3> HIDE DEF s
      <3>1. s \in Nat /\ s = d * 0 + s /\ s < d
        BY <3>0
      <3> QED BY <3>0, <3>1, Unique
    <2> HIDE DEF at
    <2>7. (now - at) \div d = 0 /\ now - at < d
      BY <2>3, <2>6
    <2> QED BY <1>1, <2>1, <2>2, <2>3, <2>5, <2>7 DEF Buckets
  <1> QED BY <1>4, <1>5

\* Time passes: the reference is given its token when the bucket has one more
\* whole interval behind it.
LEMMA Ticked ==
  ASSUME now \in Nat, NEW d \in Nat \ {0}, NEW c \in Nat, NEW b \in Buckets(c), NEW ref,
         Agrees(b, ref, d, c)
  PROVE  (IF (now + 1 - ref.born) % d = 0 THEN Min({c, ref.tokens + 1}) ELSE ref.tokens)
           = Min({c, b.tokens + ((now + 1 - b.at) \div d)})
PROOF
  <1>1. PICK n \in Nat : n = now - b.at
    BY TokensOf
  <1>2. PICK m \in Nat : m = b.at - ref.born
    <2>1. ref.born \in Nat /\ ref.born <= b.at /\ b.at \in Nat
      BY DEF Agrees, Buckets
    <2> QED BY <2>1
  <1>3. now + 1 - b.at = n + 1 /\ now + 1 - ref.born = m + (n + 1)
    <2>1. ref.born \in Nat /\ b.at \in Nat
      BY DEF Agrees, Buckets
    <2> QED BY <1>1, <1>2, <2>1
  <1>4. (now + 1 - ref.born) % d = (n + 1) % d
    <2>1. m % d = 0 /\ n + 1 \in Nat
      BY <1>2 DEF Agrees
    <2>2. (m + (n + 1)) % d = (n + 1) % d
      BY <2>1, SameRemainder
    <2> QED BY <1>3, <2>2
  <1>5. PICK k \in Nat : k = n \div d
    BY Euclid
  <1>6. (now + 1 - b.at) \div d = k + (IF (n + 1) % d = 0 THEN 1 ELSE 0)
    BY <1>3, <1>5, NextUnit
  <1>7. b.tokens \in 0..c /\ ref.tokens = Min({c, b.tokens + k})
    BY <1>1, <1>5 DEF Agrees, Buckets
  <1>8. /\ b.tokens + k \in Nat
        /\ ref.tokens = IF c <= b.tokens + k THEN c ELSE b.tokens + k
    BY <1>7, LessOfTwo
  <1>9. CASE (n + 1) % d = 0
    <2>1. b.tokens + (k + 1) \in Nat /\ ref.tokens + 1 \in Nat
      BY <1>7, <1>8
    <2>2. Min({c, b.tokens + (k + 1)}) = IF c <= b.tokens + (k + 1) THEN c ELSE b.tokens + (k + 1)
      BY <2>1, LessOfTwo
    <2>3. Min({c, ref.tokens + 1}) = IF c <= ref.tokens + 1 THEN c ELSE ref.tokens + 1
      BY <2>1, LessOfTwo
    <2>4. Min({c, b.tokens + (k + 1)}) = Min({c, ref.tokens + 1})
      BY <1>7, <1>8, <2>2, <2>3
    <2> QED BY <1>4, <1>6, <1>9, <2>4
  <1>10. CASE (n + 1) % d # 0
    <2>1. k + 0 = k
      OBVIOUS
    <2> QED BY <1>4, <1>6, <1>7, <1>10, <2>1
  <1> QED BY <1>9, <1>10

\* A bucket that is full, or has just been refilled and spent, agrees.
LEMMA Fresh ==
  ASSUME now \in Nat, NEW d \in Nat \ {0}, NEW c \in Nat, NEW b \in Buckets(c), NEW ref,
         ref.born \in Nat, ref.born <= b.at, (b.at - ref.born) % d = 0,
         (now - b.at) \div d = 0, ref.tokens = b.tokens
  PROVE  Agrees(b, ref, d, c)
PROOF
  <1>1. b.tokens \in Nat /\ b.tokens <= c /\ b.tokens + 0 = b.tokens
    BY DEF Buckets
  <1>2. Min({c, b.tokens + 0}) = b.tokens
    BY <1>1, LessOfTwo
  <1> QED BY <1>2 DEF Agrees

\* A bucket that was refilled agrees still, and so it does when a token of it
\* and a token of its reference are spent.
LEMMA Respent ==
  ASSUME now \in Nat, NEW d \in Nat \ {0}, NEW c \in Nat, NEW b \in Buckets(c),
         NEW ref \in [tokens : Nat, born : Nat], Agrees(b, ref, d, c)
  PROVE  /\ Agrees(Refill(b, d, c), ref, d, c)
         /\ Refill(b, d, c).tokens > 0 =>
              /\ Spend(Refill(b, d, c)) \in Buckets(c)
              /\ Spend(ref) \in [tokens : Nat, born : Nat]
              /\ Agrees(Spend(Refill(b, d, c)), Spend(ref), d, c)
PROOF
  <1> DEFINE r == Refill(b, d, c)
  <1>1. /\ r \in Buckets(c) /\ r.tokens = ref.tokens /\ (now - r.at) \div d = 0
        /\ ref.born <= r.at /\ (r.at - ref.born) % d = 0
    BY Refilled
  <1> HIDE DEF r
  <1>2. Agrees(r, ref, d, c)
    BY <1>1, Fresh
  <1>3. ASSUME r.tokens > 0
        PROVE  /\ Spend(r) \in Buckets(c) /\ Spend(ref) \in [tokens : Nat, born : Nat]
               /\ Agrees(Spend(r), Spend(ref), d, c)
    <2>1. r.tokens \in 0..c /\ r.tokens - 1 \in 0..c /\ ref.tokens - 1 \in Nat
      BY <1>1, <1>3 DEF Buckets
    <2>2. /\ Spend(r) \in Buckets(c) /\ Spend(r).at = r.at /\ Spend(r).tokens = r.tokens - 1
          /\ Spend(ref) \in [tokens : Nat, born : Nat]
          /\ Spend(ref).born = ref.born /\ Spend(ref).tokens = ref.tokens - 1
      BY <1>1, <2>1 DEF Buckets, Spend
    <2>3. /\ Spend(ref).born \in Nat /\ Spend(ref).born <= Spend(r).at
          /\ (Spend(r).at - Spend(ref).born) % d = 0
          /\ (now - Spend(r).at) \div d = 0 /\ Spend(ref).tokens = Spend(r).tokens
      BY <1>1, <2>2
    <2>4. Agrees(Spend(r), Spend(ref), d, c)
      BY <2>2, <2>3, Fresh
    <2> QED BY <2>2, <2>4
  <1> QED BY <1>2, <1>3 DEF r

\* A bucket left alone for as many intervals as it holds tokens is full.
LEMMA FullWhenOld ==
  ASSUME NEW d \in Nat \ {0}, NEW n \in Nat, NEW c \in Nat, c * d <= n
  PROVE  n \div d >= c
PROOF
  <1> DEFINE p == n \div d
  <1> DEFINE s == n % d
  <1>1. p \in Nat /\ s \in 0..(d - 1) /\ n = d * p + s
    BY Euclid
  <1> HIDE DEF p, s
  <1>2. ~(c >= p + 1)
    <2> SUFFICES ASSUME c >= p + 1 PROVE FALSE
      OBVIOUS
    <2>1. d * c >= d * p + d
      BY <1>1, Monotone
    <2>2. d * c = c * d /\ d * c \in Nat /\ d * p \in Nat
      BY <1>1
    <2> QED BY <2>1, <2>2, <1>1
  <1>3. p >= c
    BY <1>1, <1>2
  <1> QED BY <1>3 DEF p

-----------------------------------------------------------------------------
(* The inductive invariant.                                                *)

Types ==
  /\ now \in Nat /\ global \in Buckets(GlobalCap)
  /\ table \in [Sources -> {Absent} \cup Buckets(SourceCap)]
  /\ ideal \in [Everyone -> [tokens : Nat, born : Nat]]

Inv ==
  /\ Types
  /\ Agrees(global, ideal["all"], GlobalInterval, GlobalCap)
  /\ \A s \in Sources : table[s] # Absent =>
       Agrees(table[s], ideal[s], SourceInterval, SourceCap)

LEMMA Constants ==
  /\ GlobalCap \in Nat /\ SourceCap \in Nat /\ GlobalInterval \in Nat \ {0}
  /\ SourceInterval \in Nat \ {0} /\ PruneAge \in Nat \ {0}
PROOF
  BY Parameters

LEMMA InitInv == Init => Inv
PROOF
  <1> SUFFICES ASSUME Init PROVE Inv
    OBVIOUS
  <1> USE Constants
  <1>1. Types
    BY Names DEF Init, Types, Buckets, Everyone, Cap
  <1>2. 0 % GlobalInterval = 0 /\ 0 \div GlobalInterval = 0
    <2>1. 0 = GlobalInterval * 0 + 0 /\ 0 \in 0..(GlobalInterval - 1)
      OBVIOUS
    <2> QED BY <2>1, Unique
  <1>3. ideal["all"].tokens = GlobalCap /\ ideal["all"].born = 0
    BY DEF Init, Everyone, Cap
  <1>4. Agrees(global, ideal["all"], GlobalInterval, GlobalCap)
    BY <1>1, <1>2, <1>3, Fresh DEF Init, Types
  <1> QED BY <1>1, <1>4 DEF Init, Inv

LEMMA TickInv == Inv /\ Tick => Inv'
PROOF
  <1> SUFFICES ASSUME Inv, Tick PROVE Inv'
    OBVIOUS
  <1> USE Constants DEF Inv
  <1>1. /\ now \in Nat /\ now' = now + 1 /\ global' = global /\ table' = table
        /\ \A x \in Everyone : ideal'[x] =
             IF (now + 1 - ideal[x].born) % Interval(x) = 0
             THEN [ideal[x] EXCEPT !.tokens = Min({Cap(x), ideal[x].tokens + 1})] ELSE ideal[x]
    BY DEF Tick, Types
  <1>2. \A x \in Everyone :
          /\ ideal[x] \in [tokens : Nat, born : Nat] /\ ideal'[x].born = ideal[x].born
          /\ ideal'[x].tokens =
               IF (now + 1 - ideal[x].born) % Interval(x) = 0
               THEN Min({Cap(x), ideal[x].tokens + 1}) ELSE ideal[x].tokens
    BY <1>1 DEF Types
  <1>3. ASSUME NEW x \in Everyone, NEW b \in Buckets(Cap(x)), Agrees(b, ideal[x], Interval(x), Cap(x))
        PROVE  /\ ideal'[x].born \in Nat /\ ideal'[x].born <= b.at
               /\ (b.at - ideal'[x].born) % Interval(x) = 0
               /\ ideal'[x].tokens = Min({Cap(x), b.tokens + ((now' - b.at) \div Interval(x))})
    <2>1. Interval(x) \in Nat \ {0} /\ Cap(x) \in Nat
      BY DEF Interval, Cap
    <2> DEFINE d == Interval(x)
    <2> DEFINE c == Cap(x)
    <2>2. (IF (now + 1 - ideal[x].born) % d = 0 THEN Min({c, ideal[x].tokens + 1}) ELSE ideal[x].tokens)
            = Min({c, b.tokens + ((now + 1 - b.at) \div d)})
      <3> HIDE DEF Inv
      <3>1. now \in Nat /\ d \in Nat \ {0} /\ c \in Nat /\ b \in Buckets(c) /\ Agrees(b, ideal[x], d, c)
        BY <1>1, <1>3, <2>1
      <3> HIDE DEF d, c
      <3> QED BY <3>1, Ticked
    <2>3. ideal[x].born \in Nat /\ ideal[x].born <= b.at /\ (b.at - ideal[x].born) % d = 0
      BY <1>3 DEF Agrees
    <2>4. /\ ideal'[x].born = ideal[x].born /\ now' = now + 1
          /\ ideal'[x].tokens =
               IF (now + 1 - ideal[x].born) % d = 0 THEN Min({c, ideal[x].tokens + 1}) ELSE ideal[x].tokens
      BY <1>1, <1>2
    <2> HIDE DEF Inv, d, c
    <2>5. ideal'[x].tokens = Min({c, b.tokens + ((now' - b.at) \div d)})
      <3>1. ideal'[x].tokens = Min({c, b.tokens + ((now + 1 - b.at) \div d)})
        <4>1. CASE (now + 1 - ideal[x].born) % d = 0
          BY <4>1, <2>2, <2>4, Zenon
        <4>2. CASE (now + 1 - ideal[x].born) % d # 0
          BY <4>2, <2>2, <2>4, Zenon
        <4> QED BY <4>1, <4>2
      <3>2. now' - b.at = now + 1 - b.at
        <4>1. now' = now + 1 /\ now \in Nat
          BY <1>1
        <4>2. b.at \in Nat
          BY <1>1 DEF Buckets
        <4> QED BY <4>1, <4>2
      <3> QED BY <3>1, <3>2, Zenon
    <2>6. ideal'[x].born \in Nat /\ ideal'[x].born <= b.at /\ (b.at - ideal'[x].born) % d = 0
      BY <2>3, <2>4, Zenon
    <2> QED BY <2>5, <2>6 DEF d, c
  <1>4. \A c \in Nat : Buckets(c) \subseteq Buckets(c)'
    BY <1>1 DEF Buckets
  <1>5. Types'
    <2>1. \A x \in Everyone : Min({Cap(x), ideal[x].tokens + 1}) \in Nat
      <3> TAKE x \in Everyone
      <3>1. Cap(x) \in Nat /\ ideal[x].tokens + 1 \in Nat
        <4> HIDE DEF Inv
        <4>1. ideal[x].tokens \in Nat
          BY <1>2
        <4> QED BY <4>1 DEF Cap
      <3> QED BY <3>1, LessOfTwo
    <2>2. ideal' \in [Everyone -> [tokens : Nat, born : Nat]]
      BY <1>2, <2>1 DEF Tick
    <2> QED BY <1>1, <1>4, <2>2 DEF Types
  <1>6. Agrees(global, ideal["all"], GlobalInterval, GlobalCap)'
    BY <1>1, <1>3 DEF Agrees, Everyone, Cap, Interval, Types
  <1>7. ASSUME NEW s \in Sources, table'[s] # Absent
        PROVE  Agrees(table[s], ideal[s], SourceInterval, SourceCap)'
    <2>1. s # "all" /\ s \in Everyone /\ Cap(s) = SourceCap /\ Interval(s) = SourceInterval
      BY Names DEF Everyone, Cap, Interval
    <2>2. table[s] \in Buckets(SourceCap) /\ Agrees(table[s], ideal[s], SourceInterval, SourceCap)
      BY <1>1, <1>7 DEF Types
    <2> QED BY <1>1, <1>3, <2>1, <2>2 DEF Agrees
  <1> QED BY <1>5, <1>6, <1>7

\* What a request finds: both buckets with their references, before and after.
LEMMA Found ==
  ASSUME Inv, NEW s \in Sources
  PROVE  /\ Entry(s) \in Buckets(SourceCap) /\ Reference(s) \in [tokens : Nat, born : Nat]
         /\ Agrees(Entry(s), Reference(s), SourceInterval, SourceCap)
PROOF
  <1> USE Constants
  <1>1. now \in Nat /\ s \in Everyone /\ ideal[s] \in [tokens : Nat, born : Nat]
    BY DEF Inv, Types, Everyone
  <1>2. CASE table[s] = Absent
    <2> DEFINE b == [tokens |-> SourceCap, at |-> now]
    <2> DEFINE ref == [tokens |-> SourceCap, born |-> now]
    <2>1. b \in Buckets(SourceCap) /\ ref \in [tokens : Nat, born : Nat]
      BY <1>1 DEF Buckets
    <2>2. b.at = now /\ ref.born = now /\ ref.tokens = b.tokens
      OBVIOUS
    <2> HIDE DEF b, ref
    <2>3. (b.at - ref.born) % SourceInterval = 0 /\ (now - b.at) \div SourceInterval = 0
      <3>1. 0 = SourceInterval * 0 + 0 /\ 0 \in 0..(SourceInterval - 1)
        OBVIOUS
      <3>2. 0 % SourceInterval = 0 /\ 0 \div SourceInterval = 0
        BY <3>1, Unique
      <3>3. b.at - ref.born = 0 /\ now - b.at = 0
        BY <1>1, <2>2
      <3> QED BY <3>2, <3>3
    <2>4. Agrees(b, ref, SourceInterval, SourceCap)
      <3>1. ref.born \in Nat /\ ref.born <= b.at
        BY <1>1, <2>2
      <3> QED BY <1>1, <2>1, <2>2, <2>3, <3>1, Fresh
    <2> QED BY <1>2, <2>1, <2>4 DEF b, ref, Entry, Reference
  <1>3. CASE table[s] # Absent
    BY <1>1, <1>3 DEF Inv, Types, Entry, Reference
  <1> QED BY <1>2, <1>3

\* A request: what it leaves of its own two buckets, of the others, and what
\* pruning may take away.
LEMMA AllowStep ==
  ASSUME Inv, NEW s \in Sources, Allow(s)
  PROVE  LET g == Refill(global, GlobalInterval, GlobalCap)
             e == Refill(Entry(s), SourceInterval, SourceCap)
             granted == g.tokens > 0 /\ e.tokens > 0
             entry == IF granted THEN Spend(e) ELSE e
         IN  /\ now' = now
             /\ global' = (IF granted THEN Spend(g) ELSE g)
             /\ ideal' \in [Everyone -> [tokens : Nat, born : Nat]]
             /\ ideal'["all"] = (IF granted THEN Spend(ideal["all"]) ELSE ideal["all"])
             /\ ideal'[s] = (IF granted THEN Spend(Reference(s)) ELSE Reference(s))
             /\ \A t \in Sources \ {s} : ideal'[t] = ideal[t]
             /\ entry \in Buckets(SourceCap)
             /\ DOMAIN table' = Sources /\ table' = [t \in Sources |-> table'[t]]
             /\ \A t \in Sources \ {s} :
                  table'[t] = table[t] \/ (table'[t] = Absent /\ now - table[t].at >= PruneAge)
             /\ table'[s] = entry \/ (table'[s] = Absent /\ granted /\ now - entry.at >= PruneAge)
PROOF
  <1> USE Constants
  <1> DEFINE g == Refill(global, GlobalInterval, GlobalCap)
  <1> DEFINE e == Refill(Entry(s), SourceInterval, SourceCap)
  <1> DEFINE granted == g.tokens > 0 /\ e.tokens > 0
  <1> DEFINE entry == IF granted THEN Spend(e) ELSE e
  <1> DEFINE entries == [table EXCEPT ![s] = entry]
  <1>1. /\ now \in Nat /\ global \in Buckets(GlobalCap) /\ "all" \in Everyone /\ s \in Everyone /\ s # "all"
        /\ ideal["all"] \in [tokens : Nat, born : Nat]
        /\ Agrees(global, ideal["all"], GlobalInterval, GlobalCap)
    BY Names DEF Inv, Types, Everyone
  <1>2. /\ g \in Buckets(GlobalCap)
        /\ granted => Spend(ideal["all"]) \in [tokens : Nat, born : Nat]
    BY <1>1, Refilled, Respent
  <1>3. /\ e \in Buckets(SourceCap) /\ Reference(s) \in [tokens : Nat, born : Nat]
        /\ granted => Spend(e) \in Buckets(SourceCap) /\ Spend(Reference(s)) \in [tokens : Nat, born : Nat]
    BY <1>1, Found, Refilled, Respent
  <1>4. /\ now' = now /\ global' = (IF granted THEN Spend(g) ELSE g)
        /\ ideal' = [ideal EXCEPT
             !["all"] = IF granted THEN Spend(ideal["all"]) ELSE ideal["all"],
             ![s] = IF granted THEN Spend(Reference(s)) ELSE Reference(s)]
        /\ table' = entries \/ (granted /\ table' = Prune(entries))
    BY DEF Allow
  <1>5. table \in [Sources -> {Absent} \cup Buckets(SourceCap)]
        /\ ideal \in [Everyone -> [tokens : Nat, born : Nat]] /\ Sources \subseteq Everyone
    BY DEF Inv, Types, Everyone
  <1> HIDE DEF g, e, granted
  <1>6. /\ ideal' \in [Everyone -> [tokens : Nat, born : Nat]]
        /\ ideal'["all"] = (IF granted THEN Spend(ideal["all"]) ELSE ideal["all"])
        /\ ideal'[s] = (IF granted THEN Spend(Reference(s)) ELSE Reference(s))
        /\ \A t \in Sources \ {s} : ideal'[t] = ideal[t]
    <2> DEFINE a == IF granted THEN Spend(ideal["all"]) ELSE ideal["all"]
    <2> DEFINE r == IF granted THEN Spend(Reference(s)) ELSE Reference(s)
    <2>1. a \in [tokens : Nat, born : Nat] /\ r \in [tokens : Nat, born : Nat]
      BY <1>1, <1>2, <1>3
    <2>2. ideal' = [ideal EXCEPT !["all"] = a, ![s] = r]
      BY <1>4
    <2>3. "all" \notin Sources
      BY Names
    <2> HIDE DEF a, r
    <2>4. /\ ideal' \in [Everyone -> [tokens : Nat, born : Nat]] /\ ideal'["all"] = a /\ ideal'[s] = r
          /\ \A t \in Sources \ {s} : ideal'[t] = ideal[t]
      BY <1>1, <1>5, <2>1, <2>2, <2>3
    <2> QED BY <2>4 DEF a, r
  <1>7. entry \in Buckets(SourceCap)
    BY <1>3
  <1> HIDE DEF entry
  <1>8. /\ DOMAIN entries = Sources /\ entries[s] = entry
        /\ \A t \in Sources \ {s} : entries[t] = table[t]
    BY <1>5
  <1>9. DOMAIN table' = Sources /\ table' = [t \in Sources |-> table'[t]]
    BY <1>4, <1>5 DEF Prune
  <1>10. \A t \in Sources :
           \/ table'[t] = entries[t]
           \/ table'[t] = Absent /\ granted /\ now - entries[t].at >= PruneAge
    BY <1>4 DEF Prune
  <1> HIDE DEF entries
  <1>11. \A t \in Sources \ {s} :
            table'[t] = table[t] \/ (table'[t] = Absent /\ now - table[t].at >= PruneAge)
    BY <1>8, <1>10
  <1>12. table'[s] = entry \/ (table'[s] = Absent /\ granted /\ now - entry.at >= PruneAge)
    BY <1>8, <1>10
  <1> QED BY <1>4, <1>6, <1>7, <1>9, <1>11, <1>12 DEF g, e, granted, entry

LEMMA AllowInv == \A s \in Sources : Inv /\ Allow(s) => Inv'
PROOF
  <1> SUFFICES ASSUME NEW s \in Sources, Inv, Allow(s) PROVE Inv'
    OBVIOUS
  <1> USE Constants
  <1> DEFINE g == Refill(global, GlobalInterval, GlobalCap)
  <1> DEFINE e == Refill(Entry(s), SourceInterval, SourceCap)
  <1> DEFINE granted == g.tokens > 0 /\ e.tokens > 0
  <1> DEFINE entry == IF granted THEN Spend(e) ELSE e
  <1>1. /\ now \in Nat /\ global \in Buckets(GlobalCap)
        /\ ideal["all"] \in [tokens : Nat, born : Nat]
        /\ Agrees(global, ideal["all"], GlobalInterval, GlobalCap)
        /\ table \in [Sources -> {Absent} \cup Buckets(SourceCap)]
    BY DEF Inv, Types, Everyone
  <1>2. /\ now' = now /\ global' = (IF granted THEN Spend(g) ELSE g)
        /\ ideal' \in [Everyone -> [tokens : Nat, born : Nat]]
        /\ ideal'["all"] = (IF granted THEN Spend(ideal["all"]) ELSE ideal["all"])
        /\ ideal'[s] = (IF granted THEN Spend(Reference(s)) ELSE Reference(s))
        /\ \A t \in Sources \ {s} : ideal'[t] = ideal[t]
        /\ entry \in Buckets(SourceCap)
        /\ DOMAIN table' = Sources /\ table' = [t \in Sources |-> table'[t]]
        /\ \A t \in Sources \ {s} : table'[t] = table[t] \/ table'[t] = Absent
        /\ table'[s] = entry \/ table'[s] = Absent
    BY AllowStep
  <1>3. /\ g \in Buckets(GlobalCap) /\ Agrees(g, ideal["all"], GlobalInterval, GlobalCap)
        /\ granted => Spend(g) \in Buckets(GlobalCap)
                      /\ Agrees(Spend(g), Spend(ideal["all"]), GlobalInterval, GlobalCap)
    BY <1>1, Refilled, Respent
  <1>4. /\ Agrees(e, Reference(s), SourceInterval, SourceCap)
        /\ granted => Agrees(Spend(e), Spend(Reference(s)), SourceInterval, SourceCap)
    BY <1>1, Found, Respent
  <1> HIDE DEF g, e, granted
  <1>5. global' \in Buckets(GlobalCap) /\ Agrees(global', ideal'["all"], GlobalInterval, GlobalCap)
    BY <1>2, <1>3
  <1>6. Agrees(entry, ideal'[s], SourceInterval, SourceCap)
    BY <1>2, <1>4
  <1> HIDE DEF entry
  <1>7. Types'
    <2>1. \A c \in Nat : Buckets(c)' = Buckets(c)
      BY <1>2 DEF Buckets
    <2>2. \A t \in Sources : table'[t] \in {Absent} \cup Buckets(SourceCap)
      BY <1>1, <1>2
    <2>3. table' \in [Sources -> {Absent} \cup Buckets(SourceCap)]
      BY <1>2, <2>2
    <2> QED BY <1>1, <1>2, <1>5, <2>1, <2>3 DEF Types
  <1>8. Agrees(global, ideal["all"], GlobalInterval, GlobalCap)'
    BY <1>2, <1>5 DEF Agrees
  <1>9. ASSUME NEW t \in Sources, table'[t] # Absent
        PROVE  Agrees(table[t], ideal[t], SourceInterval, SourceCap)'
    <2>1. CASE t = s
      <3>1. Agrees(table'[s], ideal'[s], SourceInterval, SourceCap)
        BY <1>2, <1>6, <1>9, <2>1
      <3> QED BY <1>2, <2>1, <3>1 DEF Agrees
    <2>2. CASE t # s
      <3>1. table'[t] = table[t] /\ ideal'[t] = ideal[t]
        BY <1>2, <1>9, <2>2
      <3>2. Agrees(table[t], ideal[t], SourceInterval, SourceCap)
        BY <1>9, <3>1 DEF Inv
      <3> QED BY <1>2, <3>1, <3>2 DEF Agrees
    <2> QED BY <2>1, <2>2
  <1> QED BY <1>7, <1>8, <1>9 DEF Inv

LEMMA StutterInv == Inv /\ UNCHANGED vars => Inv'
PROOF
  BY DEF Inv, Types, Agrees, Buckets, vars

LEMMA Invariance == Spec => []Inv
PROOF
  <1>1. Inv /\ [Next]_vars => Inv'
    BY TickInv, AllowInv, StutterInv DEF Next
  <1> QED BY InitInv, <1>1, PTL DEF Spec

-----------------------------------------------------------------------------
(* The theorems.                                                           *)

\* Whatever the caps, the intervals and the times at which requests come, the
\* limiter judges each by the tokens of a bucket that is filled on time
\* (crates/azihsm-ca/src/http.rs:822).
THEOREM LazyAgrees == Spec => []LazyIsExact
PROOF
  <1>1. Inv => LazyIsExact
    <2> SUFFICES ASSUME Inv PROVE LazyIsExact
      OBVIOUS
    <2> USE Constants
    <2>1. Refill(global, GlobalInterval, GlobalCap).tokens = ideal["all"].tokens
      BY Refilled DEF Inv, Types
    <2>2. ASSUME NEW s \in Sources, table[s] # Absent
          PROVE  Refill(table[s], SourceInterval, SourceCap).tokens = ideal[s].tokens
      <3>1. /\ now \in Nat /\ table[s] \in Buckets(SourceCap)
            /\ Agrees(table[s], ideal[s], SourceInterval, SourceCap)
        BY <2>2 DEF Inv, Types
      <3> DEFINE b == table[s]
      <3> DEFINE ref == ideal[s]
      <3>2. now \in Nat /\ b \in Buckets(SourceCap) /\ Agrees(b, ref, SourceInterval, SourceCap)
        BY <3>1
      <3> HIDE DEF b, ref
      <3>3. Refill(b, SourceInterval, SourceCap).tokens = ref.tokens
        BY <3>2, Refilled
      <3> QED BY <3>3 DEF b, ref
    <2> QED BY <2>1, <2>2 DEF LazyIsExact
  <1> QED BY Invariance, <1>1, PTL

\* What is pruned had all its tokens again, whatever the size of the table, if
\* only a bucket is full before it is old (crates/azihsm-ca/src/http.rs:812).
THEOREM PruningIsFree == Spec => PrunedWereFull
PROOF
  <1>1. Inv /\ [Next]_vars =>
          \A s \in Sources : table[s] # Absent /\ table'[s] = Absent => ideal[s].tokens = SourceCap
    <2> SUFFICES ASSUME Inv, [Next]_vars, NEW t \in Sources, table[t] # Absent, table'[t] = Absent
                 PROVE  ideal[t].tokens = SourceCap
      OBVIOUS
    <2> USE Constants
    <2>1. PICK s \in Sources : Allow(s)
      BY DEF Next, Tick, vars
    <2>2. /\ now \in Nat /\ table[t] \in Buckets(SourceCap)
          /\ Agrees(table[t], ideal[t], SourceInterval, SourceCap)
      BY DEF Inv, Types
    <2>3. CASE t # s
      <3>1. now - table[t].at >= PruneAge
        BY <2>1, <2>3, AllowStep
      <3>2. PICK n \in Nat : n = now - table[t].at
        BY <2>2, TokensOf
      <3>3. SourceCap * SourceInterval <= n
        BY <3>1, <3>2, OldIsFull
      <3>4. n \div SourceInterval >= SourceCap
        BY <3>3, FullWhenOld
      <3> QED BY <2>2, <3>2, <3>4, TokensOf
    <2>4. CASE t = s
      <3> DEFINE e == Refill(Entry(s), SourceInterval, SourceCap)
      <3>1. e.tokens > 0 /\ now - Spend(e).at >= PruneAge
        <4>1. e \in Buckets(SourceCap)
          BY <2>2, Found, Refilled
        <4>2. \A b \in Buckets(SourceCap) : b # Absent
          BY Names DEF Buckets
        <4> QED BY <2>1, <2>4, <4>2, AllowStep
      <3>2. e \in Buckets(SourceCap) /\ now - e.at < SourceInterval
        BY <2>2, Found, Refilled
      <3> HIDE DEF e
      <3>3. Spend(e).at = e.at /\ SourceCap >= 1 /\ e.at \in 0..now
        BY <3>1, <3>2 DEF Spend, Buckets
      <3>4. SourceCap * SourceInterval >= SourceInterval
        <4>1. SourceInterval * SourceCap >= SourceInterval * 0 + SourceInterval
          BY <3>3, Monotone
        <4>2. SourceInterval * SourceCap = SourceCap * SourceInterval
          OBVIOUS
        <4> QED BY <4>1, <4>2
      <3>5. FALSE
        BY <2>2, <3>1, <3>2, <3>3, <3>4, OldIsFull
      <3> QED BY <3>5
    <2> QED BY <2>3, <2>4
  <1> QED BY Invariance, <1>1, PTL DEF Spec, PrunedWereFull
=============================================================================
