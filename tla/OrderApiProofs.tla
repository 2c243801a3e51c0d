---------------------------- MODULE OrderApiProofs ----------------------------
(***************************************************************************)
(* Two things the API and the workers rely on, for any number of requests, *)
(* symbols, partitions, attempts and broker stops: both hash functions     *)
(* agree, so that a command is in the queue where either worker looks for  *)
(* it, and a stored decision is never overwritten by QUEUED.               *)
(***************************************************************************)
EXTENDS OrderApi, SequenceTheorems, QuantitySums

-----------------------------------------------------------------------------
(* Integers that wrap *)

\* A division has one remainder.
LEMMA RemainderIsUnique ==
  ASSUME NEW d \in Nat \ {0}, NEW q \in Int, NEW r \in 0..d - 1, NEW n \in Int, n = d * q + r
  PROVE  n % d = r
  OBVIOUS

\* Wrapping an integer leaves an integer that is the same modulo Modulus.
LEMMA WrapIsCongruent ==
  ASSUME NEW n \in Int
  PROVE  Wrap(n) \in Int /\ Wrap(n) % Modulus = n % Modulus
<1> USE PartitionerAssumption
<1> DEFINE h == Modulus \div 2
           q == (n + h) \div Modulus
           p == n \div Modulus
           r == n % Modulus
<1>1. h \in Int /\ n + h \in Int
  OBVIOUS
<1> HIDE DEF h
<1>2. q \in Int /\ p \in Int /\ r \in 0..Modulus - 1
  BY <1>1
<1>3. n + h = Modulus * q + ((n + h) % Modulus) /\ (n + h) % Modulus \in Int
  BY <1>1
<1>4. n = Modulus * p + r
  OBVIOUS
<1>5. Wrap(n) = ((n + h) % Modulus) - h
  BY DEF Wrap, h
<1> HIDE DEF q, p, r
<1>6. Wrap(n) \in Int /\ Wrap(n) = n - Modulus * q
  <2>1. Modulus * q \in Int
    BY <1>2
  <2>2. QED
    BY <1>1, <1>3, <1>5, <2>1
<1>7. Wrap(n) = Modulus * (p - q) + r
  <2>1. Modulus * p - Modulus * q = Modulus * (p - q)
    BY <1>2
  <2>2. Modulus * p \in Int /\ Modulus * q \in Int
    BY <1>2
  <2>3. QED
    BY <1>2, <1>4, <1>6, <2>1, <2>2
<1>8. Wrap(n) % Modulus = r
  <2>1. p - q \in Int
    BY <1>2
  <2>2. \A w \in Int : w = Modulus * (p - q) + r => w % Modulus = r
    BY <1>2, <2>1, RemainderIsUnique
  <2>3. QED
    BY <1>6, <1>7, <2>2
<1>9. QED
  BY <1>6, <1>8 DEF r

\* What is left of an equation for the first numbers solves it for all of them: the
\* recursive definition of Xor has a solution.
XorStep(g, m) ==
  [n \in Nat |-> IF m = 0 THEN n ELSE 2 * g[m \div 2][n \div 2] + ((m + n) % 2)]

XorUpTo(g, k) == g \in [0..k -> [Nat -> Nat]] /\ \A m \in 0..k : g[m] = XorStep(g, m)

LEMMA XorStepIsNat ==
  ASSUME NEW m \in Nat, NEW g, m # 0 => g[m \div 2] \in [Nat -> Nat]
  PROVE  XorStep(g, m) \in [Nat -> Nat]
<1> SUFFICES ASSUME NEW n \in Nat
             PROVE  (IF m = 0 THEN n ELSE 2 * g[m \div 2][n \div 2] + ((m + n) % 2)) \in Nat
  BY DEF XorStep
<1>1. CASE m = 0
  BY <1>1
<1>2. CASE m # 0
  <2>1. n \div 2 \in Nat /\ (m + n) % 2 \in Nat
    OBVIOUS
  <2>2. g[m \div 2][n \div 2] \in Nat
    BY <1>2, <2>1
  <2>3. QED
    BY <1>2, <2>1, <2>2
<1>3. QED
  BY <1>1, <1>2

LEMMA HalfIsSmaller ==
  ASSUME NEW m \in Nat, m # 0
  PROVE  m \div 2 \in 0..m - 1
  OBVIOUS

\* The tables of the exclusive or up to k.
LEMMA XorTables == \A k \in Nat : \E g : XorUpTo(g, k)
<1> DEFINE T == {k \in Nat : \E g : XorUpTo(g, k)}
<1>1. 0 \in T
  <2> DEFINE g == [m \in 0..0 |-> [n \in Nat |-> n]]
  <2>1. XorUpTo(g, 0)
    BY DEF XorUpTo, XorStep
  <2>2. QED
    BY <2>1
<1>2. ASSUME NEW k \in T PROVE k + 1 \in T
  <2>1. PICK g : XorUpTo(g, k)
    OBVIOUS
  <2> DEFINE h == [m \in 0..k + 1 |-> XorStep(g, m)]
  <2>2. \A m \in 0..k + 1 : m # 0 => m \div 2 \in 0..k
    BY HalfIsSmaller
  <2>3. \A m \in 0..k : m \in 0..k + 1 /\ h[m] = g[m]
    BY <2>1 DEF XorUpTo
  <2>4. ASSUME NEW m \in 0..k + 1 PROVE XorStep(g, m) \in [Nat -> Nat]
    <3>1. m # 0 => g[m \div 2] \in [Nat -> Nat]
      BY <2>1, <2>2 DEF XorUpTo
    <3>2. QED
      BY <3>1, XorStepIsNat
  <2>5. \A m \in 0..k + 1 : h[m] = XorStep(g, m)
    OBVIOUS
  <2> HIDE DEF h
  <2>6. \A m \in 0..k + 1 : XorStep(g, m) = XorStep(h, m)
    BY <2>2, <2>3 DEF XorStep
  <2>7. h \in [0..k + 1 -> [Nat -> Nat]]
    BY <2>4 DEF h
  <2>8. XorUpTo(h, k + 1)
    BY <2>5, <2>6, <2>7 DEF XorUpTo
  <2>9. QED
    BY <2>8
<1>3. T = Nat
  <2> HIDE DEF T
  <2>1. T \in SUBSET Nat
    BY DEF T
  <2>2. QED
    BY <1>1, <1>2, <2>1, NatIsReached
<1>4. QED
  BY <1>3
\* Two tables have the same entries.
LEMMA XorTablesAgree ==
  ASSUME NEW k \in Nat, NEW g, XorUpTo(g, k), NEW l \in Nat, NEW h, XorUpTo(h, l)
  PROVE  \A m \in Nat : m <= k /\ m <= l => g[m] = h[m]
<1> DEFINE Agree(m) == m <= k /\ m <= l => g[m] = h[m]
           T == {n \in Nat : \A m \in 0..n : Agree(m)}
<1>1. ASSUME NEW m \in Nat, m <= k, m <= l, m # 0 => g[m \div 2] = h[m \div 2]
      PROVE  g[m] = h[m]
  <2>1. XorStep(g, m) = XorStep(h, m)
    BY <1>1 DEF XorStep
  <2>2. m \in 0..k /\ m \in 0..l
    BY <1>1
  <2>3. QED
    BY <2>1, <2>2 DEF XorUpTo
<1>2. Agree(0)
  BY <1>1
<1>3. 0 \in T
  BY <1>2
<1>4. ASSUME NEW n \in T PROVE n + 1 \in T
  <2>1. Agree(n + 1)
    <3> SUFFICES ASSUME n + 1 <= k, n + 1 <= l PROVE g[n + 1] = h[n + 1]
      OBVIOUS
    <3>1. n + 1 \in Nat /\ (n + 1) \div 2 \in 0..n
      OBVIOUS
    <3>2. (n + 1) \div 2 <= k /\ (n + 1) \div 2 <= l
      BY <3>1
    <3>3. g[(n + 1) \div 2] = h[(n + 1) \div 2]
      BY <3>1, <3>2
    <3>4. QED
      BY <1>1, <3>1, <3>3
  <2>2. \A m \in 0..n + 1 : m \in 0..n \/ m = n + 1
    OBVIOUS
  <2> HIDE DEF Agree
  <2>3. QED
    BY <2>1, <2>2
<1>5. T = Nat
  <2> HIDE DEF T
  <2>1. T \in SUBSET Nat
    BY DEF T
  <2>2. QED
    BY <1>3, <1>4, <2>1, NatIsReached
<1>6. ASSUME NEW m \in Nat PROVE Agree(m)
  <2>1. m \in T /\ m \in 0..m
    BY <1>5
  <2> HIDE DEF Agree
  <2>2. QED
    BY <2>1
<1>7. QED
  BY <1>6

\* Xor solves its recursive definition.
LEMMA XorUnfolds == \A m \in Nat : Xor[m] = XorStep(Xor, m)
<1> DEFINE Table(k) == CHOOSE g : XorUpTo(g, k)
           f == [m \in Nat |-> Table(m)[m]]
           Def(g) == g = [m \in Nat |-> [n \in Nat |->
                       IF m = 0 THEN n ELSE 2 * g[m \div 2][n \div 2] + ((m + n) % 2)]]
<1>1. \A k \in Nat : XorUpTo(Table(k), k)
  BY XorTables
<1> HIDE DEF Table
<1>2. ASSUME NEW m \in Nat PROVE f[m] = XorStep(f, m)
  <2>1. f[m] = XorStep(Table(m), m)
    BY <1>1 DEF XorUpTo
  <2>2. CASE m = 0
    BY <2>1, <2>2 DEF XorStep
  <2>3. CASE m # 0
    <3>1. m \div 2 \in Nat /\ m \div 2 <= m
      BY <2>3, HalfIsSmaller
    <3>2. Table(m)[m \div 2] = Table(m \div 2)[m \div 2]
      BY <1>1, <3>1, XorTablesAgree
    <3>3. f[m \div 2] = Table(m \div 2)[m \div 2]
      BY <3>1
    <3> HIDE DEF f
    <3>4. XorStep(Table(m), m) = XorStep(f, m)
      BY <3>2, <3>3 DEF XorStep
    <3>5. QED
      BY <2>1, <3>4
  <2>4. QED
    BY <2>2, <2>3
<1>3. Def(f)
  <2>1. f = [m \in Nat |-> f[m]]
    OBVIOUS
  <2> HIDE DEF f
  <2>2. f = [m \in Nat |-> XorStep(f, m)]
    BY <1>2, <2>1
  <2>3. QED
    BY <2>2 DEF XorStep
<1>4. Def(Xor)
  <2>1. Xor = CHOOSE g : Def(g)
    BY DEF Xor
  <2> HIDE DEF f, Def
  <2>2. QED
    BY <1>3, <2>1, Zenon
<1>5. Xor = [m \in Nat |-> XorStep(Xor, m)]
  BY <1>4 DEF XorStep
<1>6. QED
  BY <1>5

\* The exclusive or of two numbers is a number.
LEMMA XorIsNat == \A m, n \in Nat : Xor[m][n] \in Nat
<1> DEFINE T == {k \in Nat : \A m \in 0..k : Xor[m] \in [Nat -> Nat]}
<1>1. Xor[0] \in [Nat -> Nat]
  BY XorUnfolds, XorStepIsNat
<1>2. 0 \in T
  BY <1>1
<1>3. ASSUME NEW k \in T PROVE k + 1 \in T
  <2>1. k + 1 \in Nat /\ (k + 1) \div 2 \in 0..k
    OBVIOUS
  <2>2. XorStep(Xor, k + 1) \in [Nat -> Nat]
    BY <2>1, XorStepIsNat
  <2>3. Xor[k + 1] \in [Nat -> Nat]
    BY <2>1, <2>2, XorUnfolds
  <2>4. \A m \in 0..k + 1 : m \in 0..k \/ m = k + 1
    OBVIOUS
  <2>5. QED
    BY <2>1, <2>3, <2>4
<1>4. T = Nat
  <2> HIDE DEF T
  <2>1. T \in SUBSET Nat
    BY DEF T
  <2>2. QED
    BY <1>2, <1>3, <2>1, NatIsReached
<1>5. \A m \in Nat : m \in 0..m
  OBVIOUS
<1>6. QED
  BY <1>4, <1>5
-----------------------------------------------------------------------------
(* The hash of a symbol *)

\* What a round of the hash makes of an integer and a code unit is an integer.
Rounds(round) == \A hash \in Int : \A unit \in CodeUnit : round[hash][unit] \in Int

\* The hash after so many code units.
HashStep(round, s, hash, i) == IF i = 0 THEN 5381 ELSE round[hash[i - 1]][s[i]]

HashUpTo(round, s, hash, n) ==
  hash \in [0..n -> Int] /\ \A i \in 0..n : hash[i] = HashStep(round, s, hash, i)

\* The hash of a symbol is an integer.
LEMMA HashIsInt ==
  ASSUME NEW round, Rounds(round), NEW s \in Seq(CodeUnit)
  PROVE  Hash(round, s) \in Int
<1> DEFINE N == Len(s)
           T == {n \in Nat : n <= N => \E hash : HashUpTo(round, s, hash, n)}
           Def(hash) == hash = [i \in 0..N |-> HashStep(round, s, hash, i)]
           f == CHOOSE hash : Def(hash)
<1>1. N \in Nat /\ \A i \in 1..N : s[i] \in CodeUnit
  OBVIOUS
<1> HIDE DEF N
<1>2. 0 \in T
  <2> DEFINE hash == [i \in 0..0 |-> 5381]
  <2>1. HashUpTo(round, s, hash, 0)
    BY DEF HashUpTo, HashStep
  <2>2. QED
    BY <2>1
<1>3. ASSUME NEW n \in T PROVE n + 1 \in T
  <2> SUFFICES ASSUME n + 1 <= N PROVE \E hash : HashUpTo(round, s, hash, n + 1)
    OBVIOUS
  <2>1. PICK hash : HashUpTo(round, s, hash, n)
    BY <1>1
  <2> DEFINE new == [i \in 0..n + 1 |-> HashStep(round, s, hash, i)]
  <2>2. \A i \in 0..n + 1 : i # 0 => i - 1 \in 0..n /\ i \in 1..N
    BY <1>1
  <2>3. ASSUME NEW i \in 0..n + 1 PROVE HashStep(round, s, hash, i) \in Int
    <3>1. CASE i = 0
      BY <3>1 DEF HashStep
    <3>2. CASE i # 0
      <4>1. hash[i - 1] \in Int /\ s[i] \in CodeUnit
        BY <1>1, <2>1, <2>2, <3>2 DEF HashUpTo
      <4>2. QED
        BY <3>2, <4>1 DEF Rounds, HashStep
    <3>3. QED
      BY <3>1, <3>2
  <2>4. \A i \in 0..n : i \in 0..n + 1 /\ new[i] = hash[i]
    BY <2>1 DEF HashUpTo
  <2>5. new \in [0..n + 1 -> Int] /\ \A i \in 0..n + 1 : new[i] = HashStep(round, s, hash, i)
    BY <2>3
  <2> HIDE DEF new
  <2>6. \A i \in 0..n + 1 : HashStep(round, s, hash, i) = HashStep(round, s, new, i)
    BY <2>2, <2>4 DEF HashStep
  <2>7. HashUpTo(round, s, new, n + 1)
    BY <2>5, <2>6 DEF HashUpTo
  <2>8. QED
    BY <2>7
<1>4. T = Nat
  <2> HIDE DEF T
  <2>1. T \in SUBSET Nat
    BY DEF T
  <2>2. QED
    BY <1>2, <1>3, <2>1, NatIsReached
<1>5. PICK g : HashUpTo(round, s, g, N)
  <2> HIDE DEF T
  <2>1. N \in T
    BY <1>1, <1>4
  <2>2. N <= N => \E g : HashUpTo(round, s, g, N)
    BY <2>1 DEF T
  <2>3. QED
    BY <1>1, <2>2
<1> HIDE DEF T
<1>6. Def(g)
  <2>1. g = [i \in 0..N |-> g[i]]
    BY <1>5 DEF HashUpTo
  <2>2. g = [i \in 0..N |-> HashStep(round, s, g, i)]
    BY <1>5, <2>1 DEF HashUpTo
  <2>3. QED
    BY <2>2
<1>7. Def(f)
  <2> HIDE DEF Def
  <2>1. QED
    BY <1>6, Zenon
<1>8. Hash(round, s) = f[N]
  BY DEF Hash, HashStep, N
<1> HIDE DEF f
<1> HIDE DEF Def
<1>9. \A i \in 0..N : f[i] = HashStep(round, s, f, i)
  <2>1. f = [i \in 0..N |-> HashStep(round, s, f, i)]
    BY <1>7, Zenon DEF Def
  <2>2. QED
    BY <2>1, Zenon
<1>10. \A n \in Nat : n <= N => f[n] = g[n]
  <2> DEFINE U == {n \in Nat : n <= N => f[n] = g[n]}
  <2>1. 0 \in U
    BY <1>1, <1>5, <1>9 DEF HashUpTo, HashStep
  <2>2. ASSUME NEW n \in U PROVE n + 1 \in U
    <3> SUFFICES ASSUME n + 1 <= N PROVE f[n + 1] = g[n + 1]
      OBVIOUS
    <3>1. n + 1 \in 0..N /\ n + 1 # 0 /\ (n + 1) - 1 = n /\ f[n] = g[n]
      BY <1>1
    <3>2. HashStep(round, s, f, n + 1) = HashStep(round, s, g, n + 1)
      BY <3>1 DEF HashStep
    <3>3. QED
      BY <1>5, <1>9, <3>1, <3>2 DEF HashUpTo
  <2>3. U = Nat
    <3> HIDE DEF U
    <3>1. U \in SUBSET Nat
      BY DEF U
    <3>2. QED
      BY <2>1, <2>2, <3>1, NatIsReached
  <2>4. QED
    BY <2>3
<1>11. QED
  BY <1>1, <1>5, <1>8, <1>10 DEF HashUpTo

-----------------------------------------------------------------------------
(* Both hash functions agree *)

\* A code unit is an integer.
LEMMA CodeUnitIsInt ==
  ASSUME NEW unit \in CodeUnit
  PROVE  unit \in Int
  BY DEF CodeUnit

\* One round, with a sum that wraps or with one that does not.
LEMMA RoundsAgree == HashRound = GoRound /\ Rounds(HashRound)
<1> USE PartitionerAssumption
<1>1. ASSUME NEW hash \in Int, NEW unit \in CodeUnit
      PROVE  /\ BitXor(Wrap(hash * 32) + hash, unit) = BitXor(Wrap(Wrap(hash * 32) + hash), unit)
             /\ BitXor(Wrap(hash * 32) + hash, unit) \in Int
  <2> DEFINE sum == Wrap(hash * 32) + hash
  <2>1. hash * 32 \in Int /\ sum \in Int
    BY WrapIsCongruent
  <2> HIDE DEF sum
  <2>2. Wrap(sum) % Modulus = sum % Modulus
    BY <2>1, WrapIsCongruent
  <2>3. sum % Modulus \in Nat /\ unit % Modulus \in Nat
    <3>1. unit \in Int
      BY CodeUnitIsInt
    <3>2. ASSUME NEW n \in Int PROVE n % Modulus \in Nat
      OBVIOUS
    <3>3. QED
      BY <2>1, <3>1, <3>2
  <2>4. Xor[sum % Modulus][unit % Modulus] \in Int
    BY <2>3, XorIsNat
  <2>5. BitXor(sum, unit) = BitXor(Wrap(sum), unit) /\ BitXor(sum, unit) \in Int
    BY <2>2, <2>4, WrapIsCongruent DEF BitXor
  <2>6. QED
    BY <2>5 DEF sum
<1>2. HashRound = GoRound
  BY <1>1 DEF HashRound, GoRound
<1>3. ASSUME NEW hash \in Int, NEW unit \in CodeUnit PROVE HashRound[hash][unit] \in Int
  BY <1>1 DEF HashRound
<1>4. QED
  BY <1>2, <1>3 DEF Rounds

\* encoding/json hands on a symbol without lone surrogates as it is.
LEMMA WellFormedIsKept ==
  ASSUME NEW s \in Seq(CodeUnit), IsWellFormed(s)
  PROVE  Unmarshalled(s) = s
BY DEF IsWellFormed, Unmarshalled

\* The API, the Node workers and the Go worker take a symbol for the same partition,
\* which is one of theirs, unless Go takes it for blank or reads it otherwise
\* (getPartitionId in symbolPartitioner.js, ID in partition.go).
THEOREM PartitionersAgree ==
  ASSUME NEW s \in Seq(CodeUnit)
  PROVE  /\ GetPartitionId(s) \in Partition
         /\ IsCommon(s) => GoPartitionId(s) = GetPartitionId(s)
<1> USE PartitionerAssumption
<1> DEFINE hash == Hash(HashRound, s)
<1>1. hash \in Int /\ Hash(GoRound, s) = hash
  BY RoundsAgree, HashIsInt
<1> HIDE DEF hash
<1>2. Magnitude(hash) \in Nat
  BY <1>1 DEF Magnitude
<1>3. Remainder(Magnitude(hash), PartitionCount) = Magnitude(hash) % PartitionCount
  BY <1>2 DEF Remainder
<1>4. Magnitude(hash) % PartitionCount \in Partition
  BY <1>2 DEF Partition
<1>5. GetPartitionId(s) = Magnitude(hash) % PartitionCount
  BY <1>3 DEF GetPartitionId, HashSymbol, hash
<1>6. IsCommon(s) => GoPartitionId(s) = Magnitude(hash) % PartitionCount
  BY <1>1, WellFormedIsKept DEF IsCommon, GoPartitionId
<1>7. QED
  BY <1>4, <1>5, <1>6
-----------------------------------------------------------------------------
(* The invariant of the API and the queues *)

Statuses == {"none", "QUEUED", "PROCESSED", "REJECTED", "refused"}

TypeInv ==
  /\ step \in [Command -> Step]
  /\ symbol \in [Command -> Seq(CodeUnit)]
  /\ partitionId \in [Command -> Int]
  /\ status \in [Command -> Statuses]
  /\ outcome \in [Command -> Statuses]
  /\ open \in Seq(BOOLEAN) /\ channel \in 0..Len(open)
  /\ wire \in Seq(Seq(Command)) /\ Len(wire) = Len(open)
  /\ queue \in [Partition -> Seq(Command)]

\* The partition of a request is the one its symbol hashes to.
RoutedByHash ==
  \A c \in Command : step[c] # "none" => partitionId[c] = GetPartitionId(symbol[c])

\* A message is that of a request that has been answered.
Sent(messages, at) == \A k \in 1..Len(messages) : at[messages[k]] = "done"

SentIsAnswered ==
  /\ \A ch \in 1..Len(wire) : Sent(wire[ch], step)
  /\ \A i \in Partition : Sent(queue[i], step)

\* A queue holds what was routed to it.
InItsQueue ==
  \A i \in Partition : \A k \in 1..Len(queue[i]) : partitionId[queue[i][k]] = i

\* What is decided was answered before, and is no longer QUEUED unless it was refused.
DecidedIsFinal ==
  \A c \in Command :
    outcome[c] # "none" => step[c] = "done" /\ (status[c] = "QUEUED" => outcome[c] = "refused")

ApiInv == TypeInv /\ RoutedByHash /\ SentIsAnswered /\ InItsQueue /\ DecidedIsFinal

\* One more message of an answered request.
LEMMA SentAppends ==
  ASSUME NEW messages \in Seq(Command), NEW c \in Command, NEW at, Sent(messages, at),
         at[c] = "done"
  PROVE  Append(messages, c) \in Seq(Command) /\ Sent(Append(messages, c), at)
  BY DEF Sent

\* One message less.
LEMMA SentTakes ==
  ASSUME NEW messages \in Seq(Command), messages # <<>>, NEW at, Sent(messages, at)
  PROVE  /\ Head(messages) \in Command /\ at[Head(messages)] = "done"
         /\ Tail(messages) \in Seq(Command) /\ Sent(Tail(messages), at)
<1>1. /\ Len(messages) \in Nat \ {0} /\ Head(messages) = messages[1]
      /\ Tail(messages) \in Seq(Command) /\ Len(Tail(messages)) = Len(messages) - 1
      /\ \A k \in 1..Len(messages) - 1 : Tail(messages)[k] = messages[k + 1]
  BY HeadTailProperties, EmptySeq, LenProperties
<1>2. messages[1] \in Command /\ at[messages[1]] = "done"
  BY <1>1, ElementOfSeq DEF Sent
<1> DEFINE rest == Tail(messages)
<1> HIDE DEF rest
<1>3. /\ rest \in Seq(Command) /\ Len(rest) = Len(messages) - 1
      /\ \A k \in 1..Len(messages) - 1 : rest[k] = messages[k + 1]
  BY <1>1 DEF rest
<1>4. Sent(rest, at)
  BY <1>1, <1>3 DEF Sent
<1>5. QED
  BY <1>1, <1>2, <1>3, <1>4 DEF rest

-----------------------------------------------------------------------------
(* The steps of a request *)

\* A request goes on to s, past the status it saves; its message may be written on
\* the way to its answer.
MovesTo(c, s) ==
  /\ step[c] \notin {"none", "done"}
  /\ step' = [step EXCEPT ![c] = s]
  /\ status' = status \/ status' = [status EXCEPT ![c] = "QUEUED"]
  /\ \/ UNCHANGED <<open, wire>> /\ channel' \in {channel, Null}
     \/ open' = Append(open, TRUE) /\ wire' = Append(wire, <<>>) /\ channel' = Len(open) + 1
     \/ /\ UNCHANGED <<open, channel>> /\ s = "done"
        /\ \E ch \in 1..Len(wire) : wire' = [wire EXCEPT ![ch] = Append(@, c)]
  /\ UNCHANGED <<symbol, partitionId, outcome, queue>>

LEMMA RequestMoves ==
  ASSUME ApiInv, NEW c \in Command, NEW s \in Step \ {"none"}, MovesTo(c, s)
  PROVE  ApiInv'
<1> USE DEF ApiInv, MovesTo
<1>1. /\ step' \in [Command -> Step] /\ step'[c] = s
      /\ \A other \in Command \ {c} : step'[other] = step[other]
      /\ \A other \in Command : step[other] = "done" => step'[other] = "done"
  BY DEF TypeInv
<1>2. status' \in [Command -> Statuses] /\ \A other \in Command \ {c} : status'[other] = status[other]
  BY DEF TypeInv, Statuses
<1>3. /\ \A ch \in 1..Len(wire) : wire[ch] \in Seq(Command) /\ Sent(wire[ch], step')
      /\ \A i \in Partition : Sent(queue[i], step')
  <2>1. ASSUME NEW messages \in Seq(Command), Sent(messages, step)
        PROVE  Sent(messages, step')
    BY <1>1, <2>1 DEF Sent
  <2>2. ASSUME NEW ch \in 1..Len(wire) PROVE wire[ch] \in Seq(Command) /\ Sent(wire[ch], step')
    <3>1. wire[ch] \in Seq(Command) /\ Sent(wire[ch], step)
      BY DEF TypeInv, SentIsAnswered
    <3>2. QED
      BY <2>1, <3>1
  <2>3. ASSUME NEW i \in Partition PROVE Sent(queue[i], step')
    <3>1. queue[i] \in Seq(Command) /\ Sent(queue[i], step)
      BY DEF TypeInv, SentIsAnswered
    <3>2. QED
      BY <2>1, <3>1
  <2>4. QED
    BY <2>2, <2>3
<1>4. /\ open' \in Seq(BOOLEAN) /\ channel' \in 0..Len(open')
      /\ wire' \in Seq(Seq(Command)) /\ Len(wire') = Len(open')
      /\ \A ch \in 1..Len(wire') : Sent(wire'[ch], step')
  <2>1. CASE UNCHANGED <<open, wire>> /\ channel' \in {channel, Null}
    <3>1. wire' = wire /\ open' = open /\ 0 \in 0..Len(open)
      BY <2>1 DEF TypeInv
    <3>2. QED
      BY <1>3, <2>1, <3>1 DEF TypeInv, Null
  <2>2. CASE open' = Append(open, TRUE) /\ wire' = Append(wire, <<>>) /\ channel' = Len(open) + 1
    <3>2. <<>> \in Seq(Command) /\ Sent(<<>>, step')
      BY DEF Sent
    <3>3. wire' \in Seq(Seq(Command)) /\ Len(wire') = Len(wire) + 1
      BY <2>2, <3>2 DEF TypeInv
    <3>4. open' \in Seq(BOOLEAN) /\ Len(open') = Len(open) + 1 /\ Len(open) \in Nat
      BY <2>2 DEF TypeInv
    <3>5. \A ch \in 1..Len(wire') : (ch \in 1..Len(wire) /\ wire'[ch] = wire[ch]) \/ wire'[ch] = <<>>
      BY <2>2, <3>3 DEF TypeInv
    <3>6. \A ch \in 1..Len(wire') : Sent(wire'[ch], step')
      BY <1>3, <3>2, <3>5
    <3>7. Len(wire) = Len(open)
      BY DEF TypeInv
    <3>8. channel' \in 0..Len(open') /\ Len(wire') = Len(open')
      BY <2>2, <3>3, <3>4, <3>7
    <3>9. QED
      BY <3>3, <3>4, <3>6, <3>8
  <2>3. ASSUME UNCHANGED <<open, channel>>, s = "done", NEW ch \in 1..Len(wire),
               wire' = [wire EXCEPT ![ch] = Append(@, c)]
        PROVE  /\ wire' \in Seq(Seq(Command)) /\ Len(wire') = Len(wire)
               /\ \A other \in 1..Len(wire') : Sent(wire'[other], step')
    <3>2. Append(wire[ch], c) \in Seq(Command) /\ Sent(Append(wire[ch], c), step')
      BY <1>1, <1>3, <2>3, SentAppends
    <3>3. wire' \in Seq(Seq(Command)) /\ Len(wire') = Len(wire)
      BY <2>3, <3>2 DEF TypeInv
    <3>4. \A other \in 1..Len(wire) :
            wire'[other] = IF other = ch THEN Append(wire[ch], c) ELSE wire[other]
      BY <2>3 DEF TypeInv
    <3>5. QED
      BY <1>3, <3>2, <3>3, <3>4
  <2>4. QED
    BY <2>1, <2>2, <2>3 DEF TypeInv
<1>5. TypeInv'
  BY <1>1, <1>2, <1>4 DEF TypeInv
<1>6. RoutedByHash'
  BY <1>1 DEF RoutedByHash
<1>7. SentIsAnswered'
  BY <1>3, <1>4 DEF SentIsAnswered
<1>8. InItsQueue'
  BY DEF InItsQueue
<1>9. DecidedIsFinal'
  BY <1>1, <1>2 DEF DecidedIsFinal
<1>10. QED
  BY <1>5, <1>6, <1>7, <1>8, <1>9
\* The message of a request that publishes is written, or the request fails.
LEMMA SendMoves ==
  ASSUME ApiInv, NEW c \in Command, step[c] \notin {"none", "done"}, Send(c, channel),
         UNCHANGED <<status, open, channel, symbol, partitionId, outcome, queue>>
  PROVE  MovesTo(c, "done")
<1>1. step' = [step EXCEPT ![c] = "done"]
  BY DEF Send, Answer, GoTo
<1>2. CASE channel # Null /\ open[channel]
  <2>1. wire' = [wire EXCEPT ![channel] = Append(@, c)]
    BY <1>2 DEF Send
  <2>2. channel \in 1..Len(wire)
    BY <1>2 DEF ApiInv, TypeInv, Null
  <2>3. QED
    BY <1>1, <2>1, <2>2 DEF MovesTo
<1>3. CASE ~(channel # Null /\ open[channel])
  BY <1>1, <1>3 DEF Send, MovesTo
<1>4. QED
  BY <1>2, <1>3

LEMMA RouteStepInv ==
  ASSUME ApiInv, NEW c \in Command, RouteStep(c)
  PROVE  ApiInv'
<1> SUFFICES \E s \in Step \ {"none"} : MovesTo(c, s)
  BY RequestMoves
<1> USE DEF channelVars, brokerVars, requestVars, At, Answer, GoTo
<1>1. CASE SaveQueued(c)
  <2>1. MovesTo(c, "connect")
    BY <1>1 DEF SaveQueued, MovesTo
  <2>2. QED
    BY <2>1 DEF Step
<1>2. CASE SaveFails(c)
  <2>1. MovesTo(c, "done")
    BY <1>2 DEF SaveFails, MovesTo
  <2>2. QED
    BY <2>1 DEF Step
<1>3. CASE Connect(c)
  <2>1. CASE IsBlank(symbol[c]) /\ Answer(c, "failed") /\ UNCHANGED <<attempt, wire>>
    <3>1. MovesTo(c, "done")
      BY <1>3, <2>1 DEF Connect, MovesTo
    <3>2. QED
      BY <3>1 DEF Step
  <2>2. CASE Send(c, channel)
    <3>1. MovesTo(c, "done")
      BY <1>3, <2>2, SendMoves DEF Connect
    <3>2. QED
      BY <3>1 DEF Step
  <2>3. CASE GoTo(c, "connecting") /\ UNCHANGED <<answer, wire>>
    <3>1. MovesTo(c, "connecting")
      BY <1>3, <2>3 DEF Connect, MovesTo
    <3>2. QED
      BY <3>1 DEF Step
  <2>4. QED
    BY <1>3, <2>1, <2>2, <2>3 DEF Connect
<1>4. CASE Connected(c)
  <2>1. MovesTo(c, "opening")
    BY <1>4 DEF Connected, MovesTo
  <2>2. QED
    BY <2>1 DEF Step
<1>5. CASE ChannelCreated(c)
  <2>1. MovesTo(c, "settingUp")
    BY <1>5 DEF ChannelCreated, MovesTo
  <2>2. QED
    BY <2>1 DEF Step
<1>6. CASE SetUp(c)
  <2>1. MovesTo(c, "done")
    BY <1>6, SendMoves DEF SetUp
  <2>2. QED
    BY <2>1 DEF Step
<1>7. CASE AttemptFails(c)
  <2>1. MovesTo(c, "sleeping")
    BY <1>7 DEF AttemptFails, MovesTo
  <2>2. QED
    BY <2>1 DEF Step
<1>8. CASE Wake(c)
  <2>1. MovesTo(c, "connecting") \/ MovesTo(c, "done")
    BY <1>8 DEF Wake, MovesTo
  <2>2. QED
    BY <2>1 DEF Step
<1>9. QED
  BY <1>1, <1>2, <1>3, <1>4, <1>5, <1>6, <1>7, <1>8 DEF RouteStep

LEMMA ReceiveInv ==
  ASSUME ApiInv, NEW c \in Command, Receive(c)
  PROVE  ApiInv'
<1> USE DEF ApiInv
<1>1. PICK s \in Symbols :
        /\ symbol' = [symbol EXCEPT ![c] = s]
        /\ partitionId' = [partitionId EXCEPT ![c] = GetPartitionId(s)]
  BY DEF Receive
<1>2. s \in Seq(CodeUnit) /\ GetPartitionId(s) \in Int
  <2>1. s \in Seq(CodeUnit)
    BY SymbolsAssumption
  <2>2. GetPartitionId(s) \in Partition
    BY <2>1, PartitionersAgree
  <2>3. QED
    BY <2>1, <2>2, PartitionerAssumption DEF Partition
<1>3. /\ step[c] = "none" /\ step' = [step EXCEPT ![c] = "saveStatus"]
      /\ UNCHANGED <<status, outcome, channel, open, wire, queue>>
  BY DEF Receive, At, GoTo, channelVars, brokerVars
<1>4. TypeInv'
  BY <1>1, <1>2, <1>3 DEF TypeInv, Step
<1>5. /\ symbol'[c] = s /\ partitionId'[c] = GetPartitionId(s) /\ step'[c] = "saveStatus"
      /\ \A other \in Command \ {c} :
           /\ symbol'[other] = symbol[other] /\ partitionId'[other] = partitionId[other]
           /\ step'[other] = step[other]
  BY <1>1, <1>3 DEF TypeInv
<1>6. RoutedByHash'
  BY <1>5 DEF RoutedByHash
<1>7. ASSUME NEW messages \in Seq(Command), Sent(messages, step)
      PROVE  /\ Sent(messages, step')
             /\ \A k \in 1..Len(messages) : partitionId'[messages[k]] = partitionId[messages[k]]
  BY <1>3, <1>5, <1>7 DEF Sent
<1>8. ASSUME NEW ch \in 1..Len(wire) PROVE Sent(wire[ch], step')
  <2>1. wire[ch] \in Seq(Command) /\ Sent(wire[ch], step)
    BY DEF TypeInv, SentIsAnswered
  <2>2. QED
    BY <1>7, <2>1
<1>9. ASSUME NEW i \in Partition
      PROVE  /\ Sent(queue[i], step')
             /\ \A k \in 1..Len(queue[i]) : partitionId'[queue[i][k]] = i
  <2>1. /\ queue[i] \in Seq(Command) /\ Sent(queue[i], step)
        /\ \A k \in 1..Len(queue[i]) : partitionId[queue[i][k]] = i
    BY DEF TypeInv, SentIsAnswered, InItsQueue
  <2>2. QED
    BY <1>7, <2>1
<1>10. SentIsAnswered'
  BY <1>3, <1>8, <1>9 DEF SentIsAnswered
<1>11. InItsQueue'
  BY <1>3, <1>9 DEF InItsQueue
<1>12. DecidedIsFinal'
  BY <1>3, <1>5 DEF DecidedIsFinal
<1>13. QED
  BY <1>4, <1>6, <1>10, <1>11, <1>12
-----------------------------------------------------------------------------
(* The steps of the broker and the workers *)

\* A step that moves no request and sends no message.
LEMMA QuietStepInv ==
  ASSUME ApiInv,
         UNCHANGED <<step, symbol, partitionId, status, outcome, channel, open, wire, queue>>
  PROVE  ApiInv'
  BY DEF ApiInv, TypeInv, RoutedByHash, SentIsAnswered, InItsQueue, DecidedIsFinal

LEMMA TakeInv ==
  ASSUME ApiInv, NEW ch \in DOMAIN wire, Take(ch)
  PROVE  ApiInv'
<1> USE DEF ApiInv
<1> DEFINE c == Head(wire[ch])
           i == partitionId[c]
<1>1. /\ ch \in 1..Len(wire) /\ wire[ch] # <<>> /\ wire[ch] \in Seq(Command)
      /\ Sent(wire[ch], step)
      /\ wire' = [wire EXCEPT ![ch] = Tail(wire[ch])]
  BY DEF Take, TypeInv, SentIsAnswered
<1>2. /\ c \in Command /\ step[c] = "done"
      /\ Tail(wire[ch]) \in Seq(Command) /\ Sent(Tail(wire[ch]), step)
  BY <1>1, SentTakes
<1>3. UNCHANGED <<step, symbol, partitionId, status, outcome, channel, open>>
  BY DEF Take, requestVars
<1>4. \/ i \in Partition /\ queue' = [queue EXCEPT ![i] = Append(queue[i], c)]
      \/ queue' = queue
  BY DEF Take
<1> HIDE DEF c, i
<1>5. /\ wire' \in Seq(Seq(Command)) /\ Len(wire') = Len(wire)
      /\ \A other \in 1..Len(wire') : Sent(wire'[other], step)
  <2>1. wire \in Seq(Seq(Command)) /\ \A other \in 1..Len(wire) : Sent(wire[other], step)
    BY DEF TypeInv, SentIsAnswered
  <2>2. wire' \in Seq(Seq(Command)) /\ Len(wire') = Len(wire)
    BY <1>1, <1>2, <2>1
  <2>3. \A other \in 1..Len(wire) :
          wire'[other] = IF other = ch THEN Tail(wire[ch]) ELSE wire[other]
    BY <1>1, <2>1
  <2>4. QED
    BY <1>2, <2>1, <2>2, <2>3
<1>6. /\ queue' \in [Partition -> Seq(Command)]
      /\ \A p \in Partition : Sent(queue'[p], step)
                              /\ \A k \in 1..Len(queue'[p]) : partitionId[queue'[p][k]] = p
  <2>1. /\ queue \in [Partition -> Seq(Command)]
        /\ \A p \in Partition : Sent(queue[p], step)
                                /\ \A k \in 1..Len(queue[p]) : partitionId[queue[p][k]] = p
    BY DEF TypeInv, SentIsAnswered, InItsQueue
  <2>2. CASE queue' = queue
    BY <2>1, <2>2
  <2>3. CASE i \in Partition /\ queue' = [queue EXCEPT ![i] = Append(queue[i], c)]
    <3> DEFINE new == Append(queue[i], c)
    <3>1. queue[i] \in Seq(Command) /\ Sent(queue[i], step)
      BY <2>1, <2>3
    <3>2. new \in Seq(Command) /\ Sent(new, step)
      BY <1>2, <3>1, SentAppends
    <3>3. \A k \in 1..Len(new) : partitionId[new[k]] = i
      <4>1. \A k \in 1..Len(new) : new[k] = c \/ (k \in 1..Len(queue[i]) /\ new[k] = queue[i][k])
        BY <1>2, <3>1
      <4>2. partitionId[c] = i
        BY DEF i
      <4> HIDE DEF new
      <4>3. QED
        BY <2>1, <2>3, <4>1, <4>2
    <3> HIDE DEF new
    <3>4. queue' = [queue EXCEPT ![i] = new]
      BY <2>3 DEF new
    <3>5. QED
      BY <2>1, <2>3, <3>2, <3>3, <3>4
  <2>4. QED
    BY <1>4, <2>2, <2>3
<1>7. TypeInv'
  BY <1>3, <1>5, <1>6 DEF TypeInv
<1>8. SentIsAnswered' /\ InItsQueue'
  BY <1>3, <1>5, <1>6 DEF SentIsAnswered, InItsQueue
<1>9. RoutedByHash' /\ DecidedIsFinal'
  BY <1>3 DEF RoutedByHash, DecidedIsFinal
<1>10. QED
  BY <1>7, <1>8, <1>9

LEMMA DecideInv ==
  ASSUME ApiInv, NEW i \in Partition, Decide(i) \/ Refuse(i)
  PROVE  ApiInv'
<1> USE DEF ApiInv
<1> DEFINE c == Head(queue[i])
<1>1. /\ queue[i] # <<>> /\ queue[i] \in Seq(Command) /\ Sent(queue[i], step)
      /\ queue' = [queue EXCEPT ![i] = Tail(queue[i])]
  BY DEF Decide, Refuse, TypeInv, SentIsAnswered
<1>2. /\ c \in Command /\ step[c] = "done"
      /\ Tail(queue[i]) \in Seq(Command) /\ Sent(Tail(queue[i]), step)
  BY <1>1, SentTakes
<1>3. PICK s \in {"PROCESSED", "REJECTED", "refused"} :
        /\ outcome' = [outcome EXCEPT ![c] = s]
        /\ \/ s # "refused" /\ status' = [status EXCEPT ![c] = s]
           \/ s = "refused" /\ status' = status
  BY DEF Decide, Refuse
<1>4. UNCHANGED <<step, symbol, partitionId, channel, open, wire>>
  BY DEF Decide, Refuse, requestVars, channelVars
<1>5. \A k \in 1..Len(Tail(queue[i])) : partitionId[Tail(queue[i])[k]] = i
  <2>1. \A k \in 1..Len(queue[i]) : partitionId[queue[i][k]] = i
    BY DEF InItsQueue
  <2>2. \A k \in 1..Len(Tail(queue[i])) :
          k + 1 \in 1..Len(queue[i]) /\ Tail(queue[i])[k] = queue[i][k + 1]
    BY <1>1, HeadTailProperties, LenProperties
  <2>3. QED
    BY <2>1, <2>2
<1> HIDE DEF c
<1>6. /\ queue' \in [Partition -> Seq(Command)]
      /\ \A p \in Partition : Sent(queue'[p], step)
                              /\ \A k \in 1..Len(queue'[p]) : partitionId[queue'[p][k]] = p
  <2>1. /\ queue \in [Partition -> Seq(Command)]
        /\ \A p \in Partition : Sent(queue[p], step)
                                /\ \A k \in 1..Len(queue[p]) : partitionId[queue[p][k]] = p
    BY DEF TypeInv, SentIsAnswered, InItsQueue
  <2>2. QED
    BY <1>1, <1>2, <1>5, <2>1
<1>7. TypeInv'
  BY <1>2, <1>3, <1>4, <1>6 DEF TypeInv, Statuses
<1>8. SentIsAnswered' /\ InItsQueue'
  BY <1>4, <1>6 DEF SentIsAnswered, InItsQueue, TypeInv
<1>9. RoutedByHash'
  BY <1>4 DEF RoutedByHash
<1>10. DecidedIsFinal'
  BY <1>2, <1>3, <1>4 DEF DecidedIsFinal, TypeInv
<1>11. QED
  BY <1>7, <1>8, <1>9, <1>10

LEMMA BrokerStopsInv ==
  ASSUME ApiInv, BrokerStops
  PROVE  ApiInv'
<1> USE DEF ApiInv
<1>1. /\ open' = [ch \in DOMAIN open |-> FALSE] /\ wire' = [ch \in DOMAIN wire |-> <<>>]
      /\ step' = [c \in Command |->
                    IF step[c] \in {"opening", "settingUp"} THEN "failing" ELSE step[c]]
      /\ UNCHANGED <<symbol, partitionId, status, outcome, channel, queue>>
  BY DEF BrokerStops
<1>2. /\ open' \in Seq(BOOLEAN) /\ Len(open') = Len(open)
      /\ wire' \in Seq(Seq(Command)) /\ Len(wire') = Len(wire)
      /\ \A ch \in 1..Len(wire') : wire'[ch] = <<>>
  <2>1. open \in Seq(BOOLEAN) /\ wire \in Seq(Seq(Command)) /\ <<>> \in Seq(Command)
    BY DEF TypeInv
  <2>2. Len(open) \in Nat /\ DOMAIN open = 1..Len(open)
        /\ Len(wire) \in Nat /\ DOMAIN wire = 1..Len(wire)
    BY <2>1
  <2>3. open' \in [1..Len(open) -> BOOLEAN] /\ wire' \in [1..Len(wire) -> Seq(Command)]
    BY <1>1, <2>1, <2>2
  <2>4. open' \in Seq(BOOLEAN) /\ Len(open') = Len(open)
    BY <2>2, <2>3, SeqDef, LenProperties
  <2>5. wire' \in Seq(Seq(Command)) /\ Len(wire') = Len(wire)
    BY <2>2, <2>3, SeqDef, LenProperties
  <2>6. QED
    BY <1>1, <2>2, <2>4, <2>5
<1>3. /\ step' \in [Command -> Step]
      /\ \A c \in Command : /\ step[c] = "done" => step'[c] = "done"
                            /\ step[c] = "none" <=> step'[c] = "none"
  BY <1>1 DEF TypeInv, Step
<1>4. TypeInv'
  BY <1>1, <1>2, <1>3 DEF TypeInv
<1>5. ASSUME NEW i \in Partition PROVE Sent(queue[i], step')
  <2>1. queue[i] \in Seq(Command) /\ Sent(queue[i], step)
    BY DEF TypeInv, SentIsAnswered
  <2>2. QED
    BY <1>3, <2>1 DEF Sent
<1>6. SentIsAnswered'
  <2>1. Len(<<>>) = 0
    OBVIOUS
  <2>2. \A ch \in 1..Len(wire') : Sent(wire'[ch], step')
    BY <1>2, <2>1 DEF Sent
  <2>3. QED
    BY <1>1, <1>5, <2>2 DEF SentIsAnswered
<1>7. InItsQueue' /\ RoutedByHash' /\ DecidedIsFinal'
  BY <1>1, <1>3 DEF InItsQueue, RoutedByHash, DecidedIsFinal
<1>8. QED
  BY <1>4, <1>6, <1>7

-----------------------------------------------------------------------------
(* The theorems *)

LEMMA InitApi == Init => ApiInv
<1> SUFFICES ASSUME Init PROVE ApiInv
  OBVIOUS
<1>1. TypeInv
  BY DEF Init, TypeInv, Step, Statuses, Null
<1>2. SentIsAnswered /\ InItsQueue
  BY DEF Init, SentIsAnswered, InItsQueue, Sent
<1>3. RoutedByHash /\ DecidedIsFinal
  BY DEF Init, RoutedByHash, DecidedIsFinal
<1>4. QED
  BY <1>1, <1>2, <1>3 DEF ApiInv

LEMMA NextApi == ApiInv /\ [Next]_vars => ApiInv'
<1> SUFFICES ASSUME ApiInv, [Next]_vars PROVE ApiInv'
  OBVIOUS
<1>1. ASSUME NEW c \in Command, Receive(c) \/ RouteStep(c) PROVE ApiInv'
  BY <1>1, ReceiveInv, RouteStepInv
<1>2. ASSUME NEW ch \in DOMAIN wire, Take(ch) PROVE ApiInv'
  BY <1>2, TakeInv
<1>3. ASSUME NEW i \in Partition, Decide(i) \/ Refuse(i) PROVE ApiInv'
  BY <1>3, DecideInv
<1>4. CASE AssertPartitionQueues
  BY <1>4, QuietStepInv DEF AssertPartitionQueues, requestVars, channelVars
<1>5. CASE BrokerStops
  BY <1>5, BrokerStopsInv
<1>6. CASE BrokerStarts
  BY <1>6, QuietStepInv DEF BrokerStarts, requestVars, channelVars
<1>7. CASE UNCHANGED vars
  BY <1>7, QuietStepInv DEF vars, requestVars, channelVars, brokerVars
<1>8. QED
  BY <1>1, <1>2, <1>3, <1>4, <1>5, <1>6, <1>7 DEF Next

\* A command that a client finds QUEUED is undecided or refused: whatever requests,
\* brokers and workers do in between, the status saved by the route never replaces the
\* one a worker has stored (saveStatus before publish in api/routes/bookRoutes.js).
THEOREM QueuedAlwaysUndecided == Spec => []QueuedIsUndecided
<1>1. ApiInv => QueuedIsUndecided
  BY DEF ApiInv, DecidedIsFinal, QueuedIsUndecided
<1>2. QED
  BY InitApi, NextApi, <1>1, PTL DEF Spec

\* Every message is in the queue from which both workers take its symbol, for any
\* number of partitions and any symbols that Go reads as they were sent (publish in
\* RabbitOrderCommandBus.js, symbolPartitioner.js, partition.go).
THEOREM AlwaysInOwnQueue == Spec => []InOwnQueue
<1>1. ASSUME ApiInv PROVE InOwnQueue
  <2> SUFFICES ASSUME NEW i \in Partition, NEW c \in ToSet(queue[i])
               PROVE  /\ GetPartitionId(symbol[c]) = i
                      /\ IsCommon(symbol[c]) => GoPartitionId(symbol[c]) = i
    BY DEF InOwnQueue
  <2> USE <1>1 DEF ApiInv
  <2>1. queue[i] \in Seq(Command)
    BY DEF TypeInv
  <2>2. PICK k \in 1..Len(queue[i]) : queue[i][k] = c
    BY <2>1 DEF ToSet
  <2>3. c \in Command /\ step[c] = "done" /\ partitionId[c] = i
    BY <2>1, <2>2 DEF SentIsAnswered, Sent, InItsQueue
  <2>4. symbol[c] \in Seq(CodeUnit) /\ GetPartitionId(symbol[c]) = i
    BY <2>3 DEF TypeInv, RoutedByHash
  <2>5. QED
    BY <2>4, PartitionersAgree
<1>2. QED
  BY InitApi, NextApi, <1>1, PTL DEF Spec
=============================================================================
