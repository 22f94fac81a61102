-------------------------- MODULE Pn532CmdProofs ----------------------------
(***************************************************************************)
(* Proofs about the frames and the commands of the PN532, for every data   *)
(* that goes through the chip, every buffer and every damage of a byte.    *)
(* The additive checksum is recursive, so what it computes is found by     *)
(* least counterexample: no shortest sequence or part has another sum.     *)
(* What a call delivers is proved where no reply looks like another once   *)
(* its start code is damaged or gone (DataIsNoFrame); everything else      *)
(* holds under any damage.                                                 *)
(***************************************************************************)
EXTENDS Pn532Cmd, SequenceTheorems, WellFoundedInduction, TLAPS

-----------------------------------------------------------------------------
(***************************************************************************)
(* The checksum                                                            *)
(***************************************************************************)

\* A set of naturals that is not empty has a least element.
LEMMA LeastElement ==
    ASSUME NEW S \in SUBSET Nat, S # {}
    PROVE  \E x \in S : \A y \in S : x <= y
<1>1. PICK x \in S : \A y \in S : ~(<<y, x>> \in OpToRel(<, Nat))
  BY NatLessThanWellFounded, WFMin, Zenon
<1>2. \A y \in Nat : ~(<<y, x>> \in OpToRel(<, Nat)) => x <= y
  BY SMT DEF OpToRel
<1> QED
  BY <1>1, <1>2

\* The sum of two remainders is that of the sum, up to a multiple of 256.
LEMMA RemainderOfSum ==
    ASSUME NEW a \in Nat, NEW b \in Nat
    PROVE  ((a % 256) + (b % 256)) % 256 = (a + b) % 256
OBVIOUS

\* Bytes that are taken off a sum come out of its remainder.
LEMMA RemainderOfByte ==
    ASSUME NEW a \in Nat, NEW b \in Nat, NEW c \in 0 .. 255, a = b + c
    PROVE  (a - b) % 256 = c
OBVIOUS

\* The sums of the first bytes of a sequence.
IsPrefixSum(P, bytes) ==
    /\ P \in [0 .. Len(bytes) -> Nat]
    /\ P[0] = 0
    /\ \A i \in 1 .. Len(bytes) : P[i] = P[i - 1] + bytes[i]

\* A member of a byte sequence is a byte.
LEMMA ByteAt ==
    ASSUME NEW bytes \in Seq(Bytes)
    PROVE  /\ Len(bytes) \in Nat
           /\ \A i \in 1 .. Len(bytes) : bytes[i] \in Nat /\ bytes[i] \in 0 .. 255
<1>1. Len(bytes) \in Nat /\ \A i \in 1 .. Len(bytes) : bytes[i] \in Bytes
  BY ElementOfSeq, LenProperties
<1>2. \A b \in Bytes : b \in Nat /\ b \in 0 .. 255
  BY DEF Bytes
<1> QED
  BY <1>1, <1>2

\* Every byte sequence has its prefix sums: no least length is without.
LEMMA PrefixSumExists ==
    ASSUME NEW bytes \in Seq(Bytes)
    PROVE  \E P : IsPrefixSum(P, bytes)
<1> DEFINE n == Len(bytes)
           Sums(k) == {P \in [0 .. k -> Nat] :
                          P[0] = 0 /\ \A i \in 1 .. k : P[i] = P[i - 1] + bytes[i]}
           S == {k \in 0 .. n : Sums(k) = {}}
<1>1. n \in Nat /\ \A i \in 1 .. n : bytes[i] \in Nat
  BY ByteAt
<1>2. SUFFICES S = {}
  <2>1. n \notin S
    BY <1>2
  <2>2. Sums(n) # {}
    BY <1>1, <2>1
  <2> QED
    BY <2>2 DEF IsPrefixSum
<1>6. S \in SUBSET Nat
  BY <1>1
<1>3. SUFFICES ASSUME NEW k \in S, \A l \in S : k <= l PROVE FALSE
  <2> HIDE DEF S
  <2> QED
    BY <1>3, <1>6, LeastElement
<1>7. k \in 0 .. n /\ Sums(k) = {}
  OBVIOUS
<1>4. CASE k = 0
  <2>1. [i \in 0 .. 0 |-> 0] \in Sums(0)
    OBVIOUS
  <2> QED
    BY <1>4, <2>1
<1>5. CASE k # 0
  <2>1. k - 1 \in 0 .. n /\ ~(k <= k - 1)
    BY <1>1, <1>7, <1>5
  <2>3. Sums(k - 1) # {}
    BY <1>3, <2>1
  <2>2. PICK P \in [0 .. k - 1 -> Nat] :
           P[0] = 0 /\ \A i \in 1 .. k - 1 : P[i] = P[i - 1] + bytes[i]
    BY <2>3
  <2> DEFINE Q == [i \in 0 .. k |-> IF i < k THEN P[i] ELSE P[k - 1] + bytes[k]]
  <2>4. Q \in [0 .. k -> Nat]
    BY <1>1, <1>5, <1>7
  <2>5. Q[0] = 0 /\ \A i \in 1 .. k : Q[i] = Q[i - 1] + bytes[i]
    BY <1>1, <1>5, <1>7, <2>2
  <2>6. Q \in Sums(k)
    BY <2>4, <2>5
  <2> QED
    BY <1>7, <2>6
<1> QED
  BY <1>4, <1>5

\* They grow with the length.
LEMMA PrefixSumGrows ==
    ASSUME NEW bytes \in Seq(Bytes), NEW P, IsPrefixSum(P, bytes)
    PROVE  \A i, j \in 0 .. Len(bytes) : i <= j => P[i] <= P[j]
<1> DEFINE n == Len(bytes)
           S == {d \in 0 .. n : \E i \in 0 .. n - d : P[i] > P[i + d]}
<1>1. n \in Nat /\ \A i \in 1 .. n : bytes[i] \in Nat
  BY ByteAt
<1>2. SUFFICES S = {}
  <2> SUFFICES ASSUME NEW i \in 0 .. n, NEW j \in 0 .. n, i <= j, P[i] > P[j] PROVE FALSE
    BY <1>1 DEF IsPrefixSum
  <2>1. j - i \in 0 .. n /\ i \in 0 .. n - (j - i) /\ i + (j - i) = j
    BY <1>1
  <2> QED
    BY <1>2, <2>1
<1>0. S \in SUBSET Nat
  BY <1>1
<1>3. SUFFICES ASSUME NEW d \in S, \A l \in S : d <= l PROVE FALSE
  <2> HIDE DEF S
  <2> QED
    BY <1>0, <1>3, LeastElement
<1>4. PICK i \in 0 .. n - d : P[i] > P[i + d]
  BY <1>3
<1>5. P[i] \in Nat /\ P[i + d] \in Nat /\ d # 0
  <2>1. d \in 0 .. n /\ i \in 0 .. n /\ i + d \in 0 .. n
    BY <1>1, <1>4
  <2>2. P[i] \in Nat /\ P[i + d] \in Nat
    BY <2>1 DEF IsPrefixSum
  <2> QED
    BY <1>4, <2>1, <2>2
<1>6. i + d \in 1 .. n /\ d - 1 \in 0 .. n /\ i \in 0 .. n - (d - 1) /\ i + (d - 1) = i + d - 1
  BY <1>1, <1>5
<1>7. P[i + d] = P[i + d - 1] + bytes[i + d] /\ P[i + d - 1] \in Nat
  <2>1. i + d - 1 \in 0 .. n
    BY <1>1, <1>6
  <2> QED
    BY <1>6, <2>1 DEF IsPrefixSum
<1>8. P[i] > P[i + (d - 1)]
  BY <1>1, <1>4, <1>5, <1>6, <1>7
<1>9. d - 1 \in S
  BY <1>6, <1>8
<1>10. ~(d <= d - 1)
  BY <1>1
<1> QED
  BY <1>3, <1>9, <1>10

\* However the halves are added up, the sum is the one of all the bytes.
LEMMA SumOfIsSum ==
    ASSUME NEW bytes \in Seq(Bytes), NEW P, IsPrefixSum(P, bytes)
    PROVE  SumOf(bytes) = P[Len(bytes)] % 256
<1> DEFINE n == Len(bytes)
           Parts == (1 .. n) \X (1 .. n)
           Middle(p) == (p[1] + p[2]) \div 2
           Added(sum, p) ==
              IF p[1] = p[2] THEN bytes[p[1]]
              ELSE (sum[<<p[1], Middle(p)>>] + sum[<<Middle(p) + 1, p[2]>>]) % 256
           Eq(sum) == sum = [part \in Parts |->
                        LET i == part[1]
                            j == part[2]
                            middle == (i + j) \div 2
                        IN  IF i = j THEN bytes[i]
                            ELSE (sum[<<i, middle>>] + sum[<<middle + 1, j>>]) % 256]
           Direct(p) == IF p[1] <= p[2] THEN (P[p[2]] - P[p[1] - 1]) % 256 ELSE 0
           g == [p \in Parts |-> Direct(p)]
<1>1. n \in Nat /\ \A i \in 1 .. n : bytes[i] \in 0 .. 255 /\ P[i] = P[i - 1] + bytes[i]
  BY ByteAt DEF IsPrefixSum
<1>2. \A i \in 0 .. n : P[i] \in Nat
  BY DEF IsPrefixSum
<1>3. \A i, j \in 0 .. n : i <= j => P[j] - P[i] \in Nat
  BY <1>1, <1>2, PrefixSumGrows
<1>4. CASE n = 0
  BY <1>4 DEF SumOf, IsPrefixSum
<1>5. CASE n # 0
  <2>1. SumOf(bytes) = (CHOOSE sum : Eq(sum))[<<1, n>>]
    BY <1>5 DEF SumOf
  \* The halves of a part, and what the direct sum makes of them.
  <2>2. ASSUME NEW i \in 1 .. n, NEW j \in 1 .. n, i < j
        PROVE  /\ (i + j) \div 2 \in i .. j - 1
               /\ (((P[(i + j) \div 2] - P[i - 1]) % 256)
                    + ((P[j] - P[(i + j) \div 2]) % 256)) % 256 = (P[j] - P[i - 1]) % 256
    <3> DEFINE m == (i + j) \div 2
    <3>1. m \in i .. j - 1
      BY <2>2
    <3> HIDE DEF m
    <3>2. m \in 0 .. n /\ i - 1 \in 0 .. n /\ i - 1 <= m /\ m <= j
      BY <1>1, <2>2, <3>1
    <3>3. P[m] - P[i - 1] \in Nat /\ P[j] - P[m] \in Nat
      <4>1. j \in 0 .. n
        BY <1>1
      <4> QED
        BY <1>3, <3>2, <4>1
    <3>4. (P[m] - P[i - 1]) + (P[j] - P[m]) = P[j] - P[i - 1]
      BY <1>2, <3>2
    <3>5. (((P[m] - P[i - 1]) % 256) + ((P[j] - P[m]) % 256)) % 256 = (P[j] - P[i - 1]) % 256
      BY <3>3, <3>4, RemainderOfSum
    <3> QED
      BY <3>1, <3>5 DEF m
  <2>3. ASSUME NEW i \in 1 .. n
        PROVE  (P[i] - P[i - 1]) % 256 = bytes[i]
    <3>1. i \in 0 .. n /\ i - 1 \in 0 .. n
      BY <1>1
    <3>2. P[i] \in Nat /\ P[i - 1] \in Nat /\ P[i] = P[i - 1] + bytes[i]
          /\ bytes[i] \in 0 .. 255
      BY <1>1, <1>2, <3>1
    <3> DEFINE a == P[i]
               b == P[i - 1]
               c == bytes[i]
    <3>3. a \in Nat /\ b \in Nat /\ c \in 0 .. 255 /\ a = b + c
      BY <3>2
    <3> HIDE DEF a, b, c
    <3>4. (a - b) % 256 = c
      BY <3>3, RemainderOfByte
    <3> QED
      BY <3>4 DEF a, b, c
  \* There is such a table, ...
  <2>4. Eq(g)
    <3>1. ASSUME NEW i \in 1 .. n, NEW j \in 1 .. n
          PROVE  Direct(<<i, j>>) = Added(g, <<i, j>>)
      <4>0. \A k, l \in 1 .. n : g[<<k, l>>] = IF k <= l THEN (P[l] - P[k - 1]) % 256 ELSE 0
        OBVIOUS
      <4> HIDE DEF g
      <4>1. CASE i = j
        BY <4>1, <2>3
      <4>2. CASE i < j
        <5> DEFINE m == (i + j) \div 2
        <5>1. m \in i .. j - 1 /\ (((P[m] - P[i - 1]) % 256)
                    + ((P[j] - P[m]) % 256)) % 256 = (P[j] - P[i - 1]) % 256
          BY <4>2, <2>2
        <5>2. Added(g, <<i, j>>) = (g[<<i, m>>] + g[<<m + 1, j>>]) % 256
          BY <4>2
        <5> HIDE DEF m
        <5>3. m \in 1 .. n /\ m + 1 \in 1 .. n /\ i <= m /\ m + 1 <= j /\ (m + 1) - 1 = m
          BY <1>1, <5>1, <4>2
        <5>4. g[<<i, m>>] = (P[m] - P[i - 1]) % 256 /\ g[<<m + 1, j>>] = (P[j] - P[m]) % 256
          BY <4>0, <5>3
        <5> QED
          BY <4>2, <5>1, <5>2, <5>4
      <4>3. CASE i > j
        <5> DEFINE m == (i + j) \div 2
        <5>1. m \in j .. i - 1
          BY <4>3
        <5>2. Added(g, <<i, j>>) = (g[<<i, m>>] + g[<<m + 1, j>>]) % 256
          BY <4>3
        <5> HIDE DEF m
        <5>3. m \in 1 .. n /\ m + 1 \in 1 .. n /\ i > m /\ m + 1 > j
          BY <1>1, <5>1, <4>3
        <5>4. g[<<i, m>>] = 0 /\ g[<<m + 1, j>>] = 0
          BY <4>0, <5>3
        <5> QED
          BY <4>3, <5>2, <5>4
      <4> QED
        BY <4>1, <4>2, <4>3
    <3>2. \A p \in Parts : Direct(p) = Added(g, p)
      <4> HIDE DEF Direct, Added
      <4> TAKE p \in Parts
      <4>1. PICK i \in 1 .. n, j \in 1 .. n : p = <<i, j>>
        OBVIOUS
      <4>2. Direct(<<i, j>>) = Added(g, <<i, j>>)
        BY <3>1
      <4> QED
        BY <4>1, <4>2
    <3> QED
      BY <3>2
  \* ... and every such table has these sums.
  <2>5. ASSUME NEW sum, Eq(sum)
        PROVE  \A i, j \in 1 .. n : i <= j => sum[<<i, j>>] = (P[j] - P[i - 1]) % 256
    <3> DEFINE S == {d \in 0 .. n : \E i \in 1 .. n : i + d \in 1 .. n
                        /\ sum[<<i, i + d>>] # (P[i + d] - P[i - 1]) % 256}
    <3>0. \A i, j \in 1 .. n : sum[<<i, j>>] = Added(sum, <<i, j>>)
      BY <2>5
    <3>1. SUFFICES S = {}
      <4> SUFFICES ASSUME NEW i \in 1 .. n, NEW j \in 1 .. n, i <= j,
                          sum[<<i, j>>] # (P[j] - P[i - 1]) % 256
                   PROVE  FALSE
        OBVIOUS
      <4>1. j - i \in 0 .. n /\ i + (j - i) = j
        BY <1>1
      <4>2. sum[<<i, i + (j - i)>>] # (P[i + (j - i)] - P[i - 1]) % 256
        BY <4>1
      <4>3. j - i \in S
        BY <4>1, <4>2
      <4> QED
        BY <3>1, <4>3
    <3>6. S \in SUBSET Nat
      BY <1>1
    <3>2. SUFFICES ASSUME NEW d \in S, \A l \in S : d <= l PROVE FALSE
      <4> HIDE DEF S
      <4> QED
        BY <3>2, <3>6, LeastElement
    <3>3. PICK i \in 1 .. n : i + d \in 1 .. n
                        /\ sum[<<i, i + d>>] # (P[i + d] - P[i - 1]) % 256
      BY <3>2
    <3>4. CASE d = 0
      <4>1. sum[<<i, i>>] = bytes[i]
        BY <3>0
      <4> QED
        BY <3>3, <3>4, <4>1, <2>3
    <3>5. CASE d # 0
      <4> DEFINE j == i + d
                 m == (i + j) \div 2
      <4>1. i < j /\ j \in 1 .. n
        BY <3>3, <3>5, <1>1
      <4>2. sum[<<i, j>>] = (sum[<<i, m>>] + sum[<<m + 1, j>>]) % 256
        BY <3>0, <4>1
      <4>3. m \in i .. j - 1 /\ (((P[m] - P[i - 1]) % 256)
                    + ((P[j] - P[m]) % 256)) % 256 = (P[j] - P[i - 1]) % 256
        BY <4>1, <2>2
      <4> HIDE DEF m
      <4>4. /\ m - i \in 0 .. n /\ m - i < d /\ i + (m - i) = m /\ m \in 1 .. n
            /\ j - (m + 1) \in 0 .. n /\ j - (m + 1) < d /\ (m + 1) + (j - (m + 1)) = j
            /\ m + 1 \in 1 .. n /\ (m + 1) - 1 = m
        BY <1>1, <4>1, <4>3
      <4>8. ~(d <= m - i) /\ ~(d <= j - (m + 1))
        BY <1>1, <4>4
      <4>5. m - i \notin S /\ j - (m + 1) \notin S
        <5> HIDE DEF S
        <5> QED
          BY <3>2, <4>8
      <4>9. \A k \in 1 .. n, e \in 0 .. n : e \notin S /\ k + e \in 1 .. n
                => sum[<<k, k + e>>] = (P[k + e] - P[k - 1]) % 256
        OBVIOUS
      <4> HIDE DEF S
      <4>6. sum[<<i, m>>] = (P[m] - P[i - 1]) % 256
        <5>1. sum[<<i, i + (m - i)>>] = (P[i + (m - i)] - P[i - 1]) % 256
          BY <4>4, <4>5, <4>9
        <5> QED
          BY <4>4, <5>1
      <4>7. sum[<<m + 1, j>>] = (P[j] - P[m]) % 256
        <5>1. sum[<<m + 1, (m + 1) + (j - (m + 1))>>]
                 = (P[(m + 1) + (j - (m + 1))] - P[(m + 1) - 1]) % 256
          BY <4>1, <4>4, <4>5, <4>9
        <5> QED
          BY <4>4, <5>1
      <4> QED
        BY <3>3, <4>2, <4>3, <4>6, <4>7
    <3> QED
      BY <3>4, <3>5
  <2> HIDE DEF Eq, g
  <2>6. Eq(CHOOSE sum : Eq(sum))
    BY <2>4, Zenon
  <2>7. (CHOOSE sum : Eq(sum))[<<1, n>>] = (P[n] - P[0]) % 256
    BY <1>1, <1>5, <2>5, <2>6
  <2> QED
    BY <1>1, <1>2, <2>1, <2>7 DEF IsPrefixSum
<1> QED
  BY <1>4, <1>5

\* The sum is a byte.
LEMMA SumIsByte ==
    ASSUME NEW bytes \in Seq(Bytes)
    PROVE  SumOf(bytes) \in Nat /\ SumOf(bytes) \in 0 .. 255
<1>1. PICK P : IsPrefixSum(P, bytes)
  BY PrefixSumExists
<1>2. P[Len(bytes)] \in Nat
  BY <1>1, ByteAt DEF IsPrefixSum
<1>3. SumOf(bytes) = P[Len(bytes)] % 256
  BY <1>1, SumOfIsSum
<1> DEFINE total == P[Len(bytes)]
<1>4. total \in Nat /\ SumOf(bytes) = total % 256
  BY <1>2, <1>3
<1> HIDE DEF total
<1>5. total % 256 \in Nat /\ total % 256 \in 0 .. 255
  BY <1>4
<1> QED
  BY <1>4, <1>5

\* One byte more.
LEMMA SumOfAppend ==
    ASSUME NEW bytes \in Seq(Bytes), NEW x \in Bytes
    PROVE  SumOf(Append(bytes, x)) = (SumOf(bytes) + x) % 256
<1> DEFINE n == Len(bytes)
           longer == Append(bytes, x)
<1>1. PICK P : IsPrefixSum(P, bytes)
  BY PrefixSumExists
<1>2. n \in Nat /\ x \in Nat /\ x \in 0 .. 255
  BY ByteAt DEF Bytes
<1>3. /\ longer \in Seq(Bytes) /\ Len(longer) = n + 1
      /\ \A i \in 1 .. n : longer[i] = bytes[i]
      /\ longer[n + 1] = x
  BY AppendProperties
<1> HIDE DEF longer
<1> DEFINE Q == [i \in 0 .. n + 1 |-> IF i <= n THEN P[i] ELSE P[n] + x]
<1>4. P \in [0 .. n -> Nat] /\ P[0] = 0 /\ \A i \in 1 .. n : P[i] = P[i - 1] + bytes[i]
  BY <1>1 DEF IsPrefixSum
<1>5. Q \in [0 .. n + 1 -> Nat]
  BY <1>2, <1>4
<1>6. Q[0] = 0 /\ Q[n + 1] = P[n] + x
  BY <1>2, <1>4
<1>7. \A i \in 1 .. n + 1 : Q[i] = Q[i - 1] + longer[i]
  <2> TAKE i \in 1 .. n + 1
  <2>1. CASE i <= n
    <3>1. i \in 1 .. n /\ i - 1 \in 0 .. n
      BY <2>1, <1>2
    <3>2. Q[i] = P[i] /\ Q[i - 1] = P[i - 1]
      BY <3>1, <1>2
    <3> HIDE DEF Q
    <3> QED
      BY <3>1, <3>2, <1>3, <1>4
  <2>2. CASE i = n + 1
    <3>1. Q[i - 1] = P[n]
      BY <2>2, <1>2
    <3> HIDE DEF Q
    <3> QED
      BY <2>2, <3>1, <1>3, <1>6
  <2> QED
    BY <1>2, <2>1, <2>2
<1> HIDE DEF Q
<1>8. IsPrefixSum(Q, longer)
  BY <1>3, <1>5, <1>6, <1>7 DEF IsPrefixSum
<1>9. SumOf(longer) = (P[n] + x) % 256 /\ SumOf(bytes) = P[n] % 256
  BY <1>1, <1>3, <1>6, <1>8, SumOfIsSum
<1>10. P[n] \in Nat
  BY <1>2, <1>4
<1>11. ((P[n] % 256) + (x % 256)) % 256 = (P[n] + x) % 256
  BY <1>2, <1>10, RemainderOfSum
<1>12. x % 256 = x
  BY <1>2
<1> QED
  BY <1>9, <1>11, <1>12 DEF longer

\* One byte closes a sum, and no other does.
LEMMA OnlyComplementCloses ==
    ASSUME NEW s \in 0 .. 255, NEW x \in 0 .. 255, (s + x) % 256 = 0
    PROVE  x = (256 - s) % 256
<1> DEFINE t == s + x
<1>1. t \in 0 .. 510 /\ t % 256 = 0
  OBVIOUS
<1>2. t = 0 \/ t = 256
  <2> HIDE DEF t
  <2> QED
    BY <1>1
<1> QED
  BY <1>2

\* The complement closes a sequence.
LEMMA ComplementCloses ==
    ASSUME NEW bytes \in Seq(Bytes)
    PROVE  /\ Complement(bytes) \in Bytes
           /\ SumOf(Append(bytes, Complement(bytes))) = 0
           /\ \A x \in Bytes : SumOf(Append(bytes, x)) = 0 => x = Complement(bytes)
<1> DEFINE s == SumOf(bytes)
<1>1. s \in 0 .. 255 /\ \A x \in Bytes : x \in 0 .. 255
  BY SumIsByte DEF Bytes
<1> HIDE DEF s
<1>2. (256 - s) % 256 \in 0 .. 255 /\ (s + ((256 - s) % 256)) % 256 = 0
  BY <1>1
<1>3. Complement(bytes) = (256 - s) % 256
  BY DEF s, Complement
<1>4. Complement(bytes) \in Bytes
  BY <1>2, <1>3 DEF Bytes
<1>5. \A x \in 0 .. 255 : (s + x) % 256 = 0 => x = (256 - s) % 256
  BY <1>1, OnlyComplementCloses
<1>6. \A x \in Bytes : SumOf(Append(bytes, x)) = (s + x) % 256
  BY SumOfAppend DEF s
<1>7. SumOf(Append(bytes, Complement(bytes))) = 0
  BY <1>2, <1>3, <1>4, <1>6
<1>8. ASSUME NEW x \in Bytes, SumOf(Append(bytes, x)) = 0
      PROVE  x = Complement(bytes)
  <2>1. x \in 0 .. 255 /\ (s + x) % 256 = 0
    BY <1>1, <1>6, <1>8
  <2> QED
    BY <1>3, <1>5, <2>1
<1> QED
  BY <1>4, <1>7, <1>8

\* Two sums whose bytes differ leave different remainders.
LEMMA RemaindersDiffer ==
    ASSUME NEW a \in Nat, NEW b \in Nat, NEW x \in 0 .. 255, NEW y \in 0 .. 255, x # y,
           a + x = b + y
    PROVE  a % 256 # b % 256
OBVIOUS

\* A byte that is damaged shows in the sum.
LEMMA DamageShows ==
    ASSUME NEW bytes \in Seq(Bytes), NEW k \in 1 .. Len(bytes), NEW x \in Bytes, x # bytes[k]
    PROVE  SumOf([bytes EXCEPT ![k] = x]) # SumOf(bytes)
<1> DEFINE n == Len(bytes)
           damaged == [bytes EXCEPT ![k] = x]
<1>1. /\ damaged \in Seq(Bytes) /\ Len(damaged) = n
      /\ \A i \in 1 .. n : damaged[i] = IF i = k THEN x ELSE bytes[i]
  BY ExceptSeq
<1> HIDE DEF damaged
<1>2. PICK P : IsPrefixSum(P, bytes)
  BY PrefixSumExists
<1>3. PICK Q : IsPrefixSum(Q, damaged)
  BY <1>1, PrefixSumExists
<1>4. n \in Nat /\ x \in 0 .. 255 /\ \A i \in 1 .. n : bytes[i] \in 0 .. 255
  BY ByteAt DEF Bytes
<1> DEFINE Good(i) == IF i < k THEN Q[i] = P[i] ELSE Q[i] + bytes[k] = P[i] + x
           S == {i \in 0 .. n : ~Good(i)}
<1>5. /\ \A i \in 0 .. n : P[i] \in Nat /\ Q[i] \in Nat
      /\ P[0] = 0 /\ Q[0] = 0
      /\ \A i \in 1 .. n : P[i] = P[i - 1] + bytes[i]
      /\ \A i \in 1 .. n : Q[i] = Q[i - 1] + damaged[i]
  BY <1>1, <1>2, <1>3 DEF IsPrefixSum
<1>6. S = {}
  <2>1. S \in SUBSET Nat
    BY <1>4
  <2>2. ASSUME NEW i \in S, \A l \in S : i <= l
        PROVE  FALSE
    <3>1. i \in 0 .. n /\ ~Good(i)
      OBVIOUS
    <3>2. i # 0
      BY <1>4, <1>5, <3>1
    <3>3. i \in 1 .. n /\ i - 1 \in 0 .. n /\ ~(i <= i - 1)
      BY <1>4, <3>1, <3>2
    <3>4. i - 1 \notin S
      BY <2>2, <3>3
    <3>5. Good(i - 1)
      BY <3>3, <3>4
    <3> DEFINE p == P[i - 1]
               q == Q[i - 1]
               b == bytes[i]
               e == damaged[i]
               c == bytes[k]
    <3>6. p \in Nat /\ q \in Nat /\ b \in 0 .. 255 /\ P[i] = p + b /\ Q[i] = q + e
          /\ e = (IF i = k THEN x ELSE b) /\ (i = k => b = c) /\ c \in 0 .. 255
      BY <1>1, <1>4, <1>5, <3>3
    <3>7. IF i - 1 < k THEN q = p ELSE q + c = p + x
      BY <3>5
    <3>8. ~(IF i < k THEN q + e = p + b ELSE q + e + c = p + b + x)
      BY <3>1, <3>6
    <3> HIDE DEF p, q, b, e, c
    <3> QED
      BY <1>4, <3>3, <3>6, <3>7, <3>8
  <2> HIDE DEF S
  <2> QED
    BY <2>1, <2>2, LeastElement
<1>7. Good(n)
  BY <1>4, <1>6
<1> DEFINE p == P[n]
           q == Q[n]
           c == bytes[k]
<1>8. p \in Nat /\ q \in Nat /\ c \in 0 .. 255 /\ q + c = p + x
  BY <1>4, <1>5, <1>7
<1>9. SumOf(bytes) = p % 256 /\ SumOf(damaged) = q % 256
  BY <1>1, <1>2, <1>3, SumOfIsSum
<1>10. c # x
  OBVIOUS
<1> HIDE DEF p, q, c
<1>11. q % 256 # p % 256
  BY <1>4, <1>8, <1>10, RemaindersDiffer
<1> QED
  BY <1>9, <1>11 DEF damaged

-----------------------------------------------------------------------------
(***************************************************************************)
(* Frames that are built                                                   *)
(***************************************************************************)

\* The bytes of the length field.
FieldLen(n) == IF n > PN532_NORMAL_LEN_MAX THEN 5 ELSE 2

\* The bytes of two sequences that are joined.
LEMMA Joined ==
    ASSUME NEW s \in Seq(Bytes), NEW t \in Seq(Bytes)
    PROVE  /\ s \o t \in Seq(Bytes) /\ Len(s \o t) = Len(s) + Len(t)
           /\ Len(s) \in Nat /\ Len(t) \in Nat
           /\ \A i \in 1 .. Len(s) : (s \o t)[i] = s[i]
           /\ \A i \in 1 .. Len(t) : (s \o t)[Len(s) + i] = t[i]
<1>1. Len(s) \in Nat /\ Len(t) \in Nat
  BY LenProperties
<1>2. /\ s \o t \in Seq(Bytes) /\ Len(s \o t) = Len(s) + Len(t)
      /\ \A i \in 1 .. Len(s) + Len(t) :
           (s \o t)[i] = IF i <= Len(s) THEN s[i] ELSE t[i - Len(s)]
  BY ConcatProperties
<1>3. \A i \in 1 .. Len(s) : (s \o t)[i] = s[i]
  BY <1>1, <1>2
<1>4. ASSUME NEW i \in 1 .. Len(t) PROVE (s \o t)[Len(s) + i] = t[i]
  <2> DEFINE k == Len(s) + i
  <2>1. k \in 1 .. Len(s) + Len(t) /\ ~(k <= Len(s)) /\ k - Len(s) = i
    BY <1>1
  <2> QED
    BY <1>2, <2>1
<1> QED
  BY <1>1, <1>2, <1>3, <1>4

\* The bytes of the length field, normal or extended.
LEMMA LengthFieldBytes ==
    ASSUME NEW n \in 1 .. PN532_MAX_PAYLOAD_LEN
    PROVE  /\ LengthField(n) \in Seq(Bytes) /\ Len(LengthField(n)) = FieldLen(n)
           /\ IF n > PN532_NORMAL_LEN_MAX
              THEN /\ LengthField(n)[1] = 255 /\ LengthField(n)[2] = 255
                   /\ LengthField(n)[3] = n \div 256 /\ LengthField(n)[4] = n % 256
                   /\ LengthField(n)[5] = Complement(<<n \div 256, n % 256>>)
              ELSE LengthField(n)[1] = n /\ LengthField(n)[2] = Complement(<<n>>)
<1> USE DEF PN532_MAX_PAYLOAD_LEN, PN532_NORMAL_LEN_MAX, PN532_EXTENDED_MARKER
<1>1. CASE n > 254
  <2> DEFINE hi == n \div 256
             lo == n % 256
             big == <<hi, lo>>
             c == Complement(big)
  <2>1. hi \in Bytes /\ lo \in Bytes /\ 255 \in Bytes
    BY DEF Bytes
  <2> HIDE DEF hi, lo
  <2>2. big \in Seq(Bytes)
    BY <2>1
  <2>3. c \in Bytes
    BY <2>2, ComplementCloses
  <2>4. LengthField(n) = <<255, 255>> \o big \o <<c>>
    BY <1>1 DEF LengthField, hi, lo
  <2> HIDE DEF c
  <2>5. <<255, 255>> \o big \o <<c>> = <<255, 255, hi, lo, c>>
    <3> DEFINE a == <<255, 255>>
               z == <<c>>
    <3>1. a \in Seq(Bytes) /\ Len(a) = 2 /\ a[1] = 255 /\ a[2] = 255
          /\ Len(big) = 2 /\ big[1] = hi /\ big[2] = lo
          /\ z \in Seq(Bytes) /\ Len(z) = 1 /\ z[1] = c
      BY <2>1, <2>3
    <3> HIDE DEF a, z, big
    <3> DEFINE ab == a \o big
    <3>2. ab \in Seq(Bytes) /\ Len(ab) = 4 /\ ab[1] = 255 /\ ab[2] = 255 /\ ab[3] = hi /\ ab[4] = lo
      <4>0. a \in Seq(Bytes) /\ big \in Seq(Bytes)
        BY <2>2, <3>1 DEF big
      <4>1. /\ ab \in Seq(Bytes) /\ Len(ab) = Len(a) + Len(big)
            /\ \A i \in 1 .. Len(a) : ab[i] = a[i]
            /\ \A i \in 1 .. Len(big) : ab[Len(a) + i] = big[i]
        BY <4>0, Joined, Zenon
      <4> HIDE DEF ab
      <4>2. ab[1] = a[1] /\ ab[2] = a[2] /\ ab[2 + 1] = big[1] /\ ab[2 + 2] = big[2]
        BY <3>1, <4>1
      <4> QED
        BY <3>1, <4>1, <4>2
    <3> HIDE DEF ab
    <3> DEFINE abz == ab \o z
    <3>3. /\ abz \in Seq(Bytes) /\ Len(abz) = 5 /\ \A i \in 1 .. 4 : abz[i] = ab[i] 
          /\ abz[5] = c
      <4>0. ab \in Seq(Bytes) /\ z \in Seq(Bytes)
        BY <3>1, <3>2
      <4>1. /\ abz \in Seq(Bytes) /\ Len(abz) = Len(ab) + Len(z)
            /\ \A i \in 1 .. Len(ab) : abz[i] = ab[i]
            /\ \A i \in 1 .. Len(z) : abz[Len(ab) + i] = z[i]
        BY <4>0, Joined, Zenon
      <4> HIDE DEF abz
      <4> QED
        BY <3>1, <3>2, <4>1
    <3> HIDE DEF abz
    <3>4. abz = <<255, 255, hi, lo, c>>
      <4> DEFINE w == <<255, 255, hi, lo, c>>
      <4>1. w \in Seq(Bytes) /\ Len(w) = 5 /\ w[1] = 255 /\ w[2] = 255 /\ w[3] = hi /\ w[4] = lo
            /\ w[5] = c
        BY <2>1, <2>3
      <4> HIDE DEF w
      <4>2. \A i \in 1 .. 5 : abz[i] = w[i]
        BY <3>2, <3>3, <4>1
      <4>3. abz = w
        BY <3>3, <4>1, <4>2, SeqEqual
      <4> QED
        BY <4>3 DEF w
    <3> QED
      BY <3>4 DEF abz, ab, a, z
  <2>6. <<255, 255, hi, lo, c>> \in Seq(Bytes)
    BY <2>1, <2>3
  <2> QED
    BY <1>1, <2>4, <2>5, <2>6 DEF FieldLen, hi, lo, c
<1>2. CASE n <= 254
  <2> DEFINE c == Complement(<<n>>)
  <2>1. n \in Bytes
    BY <1>2 DEF Bytes
  <2>2. <<n>> \in Seq(Bytes)
    BY <2>1
  <2>3. c \in Bytes
    BY <2>2, ComplementCloses
  <2>4. LengthField(n) = <<n, c>>
    BY <1>2 DEF LengthField
  <2> HIDE DEF c
  <2>5. <<n, c>> \in Seq(Bytes)
    BY <2>1, <2>3
  <2> QED
    BY <1>2, <2>4, <2>5 DEF FieldLen, c
<1> QED
  BY <1>1, <1>2

\* Where the bytes of a frame are.
LEMMA FrameBytes ==
    ASSUME NEW info \in Seq(Bytes), Len(info) \in 1 .. PN532_MAX_PAYLOAD_LEN
    PROVE  LET n == Len(info)
               h == FieldLen(n)
               f == Frame(info)
           IN  /\ f \in Seq(Bytes) /\ Len(f) = n + h + 5
               /\ f[1] = 0 /\ f[2] = 0 /\ f[3] = 255
               /\ \A i \in 1 .. h : f[3 + i] = LengthField(n)[i]
               /\ \A i \in 1 .. n : f[3 + h + i] = info[i]
               /\ f[4 + h + n] = Complement(info) /\ f[5 + h + n] = 0
<1> DEFINE n == Len(info)
           h == FieldLen(n)
           a == <<0, 0, 255>>
           l == LengthField(n)
           c == Complement(info)
           z == <<c, 0>>
<1>0. n \in 1 .. PN532_MAX_PAYLOAD_LEN /\ n \in Nat
  BY DEF PN532_MAX_PAYLOAD_LEN
<1>1. l \in Seq(Bytes) /\ Len(l) = h /\ h \in {2, 5} /\ n \in Nat
  <2> HIDE DEF n
  <2>1. h \in {2, 5}
    BY DEF FieldLen
  <2> QED
    BY <1>0, <2>1, LengthFieldBytes
<1>2. c \in Bytes /\ 0 \in Bytes /\ 255 \in Bytes
  BY ComplementCloses DEF Bytes
<1> HIDE DEF c, l
<1>3. a \in Seq(Bytes) /\ Len(a) = 3 /\ z \in Seq(Bytes) /\ Len(z) = 2 /\ z[1] = c /\ z[2] = 0
      /\ a[1] = 0 /\ a[2] = 0 /\ a[3] = 255
  BY <1>2
<1>4. Frame(info) = ((a \o l) \o info) \o z
  BY DEF Frame, PN532_PREAMBLE, PN532_STARTCODE1, PN532_STARTCODE2, PN532_POSTAMBLE, c, l
<1> HIDE DEF a, z
<1> DEFINE al == a \o l
<1>5. /\ al \in Seq(Bytes) /\ Len(al) = 3 + h
      /\ \A i \in 1 .. 3 : al[i] = a[i]
      /\ \A i \in 1 .. h : al[3 + i] = l[i]
  <2>0. a \in Seq(Bytes) /\ l \in Seq(Bytes)
    BY <1>1, <1>3
  <2>1. /\ al \in Seq(Bytes) /\ Len(al) = Len(a) + Len(l)
        /\ \A i \in 1 .. Len(a) : al[i] = a[i]
        /\ \A i \in 1 .. Len(l) : al[Len(a) + i] = l[i]
    BY <2>0, Joined, Zenon
  <2> HIDE DEF al
  <2> QED
    BY <1>1, <1>3, <2>1
<1> HIDE DEF al
<1> DEFINE ali == al \o info
<1>6. /\ ali \in Seq(Bytes) /\ Len(ali) = 3 + h + n
      /\ \A i \in 1 .. 3 + h : ali[i] = al[i]
      /\ \A i \in 1 .. n : ali[3 + h + i] = info[i]
  BY <1>1, <1>5, Joined
<1> HIDE DEF ali
<1> DEFINE f == ali \o z
<1>7. /\ f \in Seq(Bytes) /\ Len(f) = 3 + h + n + 2
      /\ \A i \in 1 .. 3 + h + n : f[i] = ali[i]
      /\ \A i \in 1 .. 2 : f[3 + h + n + i] = z[i]
  <2>0. ali \in Seq(Bytes) /\ z \in Seq(Bytes)
    BY <1>3, <1>6
  <2>1. /\ f \in Seq(Bytes) /\ Len(f) = Len(ali) + Len(z)
        /\ \A i \in 1 .. Len(ali) : f[i] = ali[i]
        /\ \A i \in 1 .. Len(z) : f[Len(ali) + i] = z[i]
    BY <2>0, Joined, Zenon
  <2> HIDE DEF f
  <2> QED
    BY <1>3, <1>6, <2>1
<1> HIDE DEF f
<1>8. Frame(info) = f
  BY <1>4 DEF al, ali, f
<1>9. f[1] = 0 /\ f[2] = 0 /\ f[3] = 255
  <2>1. \A i \in 1 .. 3 : i \in 1 .. 3 + h /\ i \in 1 .. 3 + h + n
    BY <1>1
  <2> QED
    BY <2>1, <1>3, <1>5, <1>6, <1>7
<1>10. \A i \in 1 .. h : f[3 + i] = l[i]
  <2>1. \A i \in 1 .. h : 3 + i \in 1 .. 3 + h /\ 3 + i \in 1 .. 3 + h + n
    BY <1>1
  <2> QED
    BY <2>1, <1>5, <1>6, <1>7
<1>11. \A i \in 1 .. n : f[3 + h + i] = info[i]
  <2>1. \A i \in 1 .. n : 3 + h + i \in 1 .. 3 + h + n
    BY <1>1
  <2> QED
    BY <2>1, <1>6, <1>7
<1>12. f[4 + h + n] = c /\ f[5 + h + n] = 0
  <2>1. 3 + h + n + 1 = 4 + h + n /\ 3 + h + n + 2 = 5 + h + n
    BY <1>1
  <2> QED
    BY <2>1, <1>3, <1>7
<1>13. 3 + h + n + 2 = n + h + 5
  BY <1>1
<1> QED
  BY <1>7, <1>8, <1>9, <1>10, <1>11, <1>12, <1>13 DEF c, l

-----------------------------------------------------------------------------
(***************************************************************************)
(* Frames that are read                                                    *)
(***************************************************************************)

\* What is read is the frame, whatever follows it.
IsReadOf(buf, frame) ==
    /\ buf \in Seq(Bytes) /\ Len(buf) = PN532_RX_BUF_SIZE - 1
    /\ \A i \in 1 .. Len(frame) : buf[i] = frame[i]

\* What is read has the bytes of the frame at their places.
LEMMA OverReadBytes ==
    ASSUME NEW frame \in Seq(Bytes), Len(frame) <= PN532_RX_BUF_SIZE - 1, NEW pad \in Bytes
    PROVE  IsReadOf(Tail(OverRead(frame, pad)), frame)
<1> DEFINE m == PN532_RX_BUF_SIZE - 1 - Len(frame)
           a == <<1>>
           z == [i \in 1 .. m |-> pad]
           af == a \o frame
           raw == af \o z
<1>1. Len(frame) \in Nat /\ m \in Nat /\ PN532_RX_BUF_SIZE - 1 = Len(frame) + m
  BY LenProperties DEF PN532_RX_BUF_SIZE, PN532_MAX_PAYLOAD_LEN
<1>2. z \in Seq(Bytes) /\ Len(z) = m
  <2>1. z \in [1 .. m -> Bytes]
    OBVIOUS
  <2>2. z \in Seq(Bytes)
    BY <1>1, <2>1, SeqDef
  <2>3. DOMAIN z = 1 .. m /\ DOMAIN z = 1 .. Len(z) /\ Len(z) \in Nat
    BY <2>2, LenProperties
  <2> HIDE DEF z
  <2> QED
    BY <1>1, <2>2, <2>3
<1>3. a \in Seq(Bytes) /\ Len(a) = 1
  BY DEF Bytes
<1> HIDE DEF a, z
<1>4. /\ af \in Seq(Bytes) /\ Len(af) = Len(a) + Len(frame)
      /\ \A i \in 1 .. Len(frame) : af[Len(a) + i] = frame[i]
  <2>1. a \in Seq(Bytes) /\ frame \in Seq(Bytes)
    BY <1>3
  <2> QED
    BY <2>1, Joined, Zenon
<1> HIDE DEF af
<1>5. /\ raw \in Seq(Bytes) /\ Len(raw) = Len(af) + Len(z)
      /\ \A i \in 1 .. Len(af) : raw[i] = af[i]
  <2>1. af \in Seq(Bytes) /\ z \in Seq(Bytes)
    BY <1>2, <1>4
  <2> QED
    BY <2>1, Joined, Zenon
<1>6. OverRead(frame, pad) = raw
  BY DEF OverRead, raw, af, a, z, m
<1> HIDE DEF raw, m
<1>7. Len(raw) = 1 + Len(frame) + m /\ raw # <<>>
  <2>1. Len(raw) = 1 + Len(frame) + m
    BY <1>1, <1>2, <1>3, <1>4, <1>5
  <2>2. Len(<<>>) = 0
    OBVIOUS
  <2> QED
    BY <1>1, <2>1, <2>2
<1>8. /\ Tail(raw) \in Seq(Bytes) /\ Len(Tail(raw)) = Len(raw) - 1
      /\ \A i \in 1 .. Len(Tail(raw)) : Tail(raw)[i] = raw[i + 1]
  BY <1>5, <1>7, HeadTailProperties
<1>9. \A i \in 1 .. Len(frame) : Tail(raw)[i] = frame[i]
  <2> TAKE i \in 1 .. Len(frame)
  <2>1. i \in 1 .. Len(Tail(raw)) /\ i + 1 \in 1 .. Len(af) /\ i + 1 = Len(a) + i
    BY <1>1, <1>3, <1>4, <1>7, <1>8
  <2> QED
    BY <1>4, <1>5, <1>8, <2>1
<1>10. Len(Tail(raw)) = PN532_RX_BUF_SIZE - 1
  BY <1>1, <1>7, <1>8
<1> QED
  BY <1>6, <1>8, <1>9, <1>10 DEF IsReadOf

\* The first start code.
LEMMA StartIsFirst ==
    ASSUME NEW buf \in Seq(Bytes), Starts(buf) # {}
    PROVE  /\ Len(buf) \in Nat
           /\ Min(Starts(buf)) \in 1 .. Len(buf) - 1
           /\ Min(Starts(buf)) \in Starts(buf)
           /\ \A i \in Starts(buf) : Min(Starts(buf)) <= i
           /\ pn532_find_start(buf) \in 3 .. Len(buf) + 1
<1>1. Len(buf) \in Nat
  BY LenProperties
<1>2. Starts(buf) \in SUBSET Nat /\ Starts(buf) \subseteq 1 .. Len(buf) - 1
  BY <1>1 DEF Starts
<1>3. \E x \in Starts(buf) : \A y \in Starts(buf) : x <= y
  BY <1>2, LeastElement
<1>4. Min(Starts(buf)) \in Starts(buf) /\ \A i \in Starts(buf) : Min(Starts(buf)) <= i
  BY <1>3 DEF Min
<1>5. Min(Starts(buf)) \in 1 .. Len(buf) - 1
  BY <1>2, <1>4
<1> QED
  BY <1>1, <1>4, <1>5 DEF pn532_find_start

\* A start code at the second byte is the one that is found.
LEMMA StartFound ==
    ASSUME NEW buf \in Seq(Bytes), Len(buf) = PN532_RX_BUF_SIZE - 1, buf[2] = 0, buf[3] = 255
    PROVE  Starts(buf) # {} /\ pn532_find_start(buf) = 4
<1>1. Len(buf) = 275
  BY DEF PN532_RX_BUF_SIZE, PN532_MAX_PAYLOAD_LEN
<1>2. 2 \in Starts(buf) /\ 1 \notin Starts(buf)
  <2>1. \A i : i \in Starts(buf) <=>
               i \in 1 .. Len(buf) - 1 /\ buf[i] = 0 /\ buf[i + 1] = 255
    BY DEF Starts, PN532_STARTCODE1, PN532_STARTCODE2
  <2>2. 2 \in 1 .. Len(buf) - 1
    BY DEF PN532_RX_BUF_SIZE, PN532_MAX_PAYLOAD_LEN
  <2>5. 2 + 1 = 3 /\ 1 + 1 = 2
    OBVIOUS
  <2>6. buf[2] # 255
    OBVIOUS
  <2>3. 2 \in Starts(buf)
    BY <2>1, <2>2, <2>5
  <2>4. ASSUME 1 \in Starts(buf) PROVE FALSE
    <3>1. buf[1 + 1] = 255
      BY <2>1, <2>4, Zenon
    <3> QED
      BY <2>5, <2>6, <3>1
  <2> QED
    BY <2>3, <2>4
<1> DEFINE S == Starts(buf)
<1>4. S # {}
  BY <1>2
<1>3. Min(S) = 2
  <2>1. Min(S) \in 1 .. Len(buf) - 1 /\ Min(S) \in S /\ \A i \in S : Min(S) <= i
    BY <1>4, StartIsFirst, Zenon
  <2> DEFINE m == Min(S)
  <2>2. m \in 1 .. 274
    BY <2>1 DEF PN532_RX_BUF_SIZE, PN532_MAX_PAYLOAD_LEN
  <2>4. m <= 2 /\ m # 1
    BY <1>2, <2>1
  <2> HIDE DEF m
  <2>3. m = 2
    BY <2>2, <2>4
  <2> QED
    BY <2>3 DEF m
<1> QED
  BY <1>2, <1>3 DEF pn532_find_start

\* The patterns the parser looks for.
LEMMA HoldsTwo ==
    ASSUME NEW buf \in Seq(Bytes), NEW off \in Nat \ {0}, NEW x \in Bytes, NEW y \in Bytes
    PROVE  Holds(buf, off, <<x, y>>) <=> off + 1 <= Len(buf) /\ buf[off] = x /\ buf[off + 1] = y
<1> DEFINE w == <<x, y>>
           s == SubSeq(buf, off, off + 1)
<1>1. Len(buf) \in Nat /\ w \in Seq(Bytes) /\ Len(w) = 2 /\ w[1] = x /\ w[2] = y
  BY LenProperties
<1>2. Holds(buf, off, w) <=> off + 1 <= Len(buf) /\ s = w
  <2>1. off + Len(w) - 1 = off + 1
    BY <1>1
  <2> HIDE DEF w
  <2> QED
    BY <2>1 DEF Holds
<1>3. ASSUME off + 1 <= Len(buf)
      PROVE  s \in Seq(Bytes) /\ Len(s) = 2 /\ s[1] = buf[off] /\ s[2] = buf[off + 1]
  <2>1. \A i \in off .. off + 1 : i \in 1 .. Len(buf)
    BY <1>1, <1>3
  <2>2. \A i \in off .. off + 1 : buf[i] \in Bytes
    BY <2>1, ElementOfSeq
  <2>3. off \in Int /\ off + 1 \in Int
    OBVIOUS
  <2>4. /\ s \in Seq(Bytes)
        /\ Len(s) = IF off <= off + 1 THEN (off + 1) - off + 1 ELSE 0
        /\ \A i \in 1 .. (off + 1) - off + 1 : s[i] = buf[off + i - 1]
    BY <2>2, <2>3, SubSeqProperties
  <2> HIDE DEF s
  <2>5. (off + 1) - off + 1 = 2 /\ off <= off + 1 /\ off + 1 - 1 = off /\ off + 2 - 1 = off + 1
    OBVIOUS
  <2> QED
    BY <2>4, <2>5
<1> HIDE DEF s, w
<1>4. ASSUME off + 1 <= Len(buf), buf[off] = x, buf[off + 1] = y
      PROVE  s = w
  <2>1. s \in Seq(Bytes) /\ w \in Seq(Bytes) /\ Len(s) = Len(w)
    BY <1>1, <1>3, <1>4
  <2>2. \A i \in 1 .. Len(s) : s[i] = w[i]
    BY <1>1, <1>3, <1>4
  <2> QED
    BY <2>1, <2>2, SeqEqual
<1>5. Holds(buf, off, w) <=> off + 1 <= Len(buf) /\ buf[off] = x /\ buf[off + 1] = y
  BY <1>1, <1>2, <1>3, <1>4
<1> QED
  BY <1>5 DEF w

\* What the error pattern at an offset says of the bytes there.
LEMMA HoldsThree ==
    ASSUME NEW buf \in Seq(Bytes), NEW off \in Nat \ {0}, Holds(buf, off, <<1, 255, 127>>)
    PROVE  buf[off] = 1 /\ buf[off + 1] = 255 /\ buf[off + 2] = 127
<1> DEFINE w == <<1, 255, 127>>
           s == SubSeq(buf, off, off + 2)
<1>1. Len(buf) \in Nat /\ Len(w) = 3 /\ w[1] = 1 /\ w[2] = 255 /\ w[3] = 127
  BY LenProperties
<1>2. off + 2 <= Len(buf) /\ s = w
  <2>1. off + Len(w) - 1 = off + 2
    BY <1>1
  <2>2. Holds(buf, off, w)
    OBVIOUS
  <2> HIDE DEF w
  <2> QED
    BY <2>1, <2>2 DEF Holds
<1> HIDE DEF w
<1>3. \A i \in off .. off + 2 : i \in 1 .. Len(buf)
  BY <1>1, <1>2
<1>4. \A i \in off .. off + 2 : buf[i] \in Bytes
  BY <1>3, ElementOfSeq
<1>5. off \in Int /\ off + 2 \in Int
  OBVIOUS
<1>6. \A i \in 1 .. (off + 2) - off + 1 : s[i] = buf[off + i - 1]
  BY <1>4, <1>5, SubSeqProperties
<1> HIDE DEF s
<1>7. /\ (off + 2) - off + 1 = 3
      /\ off + 1 - 1 = off /\ off + 2 - 1 = off + 1 /\ off + 3 - 1 = off + 2
  OBVIOUS
<1>8. s[1] = buf[off] /\ s[2] = buf[off + 1] /\ s[3] = buf[off + 2]
  BY <1>6, <1>7
<1> QED
  BY <1>1, <1>2, <1>8

\* What a frame that is parsed has gone through.
LEMMA ParsedOk ==
    ASSUME NEW raw, NEW size, pn532_parse_frame(raw, size).err = "OK"
    PROVE  LET buf == Tail(raw)
               off == pn532_find_start(buf)
               body == off + FieldSize(buf, off)
               n == InfoLen(buf, off)
           IN  /\ Starts(buf) # {}
               /\ ~(body - 1 > Len(buf))
               /\ LcsOk(buf, off)
               /\ ~(n < 1) /\ ~(body + n > Len(buf))
               /\ buf[body] = PN532_TFI_PN532_TO_HOST
               /\ SumOf(SubSeq(buf, body, body + n)) = 0
               /\ ~(n - 1 > size)
               /\ pn532_parse_frame(raw, size).data = SubSeq(buf, body + 1, body + n - 1)
BY DEF pn532_parse_frame, ParseBody

\* The results of the parser; data comes with no error.
LEMMA ParseResult ==
    ASSUME NEW raw, NEW size
    PROVE  /\ pn532_parse_frame(raw, size).err
                \in {"OK", "FAIL", "INVALID_RESPONSE", "INVALID_CRC", "INVALID_SIZE"}
           /\ pn532_parse_frame(raw, size).err # "OK" => pn532_parse_frame(raw, size).data = <<>>
BY DEF pn532_parse_frame, ParseBody

\* Whatever was read, the data fits the buffer it is copied to.
LEMMA DataFits ==
    ASSUME NEW raw, NEW size \in Nat, Tail(raw) \in Seq(Bytes),
           pn532_parse_frame(raw, size).err = "OK"
    PROVE  /\ pn532_parse_frame(raw, size).data \in Seq(Bytes)
           /\ Len(pn532_parse_frame(raw, size).data) \in 0 .. size
<1> DEFINE buf == Tail(raw)
           off == pn532_find_start(buf)
           body == off + FieldSize(buf, off)
           n == InfoLen(buf, off)
           data == pn532_parse_frame(raw, size).data
<1>1. /\ Starts(buf) # {}
      /\ ~(body - 1 > Len(buf))
      /\ ~(n < 1) /\ ~(body + n > Len(buf))
      /\ ~(n - 1 > size)
      /\ data = SubSeq(buf, body + 1, body + n - 1)
  BY ParsedOk
<1>2. buf \in Seq(Bytes) /\ Len(buf) \in Nat
  BY LenProperties
<1>3. off \in 3 .. Len(buf) + 1
  BY <1>1, <1>2, StartIsFirst
<1> HIDE DEF data
<1>4. body \in Nat /\ body - 1 <= Len(buf) /\ n \in Nat
  <2> HIDE DEF buf, off
  <2>1. FieldSize(buf, off) \in {2, 5} /\ (Extended(buf, off) => FieldSize(buf, off) = 5)
        /\ (~Extended(buf, off) => FieldSize(buf, off) = 2)
    BY DEF FieldSize
  <2>2. body \in Nat /\ body - 1 <= Len(buf)
    BY <1>1, <1>2, <1>3, <2>1
  <2>3. CASE Extended(buf, off)
    <3>1. off + 2 \in 1 .. Len(buf) /\ off + 3 \in 1 .. Len(buf)
      BY <1>2, <1>3, <2>1, <2>2, <2>3
    <3>2. buf[off + 2] \in Bytes /\ buf[off + 3] \in Bytes
      BY <1>2, <3>1, ElementOfSeq
    <3>3. \A x, y \in Bytes : 256 * x + y \in Nat
      BY DEF Bytes
    <3>4. n = 256 * buf[off + 2] + buf[off + 3]
      BY <2>3 DEF InfoLen
    <3> QED
      BY <2>2, <3>2, <3>3, <3>4
  <2>4. CASE ~Extended(buf, off)
    <3>1. off \in 1 .. Len(buf)
      BY <1>2, <1>3, <2>1, <2>2, <2>4
    <3>2. buf[off] \in Bytes /\ \A x \in Bytes : x \in Nat
      BY <1>2, <3>1, ElementOfSeq DEF Bytes
    <3>3. n = buf[off]
      BY <2>4 DEF InfoLen
    <3> QED
      BY <2>2, <3>2, <3>3
  <2> QED
    BY <2>3, <2>4
<1> HIDE DEF buf, off, body, n
<1>5. \A i \in body + 1 .. body + n - 1 : i \in 1 .. Len(buf)
  BY <1>1, <1>2, <1>4
<1>6. \A i \in body + 1 .. body + n - 1 : buf[i] \in Bytes
  BY <1>2, <1>5, ElementOfSeq
<1>7. body + 1 \in Int /\ body + n - 1 \in Int
  BY <1>4
<1> DEFINE d == SubSeq(buf, body + 1, body + n - 1)
<1>8. /\ d \in Seq(Bytes)
      /\ Len(d) = IF body + 1 <= body + n - 1 THEN (body + n - 1) - (body + 1) + 1 ELSE 0
  BY <1>6, <1>7, SubSeqProperties
<1> HIDE DEF d
<1>9. Len(d) = n - 1
  BY <1>1, <1>4, <1>8
<1>10. n - 1 \in 0 .. size
  BY <1>1, <1>4
<1>11. data = d
  BY <1>1 DEF d
<1> QED
  BY <1>8, <1>9, <1>10, <1>11 DEF data

\* A part of a sequence of bytes.
LEMMA PartBytes ==
    ASSUME NEW s \in Seq(Bytes), NEW m \in Nat \ {0}, NEW n \in Nat, n <= Len(s), m <= n + 1
    PROVE  /\ SubSeq(s, m, n) \in Seq(Bytes) /\ Len(SubSeq(s, m, n)) = n - m + 1
           /\ \A i \in 1 .. n - m + 1 : SubSeq(s, m, n)[i] = s[m + i - 1]
<1>1. \A i \in m .. n : i \in 1 .. Len(s)
  OBVIOUS
<1>2. \A i \in m .. n : s[i] \in Bytes
  BY <1>1, ElementOfSeq
<1>3. m \in Int /\ n \in Int
  OBVIOUS
<1>4. /\ SubSeq(s, m, n) \in Seq(Bytes)
      /\ Len(SubSeq(s, m, n)) = IF m <= n THEN n - m + 1 ELSE 0
      /\ \A i \in 1 .. n - m + 1 : SubSeq(s, m, n)[i] = s[m + i - 1]
  BY <1>2, <1>3, SubSeqProperties
<1>5. (IF m <= n THEN n - m + 1 ELSE 0) = n - m + 1
  OBVIOUS
<1> QED
  BY <1>4, <1>5

\* Parts with the same bytes.
LEMMA SameParts ==
    ASSUME NEW s \in Seq(Bytes), NEW t \in Seq(Bytes), NEW m \in Nat \ {0}, NEW n \in Nat,
           n <= Len(s), n <= Len(t), m <= n + 1, \A i \in m .. n : s[i] = t[i]
    PROVE  SubSeq(s, m, n) = SubSeq(t, m, n)
<1> DEFINE a == SubSeq(s, m, n)
           b == SubSeq(t, m, n)
<1>1. a \in Seq(Bytes) /\ Len(a) = n - m + 1 /\ \A i \in 1 .. n - m + 1 : a[i] = s[m + i - 1]
  BY PartBytes
<1>2. b \in Seq(Bytes) /\ Len(b) = n - m + 1 /\ \A i \in 1 .. n - m + 1 : b[i] = t[m + i - 1]
  BY PartBytes
<1> HIDE DEF a, b
<1>3. \A i \in 1 .. n - m + 1 : m + i - 1 \in m .. n
  OBVIOUS
<1>4. \A i \in 1 .. Len(a) : a[i] = b[i]
  BY <1>1, <1>2, <1>3
<1>5. Len(a) = Len(b)
  BY <1>1, <1>2
<1>6. a = b
  BY <1>1, <1>2, <1>4, <1>5, SeqEqual
<1> QED
  BY <1>6 DEF a, b

\* A part whose bytes add up to zero no longer does with one of them damaged.
LEMMA DamagedPart ==
    ASSUME NEW s \in Seq(Bytes), NEW t \in Seq(Bytes), NEW m \in Nat \ {0}, NEW n \in Nat,
           n <= Len(s), n <= Len(t), NEW k \in m .. n,
           t[k] # s[k], \A i \in m .. n : i # k => t[i] = s[i],
           SumOf(SubSeq(s, m, n)) = 0
    PROVE  SumOf(SubSeq(t, m, n)) # 0
<1> DEFINE a == SubSeq(s, m, n)
           b == SubSeq(t, m, n)
           j == k - m + 1
           x == t[k]
           d == [a EXCEPT ![j] = x]
<1>0. m <= n + 1
  OBVIOUS
<1>1. a \in Seq(Bytes) /\ Len(a) = n - m + 1 /\ \A i \in 1 .. n - m + 1 : a[i] = s[m + i - 1]
  BY <1>0, PartBytes
<1>2. b \in Seq(Bytes) /\ Len(b) = n - m + 1 /\ \A i \in 1 .. n - m + 1 : b[i] = t[m + i - 1]
  BY <1>0, PartBytes
<1>8. SumOf(a) = 0
  OBVIOUS
<1> HIDE DEF a, b
<1>3. j \in 1 .. n - m + 1 /\ m + j - 1 = k
  OBVIOUS
<1>4. x \in Bytes /\ x # a[j]
  <2>1. k \in 1 .. Len(t)
    OBVIOUS
  <2>2. x \in Bytes
    BY <2>1, ElementOfSeq
  <2> QED
    BY <1>1, <1>3, <2>2
<1>5. j \in 1 .. Len(a)
  BY <1>1, <1>3
<1> HIDE DEF j, x
<1>6. d \in Seq(Bytes) /\ Len(d) = Len(a)
      /\ \A i \in 1 .. Len(a) : d[i] = IF i = j THEN x ELSE a[i]
  BY <1>1, <1>4, <1>5, ExceptSeq
<1>7. SumOf(d) # SumOf(a)
  BY <1>1, <1>4, <1>5, DamageShows
<1> HIDE DEF d
<1>9. b = d
  <2>1. ASSUME NEW i \in 1 .. n - m + 1 PROVE b[i] = d[i]
    <3>1. m + i - 1 \in m .. n
      OBVIOUS
    <3>2. CASE i = j
      <4>1. b[i] = x
        BY <1>2, <1>3, <3>2 DEF x
      <4> QED
        BY <1>1, <1>6, <3>2, <4>1
    <3>3. CASE i # j
      <4>1. m + i - 1 # k
        BY <3>3 DEF j
      <4>2. b[i] = s[m + i - 1]
        BY <1>2, <3>1, <4>1
      <4> QED
        BY <1>1, <1>6, <3>3, <4>2
    <3> QED
      BY <3>2, <3>3
  <2>2. Len(b) = Len(d) /\ \A i \in 1 .. Len(b) : b[i] = d[i]
    BY <1>1, <1>2, <1>6, <2>1
  <2> QED
    BY <1>2, <1>6, <2>2, SeqEqual
<1> QED
  BY <1>7, <1>8, <1>9 DEF b

\* A part that ends with the complement of its other bytes adds up to zero.
LEMMA ClosedPart ==
    ASSUME NEW s \in Seq(Bytes), NEW m \in Nat \ {0}, NEW n \in Nat, m < n, n <= Len(s),
           s[n] = Complement(SubSeq(s, m, n - 1))
    PROVE  SumOf(SubSeq(s, m, n)) = 0
<1> DEFINE a == SubSeq(s, m, n - 1)
           x == s[n]
<1>1. m \in 1 .. Len(s) /\ n \in m .. Len(s) /\ n - 1 \in Nat /\ n - 1 <= Len(s) /\ m <= (n - 1) + 1
      /\ n \in 1 .. Len(s)
  OBVIOUS
<1>2. a \in Seq(Bytes)
  BY <1>1, PartBytes
<1>3. x \in Bytes
  BY <1>1, ElementOfSeq
<1>4. SubSeq(s, m, n) = a \o <<x>>
  BY <1>1, SubSeqRecursiveSecond
<1> HIDE DEF a, x
<1>5. Append(a, x) = a \o <<x>>
  BY <1>2, <1>3, AppendIsConcat
<1>6. SumOf(Append(a, x)) = 0
  <2>1. x = Complement(a)
    BY DEF a, x
  <2> QED
    BY <1>2, <2>1, ComplementCloses
<1> QED
  BY <1>4, <1>5, <1>6

\* The sum of a single byte.
LEMMA SumOfOne ==
    ASSUME NEW x \in Bytes
    PROVE  SumOf(<<x>>) = x
<1>1. <<>> \in Seq(Bytes) /\ SumOf(<<>>) = 0
  BY DEF SumOf
<1>2. Append(<<>>, x) = <<x>>
  OBVIOUS
<1>3. SumOf(Append(<<>>, x)) = (SumOf(<<>>) + x) % 256
  BY <1>1, SumOfAppend
<1>4. \A b \in Bytes : (0 + b) % 256 = b
  BY DEF Bytes
<1> QED
  BY <1>1, <1>2, <1>3, <1>4

\* Only the length 1 has the complement 255.
LEMMA ComplementIsNotMarker ==
    ASSUME NEW n \in 2 .. 254
    PROVE  Complement(<<n>>) # 255
<1>1. n \in Bytes
  BY DEF Bytes
<1>2. SumOf(<<n>>) = n
  BY <1>1, SumOfOne
<1>3. (256 - n) % 256 # 255
  OBVIOUS
<1> QED
  BY <1>2, <1>3 DEF Complement

\* The data of a frame is between the length field and the checksum.
LEMMA FrameSums ==
    ASSUME NEW info \in Seq(Bytes), Len(info) \in 1 .. PN532_MAX_PAYLOAD_LEN
    PROVE  LET n == Len(info)
               h == FieldLen(n)
               f == Frame(info)
           IN  /\ SubSeq(f, 4 + h, 3 + h + n) = info
               /\ SumOf(SubSeq(f, 4 + h, 4 + h + n)) = 0
               /\ n > PN532_NORMAL_LEN_MAX => SumOf(SubSeq(f, 6, 8)) = 0
               /\ ~(n > PN532_NORMAL_LEN_MAX) => SumOf(SubSeq(f, 4, 5)) = 0
<1> DEFINE n == Len(info)
           h == FieldLen(n)
           f == Frame(info)
           l == LengthField(n)
<1>0. n \in 1 .. PN532_MAX_PAYLOAD_LEN /\ n = Len(info)
  OBVIOUS
<1>1. n \in 1 .. PN532_MAX_PAYLOAD_LEN /\ n \in Nat /\ n >= 1 /\ n <= 265
  <2>1. \A k \in 1 .. PN532_MAX_PAYLOAD_LEN : k \in Nat /\ k >= 1 /\ k <= 265
    BY DEF PN532_MAX_PAYLOAD_LEN
  <2> QED
    BY <1>0, <2>1
<1>2. /\ f \in Seq(Bytes) /\ Len(f) = n + h + 5
      /\ \A i \in 1 .. h : f[3 + i] = l[i]
      /\ \A i \in 1 .. n : f[3 + h + i] = info[i]
      /\ f[4 + h + n] = Complement(info)
  BY FrameBytes
<1>3. h \in {2, 5} /\ (n > PN532_NORMAL_LEN_MAX <=> h = 5)
  BY DEF FieldLen
<1>4. /\ l \in Seq(Bytes) /\ Len(l) = h
      /\ IF n > PN532_NORMAL_LEN_MAX
         THEN /\ l[3] = n \div 256 /\ l[4] = n % 256
              /\ l[5] = Complement(<<n \div 256, n % 256>>)
         ELSE l[1] = n /\ l[2] = Complement(<<n>>)
  <2> HIDE DEF n
  <2> QED
    BY <1>1, LengthFieldBytes
<1> HIDE DEF f, l, h
<1>5. SubSeq(f, 4 + h, 3 + h + n) = info
  <2> DEFINE a == SubSeq(f, 4 + h, 3 + h + n)
  <2>1. 4 + h \in Nat \ {0} /\ 3 + h + n \in Nat /\ 3 + h + n <= Len(f) /\ 4 + h <= (3 + h + n) + 1
        /\ (3 + h + n) - (4 + h) + 1 = n
    BY <1>1, <1>2, <1>3
  <2>2. /\ a \in Seq(Bytes) /\ Len(a) = (3 + h + n) - (4 + h) + 1
        /\ \A i \in 1 .. (3 + h + n) - (4 + h) + 1 : a[i] = f[4 + h + i - 1]
    BY <1>2, <2>1, PartBytes
  <2> HIDE DEF a
  <2>3. ASSUME NEW i \in 1 .. n PROVE a[i] = info[i]
    <3>1. 4 + h + i - 1 = 3 + h + i
      BY <1>1, <1>3
    <3> QED
      BY <1>2, <2>1, <2>2, <3>1
  <2>4. Len(a) = Len(info) /\ \A i \in 1 .. Len(a) : a[i] = info[i]
    BY <2>1, <2>2, <2>3
  <2>5. a = info
    BY <2>2, <2>4, SeqEqual
  <2> QED
    BY <2>5 DEF a
<1>6. SumOf(SubSeq(f, 4 + h, 4 + h + n)) = 0
  <2>1. /\ 4 + h \in Nat \ {0} /\ 4 + h + n \in Nat /\ 4 + h < 4 + h + n
        /\ 4 + h + n <= Len(f) /\ (4 + h + n) - 1 = 3 + h + n
    BY <1>1, <1>2, <1>3
  <2>2. f[4 + h + n] = Complement(SubSeq(f, 4 + h, (4 + h + n) - 1))
    BY <1>2, <1>5, <2>1
  <2> QED
    BY <1>2, <2>1, <2>2, ClosedPart
<1>7. ASSUME n > PN532_NORMAL_LEN_MAX PROVE SumOf(SubSeq(f, 6, 8)) = 0
  <2>0. h = 5
    BY <1>3, <1>7
  <2>1. 8 <= Len(f)
    BY <1>1, <1>2, <2>0
  <2> DEFINE a == SubSeq(f, 6, 8 - 1)
             hi == n \div 256
             lo == n % 256
             b == <<hi, lo>>
  <2>2. f[6] = hi /\ f[7] = lo /\ f[8] = Complement(b)
    <3>1. 3 \in 1 .. h /\ 4 \in 1 .. h /\ 5 \in 1 .. h
      BY <2>0
    <3>2. f[3 + 3] = l[3] /\ f[3 + 4] = l[4] /\ f[3 + 5] = l[5]
      BY <1>2, <3>1
    <3> QED
      BY <1>4, <1>7, <3>2
  <2>3. a \in Seq(Bytes) /\ Len(a) = 2 /\ a[1] = f[6] /\ a[2] = f[7]
    <3>1. /\ a \in Seq(Bytes) /\ Len(a) = (8 - 1) - 6 + 1
          /\ \A i \in 1 .. (8 - 1) - 6 + 1 : a[i] = f[6 + i - 1]
      <4>1. 6 \in Nat \ {0} /\ 8 - 1 \in Nat /\ 8 - 1 <= Len(f) /\ 6 <= (8 - 1) + 1
        BY <1>2, <2>1, LenProperties
      <4> QED
        BY <1>2, <4>1, PartBytes
    <3> HIDE DEF a
    <3> QED
      BY <3>1
  <2>4. hi \in Bytes /\ lo \in Bytes
    <3> HIDE DEF n
    <3> QED
      BY <1>1 DEF Bytes
  <2> HIDE DEF a, hi, lo
  <2>5. b \in Seq(Bytes) /\ Len(b) = 2 /\ b[1] = hi /\ b[2] = lo
    BY <2>4
  <2> HIDE DEF b
  <2>6. Len(a) = Len(b) /\ \A i \in 1 .. Len(a) : a[i] = b[i]
    BY <2>2, <2>3, <2>5
  <2>7. a = b
    BY <2>3, <2>5, <2>6, SeqEqual
  <2>8. f[8] = Complement(SubSeq(f, 6, 8 - 1))
    BY <2>2, <2>7 DEF a
  <2>9. 6 \in Nat \ {0} /\ 8 \in Nat /\ 6 < 8
    OBVIOUS
  <2> QED
    BY <1>2, <2>1, <2>8, <2>9, ClosedPart
<1>8. ASSUME ~(n > PN532_NORMAL_LEN_MAX) PROVE SumOf(SubSeq(f, 4, 5)) = 0
  <2>0. h = 2
    BY <1>3, <1>8
  <2>1. 5 <= Len(f)
    BY <1>1, <1>2, <2>0
  <2> DEFINE a == SubSeq(f, 4, 5 - 1)
             b == <<n>>
  <2>2. f[4] = n /\ f[5] = Complement(b)
    <3>1. 1 \in 1 .. h /\ 2 \in 1 .. h
      BY <2>0
    <3>2. f[3 + 1] = l[1] /\ f[3 + 2] = l[2]
      BY <1>2, <3>1
    <3> QED
      BY <1>4, <1>8, <3>2
  <2>3. a \in Seq(Bytes) /\ Len(a) = 1 /\ a[1] = f[4]
    <3>1. /\ a \in Seq(Bytes) /\ Len(a) = (5 - 1) - 4 + 1
          /\ \A i \in 1 .. (5 - 1) - 4 + 1 : a[i] = f[4 + i - 1]
      <4>1. 4 \in Nat \ {0} /\ 5 - 1 \in Nat /\ 5 - 1 <= Len(f) /\ 4 <= (5 - 1) + 1
        BY <1>2, <2>1, LenProperties
      <4> QED
        BY <1>2, <4>1, PartBytes
    <3> HIDE DEF a
    <3> QED
      BY <3>1
  <2>4. n \in Bytes
    <3> HIDE DEF n
    <3> QED
      BY <1>1, <1>8 DEF Bytes, PN532_NORMAL_LEN_MAX
  <2> HIDE DEF a
  <2>5. b \in Seq(Bytes) /\ Len(b) = 1 /\ b[1] = n
    BY <2>4
  <2> HIDE DEF b
  <2>6. Len(a) = Len(b) /\ \A i \in 1 .. Len(a) : a[i] = b[i]
    BY <2>2, <2>3, <2>5
  <2>7. a = b
    BY <2>3, <2>5, <2>6, SeqEqual
  <2>8. f[5] = Complement(SubSeq(f, 4, 5 - 1))
    BY <2>2, <2>7 DEF a
  <2>9. 4 \in Nat \ {0} /\ 5 \in Nat /\ 4 < 5
    OBVIOUS
  <2> QED
    BY <1>2, <2>1, <2>8, <2>9, ClosedPart
<1> QED
  BY <1>5, <1>6, <1>7, <1>8 DEF n, h, f

\* The frame of a response.
LEMMA ReplyFrameBytes ==
    ASSUME NEW rsp \in Seq(Bytes), Len(rsp) \in 1 .. PN532_MAX_PAYLOAD_LEN - 1
    PROVE  LET n == Len(rsp) + 1
               h == FieldLen(n)
               f == ReplyFrame(rsp)
           IN  /\ n \in 2 .. 265 /\ h \in {2, 5}
               /\ f \in Seq(Bytes) /\ Len(f) = n + h + 5
               /\ f[2] = 0 /\ f[3] = 255
               /\ h = 5 => /\ f[4] = 255 /\ f[5] = 255 /\ f[6] \in {0, 1}
                           /\ f[7] \in Nat /\ 256 * f[6] + f[7] = n
                           /\ SumOf(SubSeq(f, 6, 8)) = 0
               /\ h = 2 => f[4] = n /\ n \in 2 .. 254 /\ f[5] # 255 /\ SumOf(SubSeq(f, 4, 5)) = 0
               /\ f[4 + h] = 213
               /\ SumOf(SubSeq(f, 4 + h, 4 + h + n)) = 0
               /\ SubSeq(f, 5 + h, 3 + h + n) = rsp
<1> DEFINE n == Len(rsp) + 1
           h == FieldLen(n)
           t == <<213>>
           info == t \o rsp
           f == Frame(info)
           l == LengthField(n)
<1>0. Len(rsp) \in Nat /\ n = Len(rsp) + 1
  BY LenProperties
<1>1. n \in 1 .. PN532_MAX_PAYLOAD_LEN /\ n \in 2 .. 265
  <2> DEFINE r == Len(rsp)
  <2>1. r \in 1 .. PN532_MAX_PAYLOAD_LEN - 1
    OBVIOUS
  <2> HIDE DEF r
  <2>2. r + 1 \in 1 .. PN532_MAX_PAYLOAD_LEN /\ r + 1 \in 2 .. 265
    BY <2>1 DEF PN532_MAX_PAYLOAD_LEN
  <2> QED
    BY <2>2 DEF r
<1>2. h \in {2, 5} /\ (n > PN532_NORMAL_LEN_MAX <=> h = 5) /\ (h = 2 => n \in 2 .. 254)
  <2> HIDE DEF n
  <2> QED
    BY <1>1 DEF FieldLen, PN532_NORMAL_LEN_MAX
<1>3. info \in Seq(Bytes) /\ Len(info) = n /\ info[1] = 213
      /\ \A i \in 1 .. Len(rsp) : info[1 + i] = rsp[i]
  <2>1. t \in Seq(Bytes) /\ Len(t) = 1 /\ t[1] = 213
    BY DEF Bytes
  <2> HIDE DEF t
  <2>2. /\ info \in Seq(Bytes) /\ Len(info) = Len(t) + Len(rsp) /\ Len(rsp) \in Nat
        /\ \A i \in 1 .. Len(t) : info[i] = t[i]
        /\ \A i \in 1 .. Len(rsp) : info[Len(t) + i] = rsp[i]
    <3>1. t \in Seq(Bytes) /\ rsp \in Seq(Bytes)
      BY <2>1
    <3> QED
      BY <3>1, Joined, Zenon
  <2> HIDE DEF info
  <2>3. 1 + Len(rsp) = Len(rsp) + 1
    BY <2>2
  <2> QED
    BY <2>1, <2>2, <2>3
<1>4. /\ l \in Seq(Bytes) /\ Len(l) = h
      /\ IF n > PN532_NORMAL_LEN_MAX
         THEN l[1] = 255 /\ l[2] = 255 /\ l[3] = n \div 256 /\ l[4] = n % 256
         ELSE l[1] = n /\ l[2] = Complement(<<n>>)
  <2> HIDE DEF n
  <2> QED
    BY <1>1, LengthFieldBytes
<1> HIDE DEF info, t
<1>5. /\ f \in Seq(Bytes) /\ Len(f) = n + h + 5
      /\ f[2] = 0 /\ f[3] = 255
      /\ \A i \in 1 .. h : f[3 + i] = l[i]
      /\ \A i \in 1 .. n : f[3 + h + i] = info[i]
  BY <1>1, <1>3, FrameBytes
<1>6. /\ SubSeq(f, 4 + h, 3 + h + n) = info
      /\ SumOf(SubSeq(f, 4 + h, 4 + h + n)) = 0
      /\ n > PN532_NORMAL_LEN_MAX => SumOf(SubSeq(f, 6, 8)) = 0
      /\ ~(n > PN532_NORMAL_LEN_MAX) => SumOf(SubSeq(f, 4, 5)) = 0
  BY <1>1, <1>3, FrameSums
<1>7. f = ReplyFrame(rsp)
  BY DEF ReplyFrame, PN532_TFI_PN532_TO_HOST, f, info, t
<1> HIDE DEF f, l, h
<1>8. ASSUME h = 5
      PROVE  /\ f[4] = 255 /\ f[5] = 255 /\ f[6] \in {0, 1}
             /\ f[7] \in Nat /\ 256 * f[6] + f[7] = n
  <2>1. \A i \in 1 .. 4 : i \in 1 .. h
    BY <1>8
  <2>2. f[3 + 1] = l[1] /\ f[3 + 2] = l[2] /\ f[3 + 3] = l[3] /\ f[3 + 4] = l[4]
    BY <1>5, <2>1
  <2>3. l[1] = 255 /\ l[2] = 255 /\ l[3] = n \div 256 /\ l[4] = n % 256
    BY <1>2, <1>4, <1>8
  <2>4. n \div 256 \in {0, 1} /\ n % 256 \in Nat /\ 256 * (n \div 256) + (n % 256) = n
    <3> HIDE DEF n
    <3> QED
      BY <1>1
  <2>5. f[4] = 255 /\ f[5] = 255 /\ f[6] = n \div 256 /\ f[7] = n % 256
    BY <2>2, <2>3
  <2> QED
    BY <2>4, <2>5
<1>9. ASSUME h = 2
      PROVE  f[4] = n /\ f[5] # 255
  <2>1. \A i \in 1 .. 2 : i \in 1 .. h
    BY <1>9
  <2>2. f[3 + 1] = l[1] /\ f[3 + 2] = l[2]
    BY <1>5, <2>1
  <2>3. l[1] = n /\ l[2] = Complement(<<n>>)
    BY <1>2, <1>4, <1>9
  <2>4. Complement(<<n>>) # 255
    BY <1>2, <1>9, ComplementIsNotMarker
  <2>5. f[4] = l[1] /\ f[5] = l[2]
    BY <2>2
  <2> QED
    BY <2>3, <2>4, <2>5
<1>10. f[4 + h] = 213
  <2>1. 1 \in 1 .. n /\ 3 + h + 1 = 4 + h
    BY <1>1, <1>2
  <2> QED
    BY <1>3, <1>5, <2>1
<1>11. SubSeq(f, 5 + h, 3 + h + n) = rsp
  <2> DEFINE a == SubSeq(f, 5 + h, 3 + h + n)
  <2>1. 5 + h \in Nat \ {0} /\ 3 + h + n \in Nat /\ 3 + h + n <= Len(f) /\ 5 + h <= (3 + h + n) + 1
        /\ (3 + h + n) - (5 + h) + 1 = n - 1 /\ n - 1 = Len(rsp)
    BY <1>1, <1>2, <1>5 DEF n
  <2>2. /\ a \in Seq(Bytes) /\ Len(a) = (3 + h + n) - (5 + h) + 1
        /\ \A i \in 1 .. (3 + h + n) - (5 + h) + 1 : a[i] = f[5 + h + i - 1]
    BY <1>5, <2>1, PartBytes
  <2> HIDE DEF a
  <2>3. ASSUME NEW i \in 1 .. Len(rsp) PROVE a[i] = rsp[i]
    <3>1. 5 + h + i - 1 = 3 + h + (1 + i) /\ 1 + i \in 1 .. n
      BY <1>1, <1>2, <2>1
    <3>2. f[3 + h + (1 + i)] = info[1 + i] /\ info[1 + i] = rsp[i]
      BY <1>3, <1>5, <3>1
    <3>3. a[i] = f[5 + h + i - 1]
      BY <2>1, <2>2
    <3> QED
      BY <3>1, <3>2, <3>3
  <2>4. Len(a) = Len(rsp) /\ \A i \in 1 .. Len(a) : a[i] = rsp[i]
    BY <2>1, <2>2, <2>3
  <2>5. a = rsp
    BY <2>2, <2>4, SeqEqual
  <2> QED
    BY <2>5 DEF a
<1>12. (h = 5 => SumOf(SubSeq(f, 6, 8)) = 0) /\ (h = 2 => SumOf(SubSeq(f, 4, 5)) = 0)
  BY <1>2, <1>6
<1> HIDE DEF n
<1>13. /\ n \in 2 .. 265 /\ h \in {2, 5}
       /\ f \in Seq(Bytes) /\ Len(f) = n + h + 5
       /\ f[2] = 0 /\ f[3] = 255
       /\ h = 5 => /\ f[4] = 255 /\ f[5] = 255 /\ f[6] \in {0, 1}
                   /\ f[7] \in Nat /\ 256 * f[6] + f[7] = n
                   /\ SumOf(SubSeq(f, 6, 8)) = 0
       /\ h = 2 => f[4] = n /\ n \in 2 .. 254 /\ f[5] # 255 /\ SumOf(SubSeq(f, 4, 5)) = 0
       /\ f[4 + h] = 213
       /\ SumOf(SubSeq(f, 4 + h, 4 + h + n)) = 0
       /\ SubSeq(f, 5 + h, 3 + h + n) = rsp
  BY <1>1, <1>2, <1>5, <1>6, <1>8, <1>9, <1>10, <1>11, <1>12
<1> QED
  BY <1>7, <1>13 DEF n, h

\* The length field right after a start code at the usual place.
LEMMA FieldRead ==
    ASSUME NEW buf \in Seq(Bytes), Len(buf) >= 5
    PROVE  /\ buf[4] = 255 /\ buf[5] = 255
                 => /\ FieldSize(buf, 4) = 5 /\ InfoLen(buf, 4) = 256 * buf[6] + buf[7]
                    /\ LcsOk(buf, 4) <=> SumOf(SubSeq(buf, 6, 8)) = 0
           /\ ~(buf[4] = 255 /\ buf[5] = 255)
                 => /\ FieldSize(buf, 4) = 2 /\ InfoLen(buf, 4) = buf[4]
                    /\ LcsOk(buf, 4) <=> SumOf(SubSeq(buf, 4, 5)) = 0
<1>1. Extended(buf, 4) <=> buf[4] = 255 /\ buf[5] = 255
  <2>1. 4 \in Nat \ {0} /\ 255 \in Bytes /\ 4 + 1 = 5
    BY DEF Bytes
  <2>2. Holds(buf, 4, <<255, 255>>) <=> 4 + 1 <= Len(buf) /\ buf[4] = 255 /\ buf[4 + 1] = 255
    BY <2>1, HoldsTwo
  <2>3. 4 + 1 <= Len(buf)
    BY LenProperties
  <2> QED
    BY <2>1, <2>2, <2>3 DEF Extended, PN532_EXTENDED_MARKER
<1>2. 4 + 2 = 6 /\ 4 + 3 = 7 /\ 4 + 5 - 1 = 8 /\ 4 + 2 - 1 = 5
  OBVIOUS
<1>3. CASE Extended(buf, 4)
  BY <1>1, <1>2, <1>3 DEF FieldSize, InfoLen, LcsOk
<1>4. CASE ~Extended(buf, 4)
  BY <1>1, <1>2, <1>4 DEF FieldSize, InfoLen, LcsOk
<1> QED
  BY <1>3, <1>4

\* A frame without a fault in front of its body.
LEMMA ParsesTo ==
    ASSUME NEW raw, NEW size
    PROVE  LET buf == Tail(raw)
               off == pn532_find_start(buf)
               body == off + FieldSize(buf, off)
               n == InfoLen(buf, off)
               err == ParseBody(buf, body, n, size)
           IN  (/\ Starts(buf) # {} /\ ~pn532_is_error_frame(buf)
                /\ ~(body - 1 > Len(buf)) /\ LcsOk(buf, off))
               => pn532_parse_frame(raw, size) =
                     [err  |-> err,
                      data |-> IF err = "OK" THEN SubSeq(buf, body + 1, body + n - 1) ELSE <<>>]
<1> DEFINE buf == Tail(raw)
           off == pn532_find_start(buf)
           body == off + FieldSize(buf, off)
           n == InfoLen(buf, off)
           err == ParseBody(buf, body, n, size)
           e == IF Starts(buf) = {} THEN "INVALID_RESPONSE"
                ELSE IF pn532_is_error_frame(buf) THEN "FAIL"
                ELSE IF body - 1 > Len(buf) THEN "INVALID_RESPONSE"
                ELSE IF ~LcsOk(buf, off) THEN "INVALID_CRC"
                ELSE err
           d == SubSeq(buf, body + 1, body + n - 1)
<1>1. pn532_parse_frame(raw, size) = [err |-> e, data |-> IF e = "OK" THEN d ELSE <<>>]
  BY Zenon DEF pn532_parse_frame
<1> HIDE DEF d, err
<1>2. ASSUME Starts(buf) # {}, ~pn532_is_error_frame(buf), ~(body - 1 > Len(buf)), LcsOk(buf, off)
      PROVE  e = err
  <2>1. ~(Starts(buf) = {})
    BY <1>2
  <2> HIDE DEF buf, off, body, n
  <2> QED
    BY <1>2, <2>1, Zenon
<1> HIDE DEF e, buf, off, body, n
<1>3. (/\ Starts(buf) # {} /\ ~pn532_is_error_frame(buf)
       /\ ~(body - 1 > Len(buf)) /\ LcsOk(buf, off))
       => pn532_parse_frame(raw, size) = [err |-> err, data |-> IF err = "OK" THEN d ELSE <<>>]
  BY <1>1, <1>2, Zenon
<1> QED
  BY <1>3, Zenon DEF buf, off, body, n, err, d

\* A frame whose length is not one is none that reports an error.
LEMMA NoErrorPattern ==
    ASSUME NEW buf \in Seq(Bytes), buf[4] # 1
    PROVE  ~Holds(buf, 4, <<1, 255, 127>>)
<1>1. 4 \in Nat \ {0}
  OBVIOUS
<1> QED
  BY <1>1, HoldsThree

\* A response whose bytes are all there, but perhaps the first and the last, is
\* delivered, or refused because it does not fit.
LEMMA ParseIntact ==
    ASSUME NEW rsp \in Seq(Bytes), Len(rsp) \in 1 .. PN532_MAX_PAYLOAD_LEN - 1,
           NEW size \in Nat, NEW raw,
           Tail(raw) \in Seq(Bytes), Len(Tail(raw)) = PN532_RX_BUF_SIZE - 1,
           \A i \in 2 .. Len(ReplyFrame(rsp)) - 1 : Tail(raw)[i] = ReplyFrame(rsp)[i]
    PROVE  pn532_parse_frame(raw, size) =
              IF Len(rsp) <= size THEN [err |-> "OK", data |-> rsp]
                                  ELSE [err |-> "INVALID_SIZE", data |-> <<>>]
<1> DEFINE n == Len(rsp) + 1
           h == FieldLen(n)
           f == ReplyFrame(rsp)
           buf == Tail(raw)
<1>1. /\ n \in 2 .. 265 /\ h \in {2, 5}
      /\ f \in Seq(Bytes) /\ Len(f) = n + h + 5
      /\ f[2] = 0 /\ f[3] = 255
      /\ h = 5 => /\ f[4] = 255 /\ f[5] = 255 /\ f[6] \in {0, 1}
                  /\ f[7] \in Nat /\ 256 * f[6] + f[7] = n
                  /\ SumOf(SubSeq(f, 6, 8)) = 0
      /\ h = 2 => f[4] = n /\ n \in 2 .. 254 /\ f[5] # 255 /\ SumOf(SubSeq(f, 4, 5)) = 0
      /\ f[4 + h] = 213
      /\ SumOf(SubSeq(f, 4 + h, 4 + h + n)) = 0
      /\ SubSeq(f, 5 + h, 3 + h + n) = rsp
  BY ReplyFrameBytes
<1>2. buf \in Seq(Bytes) /\ Len(buf) = 275
  BY DEF PN532_RX_BUF_SIZE, PN532_MAX_PAYLOAD_LEN
<1>3. \A i \in 2 .. Len(f) - 1 : buf[i] = f[i]
  OBVIOUS
<1>4. n = Len(rsp) + 1 /\ Len(rsp) \in Nat
  BY LenProperties
<1>5. Starts(buf) # {} /\ pn532_find_start(buf) = 4
  <2>1. 2 \in 2 .. Len(f) - 1 /\ 3 \in 2 .. Len(f) - 1
    BY <1>1
  <2>2. buf[2] = 0 /\ buf[3] = 255
    BY <1>1, <1>3, <2>1
  <2>3. Len(buf) = PN532_RX_BUF_SIZE - 1
    OBVIOUS
  <2> QED
    BY <1>2, <2>2, <2>3, StartFound
<1> HIDE DEF f, h, n, buf
<1>14. n \in 2 .. 265 /\ h \in {2, 5} /\ Len(f) = n + h + 5
  BY <1>1
<1>15. ASSUME h = 5
       PROVE  /\ f[4] = 255 /\ f[5] = 255 /\ 256 * f[6] + f[7] = n
              /\ SumOf(SubSeq(f, 6, 8)) = 0
  BY <1>1, <1>15
<1>16. ASSUME h = 2
       PROVE  f[4] = n /\ n \in 2 .. 254 /\ f[5] # 255 /\ SumOf(SubSeq(f, 4, 5)) = 0
  BY <1>1, <1>16
<1>6. n + h + 5 <= 275
  BY <1>14
<1>7. FieldSize(buf, 4) = h /\ InfoLen(buf, 4) = n /\ LcsOk(buf, 4) /\ buf[4] # 1
  <2>1. \A i \in 4 .. 8 : i <= h + 3 => i \in 2 .. Len(f) - 1
    BY <1>14
  <2>2. buf[4] = f[4] /\ buf[5] = f[5]
    <3>1. 4 \in 2 .. Len(f) - 1 /\ 5 \in 2 .. Len(f) - 1
      BY <1>14
    <3> QED
      BY <1>3, <3>1
  <2>3. CASE h = 5
    <3>1. \A i \in 6 .. 8 : buf[i] = f[i]
      BY <1>3, <2>1, <2>3
    <3>2. /\ 6 \in Nat \ {0} /\ 8 \in Nat /\ 8 <= Len(buf) /\ 8 <= Len(f) /\ 6 <= 8 + 1
      BY <1>14, <1>2, <2>3
    <3>3. SubSeq(buf, 6, 8) = SubSeq(f, 6, 8)
      BY <1>1, <1>2, <3>1, <3>2, SameParts
    <3>4. buf[6] = f[6] /\ buf[7] = f[7]
      BY <3>1
    <3>5. buf[4] = 255 /\ buf[5] = 255
      BY <1>15, <2>2, <2>3
    <3>6. FieldSize(buf, 4) = 5 /\ InfoLen(buf, 4) = 256 * buf[6] + buf[7]
          /\ (LcsOk(buf, 4) <=> SumOf(SubSeq(buf, 6, 8)) = 0)
      BY <1>2, <3>5, FieldRead
    <3>7. InfoLen(buf, 4) = 256 * f[6] + f[7]
      BY <3>4, <3>6
    <3>8. InfoLen(buf, 4) = n /\ SumOf(SubSeq(buf, 6, 8)) = 0
      BY <1>15, <2>3, <3>3, <3>7
    <3> QED
      BY <2>3, <3>5, <3>6, <3>8
  <2>4. CASE h = 2
    <3>1. \A i \in 4 .. 5 : buf[i] = f[i]
      BY <1>3, <2>1, <2>4
    <3>2. /\ 4 \in Nat \ {0} /\ 5 \in Nat /\ 5 <= Len(buf) /\ 5 <= Len(f) /\ 4 <= 5 + 1
      BY <1>14, <1>2, <2>4
    <3>3. SubSeq(buf, 4, 5) = SubSeq(f, 4, 5)
      BY <1>1, <1>2, <3>1, <3>2, SameParts
    <3>5. buf[4] = n /\ buf[5] # 255 /\ n # 1 /\ buf[4] # 1 /\ Len(buf) >= 5
      <4>1. f[4] = n /\ f[5] # 255 /\ n \in 2 .. 254
        BY <1>16, <2>4
      <4>2. n # 1
        <5>1. \A m \in 2 .. 254 : m # 1
          OBVIOUS
        <5> QED
          BY <4>1, <5>1, Zenon
      <4>3. Len(buf) >= 5
        <5>1. 275 >= 5
          OBVIOUS
        <5> QED
          BY <1>2, <5>1, Zenon
      <4> QED
        BY <2>2, <4>1, <4>2, <4>3, Zenon
    <3>9. buf \in Seq(Bytes) /\ Len(buf) >= 5
      BY <1>2, <3>5
    <3>7. ~(buf[4] = 255 /\ buf[5] = 255)
      BY <3>5
    <3>6. FieldSize(buf, 4) = 2 /\ InfoLen(buf, 4) = buf[4]
          /\ (LcsOk(buf, 4) <=> SumOf(SubSeq(buf, 4, 5)) = 0)
      BY <3>7, <3>9, FieldRead, Zenon
    <3>8. SumOf(SubSeq(buf, 4, 5)) = 0
      BY <1>16, <2>4, <3>3
    <3> QED
      BY <2>4, <3>5, <3>6, <3>8
  <2> QED
    BY <1>14, <2>3, <2>4
<1>8. ~pn532_is_error_frame(buf)
  <2>1. ~Holds(buf, 4, <<1, 255, 127>>)
    <3>1. buf \in Seq(Bytes)
      BY <1>2
    <3> QED
      BY <1>7, <3>1, NoErrorPattern, Zenon
  <2> QED
    BY <1>5, <2>1 DEF pn532_is_error_frame
<1>9. /\ buf[4 + h] = 213
      /\ SubSeq(buf, 4 + h, 4 + h + n) = SubSeq(f, 4 + h, 4 + h + n)
      /\ SubSeq(buf, 5 + h, 3 + h + n) = rsp
  <2>1. \A i \in 4 + h .. 4 + h + n : i \in 2 .. Len(f) - 1
    BY <1>14
  <2>2. \A i \in 4 + h .. 4 + h + n : buf[i] = f[i]
    BY <1>3, <2>1
  <2>3. 4 + h \in 4 + h .. 4 + h + n
    BY <1>14
  <2>4. /\ 4 + h \in Nat \ {0} /\ 4 + h + n \in Nat /\ 4 + h + n <= Len(buf)
        /\ 4 + h + n <= Len(f) /\ 4 + h <= (4 + h + n) + 1
    BY <1>14, <1>2, <1>6
  <2>5. SubSeq(buf, 4 + h, 4 + h + n) = SubSeq(f, 4 + h, 4 + h + n)
    BY <1>1, <1>2, <2>2, <2>4, SameParts
  <2>6. \A i \in 5 + h .. 3 + h + n : i \in 4 + h .. 4 + h + n
    BY <1>14
  <2>7. \A i \in 5 + h .. 3 + h + n : buf[i] = f[i]
    BY <2>2, <2>6
  <2>8. /\ 5 + h \in Nat \ {0} /\ 3 + h + n \in Nat /\ 3 + h + n <= Len(buf)
        /\ 3 + h + n <= Len(f) /\ 5 + h <= (3 + h + n) + 1
    BY <1>14, <1>2, <1>6
  <2>9. SubSeq(buf, 5 + h, 3 + h + n) = SubSeq(f, 5 + h, 3 + h + n)
    BY <1>1, <1>2, <2>7, <2>8, SameParts
  <2> QED
    BY <1>1, <2>2, <2>3, <2>5, <2>9
<1>10. /\ ~(4 + h - 1 > Len(buf)) /\ ~(n < 1) /\ ~(4 + h + n > Len(buf))
       /\ 4 + h + 1 = 5 + h /\ 4 + h + n - 1 = 3 + h + n
       /\ (n - 1 > size <=> ~(Len(rsp) <= size))
  BY <1>14, <1>2, <1>4, <1>6
<1> DEFINE err == ParseBody(buf, 4 + h, n, size)
<1>11. err = IF Len(rsp) <= size THEN "OK" ELSE "INVALID_SIZE"
  BY <1>1, <1>9, <1>10 DEF ParseBody, PN532_TFI_PN532_TO_HOST
<1>12. pn532_parse_frame(raw, size) =
          [err |-> err, data |-> IF err = "OK" THEN SubSeq(buf, 4 + h + 1, 4 + h + n - 1) ELSE <<>>]
  <2> DEFINE off == pn532_find_start(buf)
             body == off + FieldSize(buf, off)
             m == InfoLen(buf, off)
             p == ParseBody(buf, body, m, size)
  <2>1. (/\ Starts(buf) # {} /\ ~pn532_is_error_frame(buf)
         /\ ~(body - 1 > Len(buf)) /\ LcsOk(buf, off))
        => pn532_parse_frame(raw, size) =
              [err |-> p, data |-> IF p = "OK" THEN SubSeq(buf, body + 1, body + m - 1) ELSE <<>>]
    BY ParsesTo, Zenon DEF buf
  <2>2. off = 4 /\ body = 4 + h /\ m = n
    BY <1>5, <1>7
  <2> HIDE DEF off, body, m, err
  <2>3. LcsOk(buf, off) /\ ~(body - 1 > Len(buf))
    BY <1>2, <1>7, <1>14, <2>2
  <2>4. p = err
    BY <2>2 DEF err
  <2>5. SubSeq(buf, body + 1, body + m - 1) = SubSeq(buf, 4 + h + 1, 4 + h + n - 1)
    BY <2>2
  <2> HIDE DEF p
  <2> QED
    BY <1>5, <1>8, <2>1, <2>3, <2>4, <2>5, Zenon
<1> HIDE DEF err
<1> QED
  BY <1>9, <1>10, <1>11, <1>12

\* One damaged byte between the start code and the postamble is noticed.
LEMMA ParseDamaged ==
    ASSUME NEW rsp \in Seq(Bytes), Len(rsp) \in 1 .. PN532_MAX_PAYLOAD_LEN - 1,
           NEW size, NEW raw,
           Tail(raw) \in Seq(Bytes), Len(Tail(raw)) = PN532_RX_BUF_SIZE - 1,
           NEW k \in 4 .. Len(ReplyFrame(rsp)) - 1, Tail(raw)[k] # ReplyFrame(rsp)[k],
           \A i \in 2 .. Len(ReplyFrame(rsp)) - 1 : i # k => Tail(raw)[i] = ReplyFrame(rsp)[i]
    PROVE  pn532_parse_frame(raw, size).err # "OK"
<1> DEFINE n == Len(rsp) + 1
           h == FieldLen(n)
           f == ReplyFrame(rsp)
           buf == Tail(raw)
<1>1. /\ n \in 2 .. 265 /\ h \in {2, 5}
      /\ f \in Seq(Bytes) /\ Len(f) = n + h + 5
      /\ f[2] = 0 /\ f[3] = 255
      /\ h = 5 => /\ f[4] = 255 /\ f[5] = 255 /\ f[6] \in {0, 1}
                  /\ f[7] \in Nat /\ 256 * f[6] + f[7] = n
                  /\ SumOf(SubSeq(f, 6, 8)) = 0
      /\ h = 2 => f[4] = n /\ n \in 2 .. 254 /\ f[5] # 255 /\ SumOf(SubSeq(f, 4, 5)) = 0
      /\ f[4 + h] = 213
      /\ SumOf(SubSeq(f, 4 + h, 4 + h + n)) = 0
      /\ SubSeq(f, 5 + h, 3 + h + n) = rsp
  BY ReplyFrameBytes
<1>2. buf \in Seq(Bytes) /\ Len(buf) = 275 /\ Len(buf) >= 5
  <2>1. Len(buf) = 275
    BY DEF PN532_RX_BUF_SIZE, PN532_MAX_PAYLOAD_LEN
  <2> DEFINE length == Len(buf)
  <2>2. length = 275
    BY <2>1
  <2> HIDE DEF length
  <2>3. length >= 5
    BY <2>2
  <2> QED
    BY <2>2, <2>3 DEF length
<1>3. k \in 4 .. Len(f) - 1 /\ buf[k] # f[k] /\ \A i \in 2 .. Len(f) - 1 : i # k => buf[i] = f[i]
  OBVIOUS
<1>4. n \in 2 .. 265 /\ h \in {2, 5} /\ Len(f) = n + h + 5
  BY <1>1
<1>5. pn532_find_start(buf) = 4
  <2>1. 2 \in 2 .. Len(f) - 1 /\ 3 \in 2 .. Len(f) - 1 /\ 2 # k /\ 3 # k
    BY <1>3, <1>4
  <2>2. buf[2] = 0 /\ buf[3] = 255
    BY <1>1, <1>3, <2>1
  <2>3. Len(buf) = PN532_RX_BUF_SIZE - 1
    OBVIOUS
  <2> QED
    BY <1>2, <2>2, <2>3, StartFound
<1> DEFINE ok == pn532_parse_frame(raw, size).err = "OK"
           off == pn532_find_start(buf)
           body == off + FieldSize(buf, off)
           m == InfoLen(buf, off)
<1>6. ok => /\ LcsOk(buf, off) /\ buf[body] = 213
            /\ SumOf(SubSeq(buf, body, body + m)) = 0
  <2> SUFFICES ASSUME ok
               PROVE  /\ LcsOk(buf, off) /\ buf[body] = 213
                      /\ SumOf(SubSeq(buf, body, body + m)) = 0
    OBVIOUS
  <2>1. /\ LcsOk(buf, off)
        /\ buf[body] = PN532_TFI_PN532_TO_HOST
        /\ SumOf(SubSeq(buf, body, body + m)) = 0
    BY ParsedOk, Zenon
  <2> QED
    BY <2>1, Zenon DEF PN532_TFI_PN532_TO_HOST
<1>7. off = 4
  BY <1>5
<1> SUFFICES ASSUME ok PROVE FALSE
  OBVIOUS
<1> HIDE DEF ok, f, h, n, buf, off
<1>8. LcsOk(buf, 4) /\ buf[4 + FieldSize(buf, 4)] = 213
      /\ SumOf(SubSeq(buf, 4 + FieldSize(buf, 4), 4 + FieldSize(buf, 4) + InfoLen(buf, 4))) = 0
  BY <1>6, <1>7
<1>15. ASSUME h = 5
       PROVE  /\ f[4] = 255 /\ f[5] = 255 /\ 256 * f[6] + f[7] = n
              /\ f[6] # 213 /\ SumOf(SubSeq(f, 6, 8)) = 0
  <2>1. /\ f[4] = 255 /\ f[5] = 255 /\ 256 * f[6] + f[7] = n
        /\ f[6] \in {0, 1} /\ SumOf(SubSeq(f, 6, 8)) = 0
    BY <1>1, <1>15
  <2>2. f[6] # 213
    BY <2>1
  <2> QED
    BY <2>1, <2>2
<1>16. ASSUME h = 2
       PROVE  f[4] = n /\ n \in 2 .. 254 /\ n # 255 /\ f[5] # 255 /\ SumOf(SubSeq(f, 4, 5)) = 0
  <2>1. f[4] = n /\ n \in 2 .. 254 /\ f[5] # 255 /\ SumOf(SubSeq(f, 4, 5)) = 0
    BY <1>1, <1>16
  <2>2. n # 255
    BY <2>1
  <2> QED
    BY <2>1, <2>2
\* Where the damage is.
<1>9. /\ 4 \in 2 .. Len(f) - 1 /\ 5 \in 2 .. Len(f) - 1
      /\ h = 5 => 6 \in 2 .. Len(f) - 1 /\ 7 \in 2 .. Len(f) - 1
  BY <1>4
<1>10. ASSUME k \in 4 + h .. 4 + h + n, FieldSize(buf, 4) = h, InfoLen(buf, 4) = n
       PROVE  FALSE
  <2>1. /\ 4 + h \in Nat \ {0} /\ 4 + h + n \in Nat
        /\ 4 + h + n <= Len(f) /\ 4 + h + n <= Len(buf)
    BY <1>2, <1>4
  <2>2. \A i \in 4 + h .. 4 + h + n : i \in 2 .. Len(f) - 1
    BY <1>4
  <2>3. \A i \in 4 + h .. 4 + h + n : i # k => buf[i] = f[i]
    BY <1>3, <2>2
  <2>4. SumOf(SubSeq(f, 4 + h, 4 + h + n)) = 0
    BY <1>1
  <2>5. SumOf(SubSeq(buf, 4 + h, 4 + h + n)) # 0
    <3>1. f \in Seq(Bytes) /\ buf \in Seq(Bytes) /\ buf[k] # f[k]
      BY <1>1, <1>2, <1>3
    <3> QED
      BY <1>10, <2>1, <2>3, <2>4, <3>1, DamagedPart
  <2> QED
    BY <1>8, <1>10, <2>5
<1>11. CASE h = 2
  <2>0. 4 + h + n = n + h + 4 /\ Len(f) - 1 = n + h + 4 /\ 4 + h = 6
    BY <1>4, <1>11
  <2>1. CASE k \in 4 .. 5
    <3>1. ~(buf[4] = 255 /\ buf[5] = 255)
      <4>1. CASE k = 4
        <5>1. 5 # k
          BY <4>1
        <5>2. buf[5] = f[5]
          BY <1>3, <1>9, <5>1
        <5> QED
          BY <1>11, <1>16, <5>2
      <4>2. CASE k = 5
        <5>1. 4 # k
          BY <4>2
        <5>2. buf[4] = f[4]
          BY <1>3, <1>9, <5>1
        <5>3. buf[4] = n /\ n # 255
          BY <1>11, <1>16, <5>2
        <5> QED
          BY <5>3
      <4> QED
        BY <2>1, <4>1, <4>2
    <3>2. SumOf(SubSeq(buf, 4, 5)) = 0
      BY <1>2, <1>8, <3>1, FieldRead
    <3>3. /\ 4 \in Nat \ {0} /\ 5 \in Nat /\ 5 <= Len(f) /\ 5 <= Len(buf)
      BY <1>2, <1>4
    <3>4. \A i \in 4 .. 5 : i # k => buf[i] = f[i]
      <4>1. \A i \in 4 .. 5 : i \in 2 .. Len(f) - 1
        BY <1>4
      <4> QED
        BY <1>3, <4>1
    <3>5. SumOf(SubSeq(f, 4, 5)) = 0
      BY <1>11, <1>16
    <3>6. f \in Seq(Bytes) /\ buf \in Seq(Bytes) /\ buf[k] # f[k]
      BY <1>1, <1>2, <1>3
    <3> QED
      BY <2>1, <3>2, <3>3, <3>4, <3>5, <3>6, DamagedPart
  <2>2. CASE k \in 6 .. Len(f) - 1
    <3>1. 4 # k /\ 5 # k
      BY <2>2
    <3>2. buf[4] = n /\ ~(buf[4] = 255 /\ buf[5] = 255)
      BY <1>3, <1>9, <1>11, <1>16, <3>1, Zenon
    <3>5. buf \in Seq(Bytes) /\ Len(buf) >= 5 /\ ~(buf[4] = 255 /\ buf[5] = 255)
      BY <1>2, <3>2
    <3>3. FieldSize(buf, 4) = 2 /\ InfoLen(buf, 4) = buf[4]
      BY <3>5, FieldRead, Zenon
    <3>4. k \in 4 + h .. 4 + h + n
      BY <2>0, <2>2
    <3> QED
      BY <1>10, <1>11, <3>2, <3>3, <3>4
  <2> QED
    BY <1>3, <1>4, <2>1, <2>2
<1>12. CASE h = 5
  <2>0. 4 + h + n = n + h + 4 /\ Len(f) - 1 = n + h + 4 /\ 4 + h = 9
    BY <1>4, <1>12
  <2>1. CASE k \in 4 .. 5
    <3>1. ~(buf[4] = 255 /\ buf[5] = 255)
      BY <1>3, <1>12, <1>15, <2>1
    <3>5. buf \in Seq(Bytes) /\ Len(buf) >= 5 /\ ~(buf[4] = 255 /\ buf[5] = 255)
      BY <1>2, <3>1
    <3>2. FieldSize(buf, 4) = 2
      BY <3>5, FieldRead, Zenon
    <3>3. buf[6] = 213
      <4>1. 4 + 2 = 6
        OBVIOUS
      <4> QED
        BY <1>8, <3>2, <4>1
    <3>4. buf[6] = f[6]
      <4>1. 6 # k
        BY <2>1
      <4> QED
        BY <1>3, <1>9, <1>12, <4>1
    <3> QED
      BY <1>12, <1>15, <3>3, <3>4
  <2>2. ASSUME k \in 6 .. Len(f) - 1
        PROVE  /\ buf[4] = 255 /\ buf[5] = 255
               /\ FieldSize(buf, 4) = 5 /\ InfoLen(buf, 4) = 256 * buf[6] + buf[7]
               /\ SumOf(SubSeq(buf, 6, 8)) = 0
    <3>1. 4 # k /\ 5 # k
      BY <2>2
    <3>2. buf[4] = 255 /\ buf[5] = 255
      <4>1. buf[4] = f[4] /\ buf[5] = f[5]
        BY <1>3, <1>9, <3>1
      <4> QED
        BY <1>12, <1>15, <4>1
    <3> QED
      BY <1>2, <1>8, <3>2, FieldRead
  <2>3. CASE k \in 6 .. 8
    <3>0. k \in 6 .. Len(f) - 1
      BY <2>3, <1>4, <1>12
    <3>2. SumOf(SubSeq(buf, 6, 8)) = 0
      BY <2>2, <3>0
    <3>3. /\ 6 \in Nat \ {0} /\ 8 \in Nat /\ 8 <= Len(f) /\ 8 <= Len(buf)
      BY <1>2, <1>4, <1>12
    <3>4. \A i \in 6 .. 8 : i # k => buf[i] = f[i]
      <4>1. \A i \in 6 .. 8 : i \in 2 .. Len(f) - 1
        BY <1>4, <1>12
      <4> QED
        BY <1>3, <4>1
    <3>5. SumOf(SubSeq(f, 6, 8)) = 0
      BY <1>12, <1>15
    <3>6. f \in Seq(Bytes) /\ buf \in Seq(Bytes) /\ buf[k] # f[k]
      BY <1>1, <1>2, <1>3
    <3> QED
      BY <2>3, <3>2, <3>3, <3>4, <3>5, <3>6, DamagedPart
  <2>4. CASE k \in 9 .. Len(f) - 1
    <3>0. k \in 6 .. Len(f) - 1 /\ 6 # k /\ 7 # k
      BY <2>4
    <3>1. buf[6] = f[6] /\ buf[7] = f[7]
      BY <1>3, <1>9, <1>12, <3>0
    <3>2. FieldSize(buf, 4) = 5 /\ InfoLen(buf, 4) = 256 * buf[6] + buf[7]
      BY <2>2, <3>0
    <3>3. InfoLen(buf, 4) = n
      BY <1>12, <1>15, <3>1, <3>2
    <3>4. k \in 4 + h .. 4 + h + n
      BY <2>0, <2>4
    <3> QED
      BY <1>10, <1>12, <3>2, <3>3, <3>4
  <2> QED
    BY <1>3, <1>4, <2>1, <2>3, <2>4
<1> QED
  BY <1>4, <1>11, <1>12

-----------------------------------------------------------------------------
(***************************************************************************)
(* What arrives                                                            *)
(***************************************************************************)

\* That the same, with its parts named.
LEMMA ReadIsReadOf ==
    ASSUME NEW frame \in Seq(Bytes), Len(frame) <= PN532_RX_BUF_SIZE - 1, NEW pad \in Bytes
    PROVE  /\ Tail(OverRead(frame, pad)) \in Seq(Bytes)
           /\ Len(Tail(OverRead(frame, pad))) = PN532_RX_BUF_SIZE - 1
           /\ \A i \in 1 .. Len(frame) : Tail(OverRead(frame, pad))[i] = frame[i]
BY OverReadBytes, Zenon DEF IsReadOf

\* The frame of a reply fits the receive buffer.
LEMMA ReplyFits ==
    ASSUME NEW rsp \in Seq(Bytes), Len(rsp) \in 1 .. PN532_MAX_PAYLOAD_LEN - 1
    PROVE  /\ ReplyFrame(rsp) \in Seq(Bytes)
           /\ Len(ReplyFrame(rsp)) \in Nat /\ Len(ReplyFrame(rsp)) >= 9
           /\ Len(ReplyFrame(rsp)) <= PN532_RX_BUF_SIZE - 1
<1> DEFINE n == Len(rsp) + 1
           h == FieldLen(n)
<1>1. n \in 2 .. 265 /\ h \in {2, 5} /\ ReplyFrame(rsp) \in Seq(Bytes)
      /\ Len(ReplyFrame(rsp)) = n + h + 5
  BY ReplyFrameBytes
<1> HIDE DEF n, h
<1>2. n + h + 5 \in Nat /\ n + h + 5 >= 9 /\ n + h + 5 <= PN532_RX_BUF_SIZE - 1
  BY <1>1 DEF PN532_RX_BUF_SIZE, PN532_MAX_PAYLOAD_LEN
<1> QED
  BY <1>1, <1>2

\* A response that was not damaged is delivered whole, at every length, whatever is
\* read beyond its end (pn532_build_frame, pn532_parse_frame).
THEOREM ResponsesArrive ==
    ASSUME NEW rsp \in Seq(Bytes), Len(rsp) \in 1 .. PN532_MAX_PAYLOAD_LEN - 1,
           NEW pad \in Bytes, NEW size \in Nat
    PROVE  pn532_parse_frame(OverRead(ReplyFrame(rsp), pad), size) =
              IF Len(rsp) <= size THEN [err |-> "OK", data |-> rsp]
                                  ELSE [err |-> "INVALID_SIZE", data |-> <<>>]
<1> DEFINE f == ReplyFrame(rsp)
           raw == OverRead(f, pad)
<1>1. f \in Seq(Bytes) /\ Len(f) \in Nat /\ Len(f) <= PN532_RX_BUF_SIZE - 1
  BY ReplyFits
<1>2. /\ Tail(raw) \in Seq(Bytes) /\ Len(Tail(raw)) = PN532_RX_BUF_SIZE - 1
      /\ \A i \in 1 .. Len(f) : Tail(raw)[i] = f[i]
  BY <1>1, ReadIsReadOf, Zenon
<1> HIDE DEF raw
<1>3. \A i \in 2 .. Len(f) - 1 : Tail(raw)[i] = f[i]
  <2> HIDE DEF f
  <2>1. \A i \in 2 .. Len(f) - 1 : i \in 1 .. Len(f)
    BY <1>1
  <2> QED
    BY <1>2, <2>1, Zenon
<1>4. pn532_parse_frame(raw, size) =
              IF Len(rsp) <= size THEN [err |-> "OK", data |-> rsp]
                                  ELSE [err |-> "INVALID_SIZE", data |-> <<>>]
  BY <1>2, <1>3, ParseIntact, Zenon
<1> QED
  BY <1>4 DEF raw

\* Damage changes a byte into another byte.
LEMMA DamagedByte ==
    ASSUME NEW b \in Bytes, NEW d \in 1 .. 255
    PROVE  (b + d) % 256 \in Bytes /\ (b + d) % 256 # b
<1>1. b \in 0 .. 255
  BY DEF Bytes
<1>2. (b + d) % 256 = (IF b + d < 256 THEN b + d ELSE b + d - 256)
  BY <1>1
<1> DEFINE x == (b + d) % 256
<1>3. x = (IF b + d < 256 THEN b + d ELSE b + d - 256)
  BY <1>2
<1> HIDE DEF x
<1>4. x \in 0 .. 255 /\ x # b
  BY <1>1, <1>3
<1> QED
  BY <1>4 DEF Bytes, x

\* However one byte of a response is damaged, but one of the start code, no other
\* data than the chip's is delivered (pn532_parse_frame).
THEOREM DamageIsNoticed ==
    ASSUME NEW rsp \in Seq(Bytes), Len(rsp) \in 1 .. PN532_MAX_PAYLOAD_LEN - 1,
           NEW pad \in Bytes, NEW size \in Nat,
           NEW k \in 1 .. Len(ReplyFrame(rsp)), k \notin {2, 3}, NEW d \in 1 .. 255
    PROVE  LET parsed == pn532_parse_frame(OverRead(DamagedReply(rsp, k, d), pad), size)
           IN  parsed.err = "OK" => parsed.data = rsp
<1> DEFINE f == ReplyFrame(rsp)
           x == (f[k] + d) % 256
           g == DamagedReply(rsp, k, d)
           raw == OverRead(g, pad)
           parsed == pn532_parse_frame(raw, size)
<1>1. f \in Seq(Bytes) /\ Len(f) \in Nat /\ Len(f) <= PN532_RX_BUF_SIZE - 1
  BY ReplyFits
<1>2. f[k] \in Bytes
  BY <1>1, ElementOfSeq
<1>3. x \in Bytes /\ x # f[k]
  BY <1>2, DamagedByte
<1>4. g = [f EXCEPT ![k] = x]
  BY DEF DamagedReply
<1> HIDE DEF x, g, f
<1>5. g \in Seq(Bytes) /\ Len(g) = Len(f)
      /\ \A i \in 1 .. Len(f) : g[i] = IF i = k THEN x ELSE f[i]
  <2>1. k \in 1 .. Len(f)
    BY DEF f
  <2> DEFINE e == [f EXCEPT ![k] = x]
  <2>2. e \in Seq(Bytes) /\ Len(e) = Len(f)
        /\ \A i \in 1 .. Len(f) : e[i] = IF i = k THEN x ELSE f[i]
    BY <1>1, <1>3, <2>1, ExceptSeq
  <2> HIDE DEF e
  <2>3. g = e
    BY <1>4 DEF e
  <2> QED
    BY <2>2, <2>3
<1>6. /\ Tail(raw) \in Seq(Bytes) /\ Len(Tail(raw)) = PN532_RX_BUF_SIZE - 1
      /\ \A i \in 1 .. Len(g) : Tail(raw)[i] = g[i]
  <2>1. Len(g) <= PN532_RX_BUF_SIZE - 1
    BY <1>1, <1>5
  <2> QED
    BY <1>5, <2>1, ReadIsReadOf, Zenon
<1> HIDE DEF raw
<1>7. k \in 1 .. Len(f) /\ k # 2 /\ k # 3
  BY DEF f
<1>8. \A i \in 2 .. Len(f) - 1 : i # k => Tail(raw)[i] = f[i]
  <2>1. \A i \in 2 .. Len(f) - 1 : i \in 1 .. Len(f)
    BY <1>1
  <2>2. \A i \in 1 .. Len(f) : Tail(raw)[i] = g[i]
    BY <1>5, <1>6
  <2>3. \A i \in 1 .. Len(f) : i # k => g[i] = f[i]
    BY <1>5
  <2> QED
    BY <2>1, <2>2, <2>3, Zenon
<1>9. CASE k \in 4 .. Len(f) - 1
  <2>1. Tail(raw)[k] = x
    BY <1>5, <1>6, <1>7
  <2>2. Tail(raw)[k] # f[k]
    BY <1>3, <2>1
  <2>3. parsed.err # "OK"
    <3>1. k \in 4 .. Len(ReplyFrame(rsp)) - 1 /\ Tail(raw)[k] # ReplyFrame(rsp)[k]
      BY <1>9, <2>2 DEF f
    <3>2. \A i \in 2 .. Len(ReplyFrame(rsp)) - 1 : i # k => Tail(raw)[i] = ReplyFrame(rsp)[i]
      BY <1>8 DEF f
    <3>3. Tail(raw) \in Seq(Bytes) /\ Len(Tail(raw)) = PN532_RX_BUF_SIZE - 1
      BY <1>6
    <3> HIDE DEF parsed
    <3>4. pn532_parse_frame(raw, size).err # "OK"
      BY <3>1, <3>2, <3>3, ParseDamaged, Zenon
    <3> QED
      BY <3>4 DEF parsed
  <2> QED
    BY <2>3, Zenon DEF f, g, raw
<1>10. CASE k \notin 4 .. Len(f) - 1
  <2>1. \A i \in 2 .. Len(f) - 1 : i # k
    BY <1>1, <1>7, <1>10
  <2>2. \A i \in 2 .. Len(f) - 1 : Tail(raw)[i] = f[i]
    BY <1>8, <2>1, Zenon
  <2>3. parsed = IF Len(rsp) <= size THEN [err |-> "OK", data |-> rsp]
                                  ELSE [err |-> "INVALID_SIZE", data |-> <<>>]
    BY <1>6, <2>2, ParseIntact, Zenon DEF f
  <2>4. parsed.err = "OK" => parsed.data = rsp
    BY <2>3
  <2> QED
    BY <2>4, Zenon DEF f, g, raw
<1> QED
  BY <1>9, <1>10

\* The chip reads out of a frame what was put into it (pn532_build_frame).
THEOREM CommandsAreRead ==
    ASSUME NEW info \in Seq(Bytes), Len(info) \in 1 .. PN532_MAX_PAYLOAD_LEN
    PROVE  /\ ChipReads(Frame(info)) = info
           /\ Frame(info) # <<>> /\ Len(Frame(info)) <= PN532_TX_BUF_SIZE
<1> DEFINE n == Len(info)
           h == FieldLen(n)
           f == Frame(info)
           l == LengthField(n)
           a == SubSeq(f, 4, 5)
           w == <<255, 255>>
<1>1. n \in 1 .. PN532_MAX_PAYLOAD_LEN
  OBVIOUS
<1>2. \A k \in 1 .. PN532_MAX_PAYLOAD_LEN : k \in 1 .. 265
  BY DEF PN532_MAX_PAYLOAD_LEN
<1>3. n \in 1 .. 265
  BY <1>1, <1>2
<1>4. /\ f \in Seq(Bytes) /\ Len(f) = n + h + 5
      /\ \A i \in 1 .. h : f[3 + i] = l[i]
  BY FrameBytes
<1>5. SubSeq(f, 4 + h, 3 + h + n) = info
  BY FrameSums
<1> HIDE DEF n
<1>6. h \in {2, 5} /\ (n > PN532_NORMAL_LEN_MAX <=> h = 5) /\ (h = 2 => n \in 1 .. 254)
  BY <1>3 DEF FieldLen, PN532_NORMAL_LEN_MAX
<1>7. /\ l \in Seq(Bytes) /\ Len(l) = h
      /\ IF n > PN532_NORMAL_LEN_MAX
         THEN l[1] = 255 /\ l[2] = 255 /\ l[3] = n \div 256 /\ l[4] = n % 256
         ELSE l[1] = n /\ l[2] = Complement(<<n>>)
  BY <1>1, LengthFieldBytes
<1> HIDE DEF f, l, h
<1>8. a \in Seq(Bytes) /\ Len(a) = 2 /\ a[1] = f[4] /\ a[2] = f[5]
  <2>1. 4 \in Nat \ {0} /\ 5 \in Nat /\ 5 <= Len(f) /\ 4 <= 5 + 1
    BY <1>3, <1>4, <1>6
  <2>2. /\ a \in Seq(Bytes) /\ Len(a) = 5 - 4 + 1
        /\ \A i \in 1 .. 5 - 4 + 1 : a[i] = f[4 + i - 1]
    BY <1>4, <2>1, PartBytes
  <2> HIDE DEF a
  <2> QED
    BY <2>2
<1>9. w \in Seq(Bytes) /\ Len(w) = 2 /\ w[1] = 255 /\ w[2] = 255
  BY DEF Bytes
<1>10. f[4] = l[1] /\ f[5] = l[2]
  <2>1. 1 \in 1 .. h /\ 2 \in 1 .. h
    BY <1>6
  <2>2. f[3 + 1] = l[1] /\ f[3 + 2] = l[2]
    BY <1>4, <2>1
  <2> QED
    BY <2>2
<1> HIDE DEF a, w
<1>11. ChipReads(f) = info
  <2>1. CASE h = 5
    <3>1. f[4] = 255 /\ f[5] = 255 /\ l[3] = n \div 256 /\ l[4] = n % 256
      BY <1>6, <1>7, <1>10, <2>1
    <3>2. a = w
      <4>1. Len(a) = Len(w) /\ \A i \in 1 .. Len(a) : a[i] = w[i]
        BY <1>8, <1>9, <3>1
      <4> QED
        BY <1>8, <1>9, <4>1, SeqEqual
    <3>3. f[6] = n \div 256 /\ f[7] = n % 256
      <4>1. 3 \in 1 .. h /\ 4 \in 1 .. h
        BY <2>1
      <4>2. f[3 + 3] = l[3] /\ f[3 + 4] = l[4]
        BY <1>4, <4>1
      <4>3. f[6] = l[3] /\ f[7] = l[4]
        BY <4>2
      <4> QED
        BY <3>1, <4>3
    <3>4. 8 + 256 * (n \div 256) + (n % 256) = 8 + n
      BY <1>3
    <3>5. 8 + 256 * f[6] + f[7] = 8 + n
      BY <3>3, <3>4
    <3>6. 4 + h = 9 /\ 3 + h + n = 8 + n
      BY <1>3, <2>1
    <3>7. ChipReads(f) = SubSeq(f, 9, 8 + 256 * f[6] + f[7])
      BY <3>2 DEF ChipReads, a, w
    <3> QED
      BY <1>5, <3>5, <3>6, <3>7
  <2>2. CASE h = 2
    <3>1. f[4] = n
      BY <1>6, <1>7, <1>10, <2>2
    <3>2. a # w
      <4>1. n \in 1 .. 254
        BY <1>6, <2>2
      <4>2. n # 255
        BY <4>1
      <4> QED
        BY <1>8, <1>9, <3>1, <4>2
    <3>3. 4 + h = 6 /\ 3 + h + n = 5 + n
      BY <1>3, <2>2
    <3>4. ChipReads(f) = SubSeq(f, 6, 5 + f[4])
      BY <3>2 DEF ChipReads, a, w
    <3> QED
      BY <1>5, <3>1, <3>3, <3>4
  <2> QED
    BY <1>6, <2>1, <2>2
<1>12. f # <<>> /\ Len(f) <= PN532_TX_BUF_SIZE
  <2>1. n + h + 5 <= PN532_TX_BUF_SIZE /\ n + h + 5 # 0
    BY <1>3, <1>6 DEF PN532_TX_BUF_SIZE, PN532_MAX_PAYLOAD_LEN
  <2>2. Len(<<>>) = 0
    OBVIOUS
  <2> QED
    BY <1>4, <2>1, <2>2
<1> QED
  BY <1>11, <1>12 DEF f

-----------------------------------------------------------------------------
(***************************************************************************)
(* Scripts and parameters                                                  *)
(***************************************************************************)

\* The commands, by name.
LEMMA CommandsDef ==
    Commands = {"GetFirmwareVersion", "SAMConfiguration", "SetParameters", "TgInitAsTarget",
                "TgGetTargetStatus", "TgGetData", "RawTgGetData", "TgSetData",
                "TgGetInitiatorCommand", "TgResponseToInitiator", "TgSetMetaData"}
BY DEF Commands, Code

\* The calls, by name.
LEMMA CallsDef ==
    Calls = {"lli_init", "lli_activate", "lli_receive_apdu", "lli_send_apdu",
             "lli_get_link_status", "pn532_tg_get_data", "pn532_tg_get_initiator_command",
             "pn532_tg_response_to_initiator", "pn532_tg_set_meta_data"}
BY DEF Calls, Script

\* The commands that configure the chip.
Configuration == {"SAMConfiguration", "SetParameters"}

\* A sequence of three commands.
LEMMA Three ==
    ASSUME NEW a \in Commands, NEW b \in Commands, NEW c \in Commands
    PROVE  /\ <<a>> \o <<b, c>> = <<a, b, c>>
           /\ <<a, b>> \o <<c>> = <<a, b, c>>
           /\ <<a, b, c>> \in Seq(Commands) /\ Len(<<a, b, c>>) = 3
<1> DEFINE w == <<a, b, c>>
           x == <<a>>
           y == <<b, c>>
           u == <<a, b>>
           v == <<c>>
<1>1. /\ x \in Seq(Commands) /\ Len(x) = 1 /\ x[1] = a
      /\ y \in Seq(Commands) /\ Len(y) = 2 /\ y[1] = b /\ y[2] = c
      /\ u \in Seq(Commands) /\ Len(u) = 2 /\ u[1] = a /\ u[2] = b
      /\ v \in Seq(Commands) /\ Len(v) = 1 /\ v[1] = c
      /\ w \in Seq(Commands) /\ Len(w) = 3 /\ w[1] = a /\ w[2] = b /\ w[3] = c
  OBVIOUS
<1> HIDE DEF w, x, y, u, v
<1>2. x \o y = w
  <2>1. /\ x \o y \in Seq(Commands) /\ Len(x \o y) = Len(x) + Len(y)
        /\ \A i \in 1 .. Len(x) + Len(y) :
             (x \o y)[i] = IF i <= Len(x) THEN x[i] ELSE y[i - Len(x)]
    BY <1>1, ConcatProperties
  <2>2. Len(x \o y) = Len(w) /\ \A i \in 1 .. Len(x \o y) : (x \o y)[i] = w[i]
    <3>1. (x \o y)[1] = x[1] /\ (x \o y)[2] = y[2 - 1] /\ (x \o y)[3] = y[3 - 1]
      BY <1>1, <2>1
    <3> QED
      BY <1>1, <2>1, <3>1
  <2> QED
    BY <1>1, <2>1, <2>2, SeqEqual
<1>3. u \o v = w
  <2>1. /\ u \o v \in Seq(Commands) /\ Len(u \o v) = Len(u) + Len(v)
        /\ \A i \in 1 .. Len(u) + Len(v) :
             (u \o v)[i] = IF i <= Len(u) THEN u[i] ELSE v[i - Len(u)]
    BY <1>1, ConcatProperties
  <2>2. Len(u \o v) = Len(w) /\ \A i \in 1 .. Len(u \o v) : (u \o v)[i] = w[i]
    <3>1. (u \o v)[1] = u[1] /\ (u \o v)[2] = u[2] /\ (u \o v)[3] = v[3 - 2]
      BY <1>1, <2>1
    <3> QED
      BY <1>1, <2>1, <3>1
  <2> QED
    BY <1>1, <2>1, <2>2, SeqEqual
<1> QED
  BY <1>1, <1>2, <1>3 DEF w, x, y, u, v

\* The scripts.
LEMMA Scripts ==
    /\ Script["lli_init"] = <<"GetFirmwareVersion", "SAMConfiguration", "SetParameters">>
    /\ Script["lli_activate"] = <<"SAMConfiguration", "SetParameters", "TgInitAsTarget">>
    /\ Script["lli_receive_apdu"] = <<"RawTgGetData">>
    /\ Script["lli_send_apdu"] = <<"TgSetData">>
    /\ Script["lli_get_link_status"] = <<"TgGetTargetStatus">>
    /\ Script["pn532_tg_get_data"] = <<"TgGetData">>
    /\ Script["pn532_tg_get_initiator_command"] = <<"TgGetInitiatorCommand">>
    /\ Script["pn532_tg_response_to_initiator"] = <<"TgResponseToInitiator">>
    /\ Script["pn532_tg_set_meta_data"] = <<"TgSetMetaData">>
<1>1. lli_init = <<"GetFirmwareVersion", "SAMConfiguration", "SetParameters">>
  BY CommandsDef, Three DEF lli_init, configure_pn532
<1>2. lli_activate = <<"SAMConfiguration", "SetParameters", "TgInitAsTarget">>
  BY CommandsDef, Three DEF lli_activate, configure_pn532
<1> QED
  BY <1>1, <1>2 DEF Script

\* The script of a single command.
LEMMA OnlyCommand ==
    ASSUME NEW c \in Calls, c \notin {"lli_init", "lli_activate"},
           NEW k \in Commands, Script[c] = <<k>>,
           k = "TgGetData" <=> c = "pn532_tg_get_data",
           k \in Writers => c \in {"lli_send_apdu",
                       "pn532_tg_response_to_initiator", "pn532_tg_set_meta_data"},
           k # "TgInitAsTarget"
    PROVE  /\ Script[c] \in Seq(Commands)
           /\ Len(Script[c]) \in {1, 3}
           /\ c \in {"lli_init", "lli_activate"} <=> Len(Script[c]) = 3
           /\ \A i \in 1 .. Len(Script[c]) :
                 /\ Script[c][i] \in Commands
                 /\ Script[c][i] = "TgGetData" <=> c = "pn532_tg_get_data"
                 /\ Script[c][i] \in Readers => Len(Script[c]) = 1
                 /\ Script[c][i] \in Writers => c \in {"lli_send_apdu",
                       "pn532_tg_response_to_initiator", "pn532_tg_set_meta_data"}
                 /\ Script[c][i] = "TgInitAsTarget" => c = "lli_activate" /\ i = 3
           /\ c = "lli_activate"
                => Script[c][1] = "SAMConfiguration" /\ Script[c][2] = "SetParameters"
<1> DEFINE s == <<k>>
<1>1. s \in Seq(Commands) /\ Len(s) = 1 /\ s[1] = k
  OBVIOUS
<1>2. Script[c] = s
  OBVIOUS
<1> HIDE DEF s
<1>3. \A i \in 1 .. Len(s) : i = 1
  BY <1>1
<1>4. c # "lli_init" /\ c # "lli_activate"
  OBVIOUS
<1>5. \A i \in 1 .. Len(Script[c]) : Script[c][i] = k /\ Len(Script[c]) = 1
  BY <1>1, <1>2, <1>3
<1>6. Script[c] \in Seq(Commands) /\ Len(Script[c]) = 1 /\ Len(Script[c]) # 3
  BY <1>1, <1>2
<1> QED
  BY <1>4, <1>5, <1>6

\* What the proofs need to know of them.
LEMMA ScriptShape ==
    ASSUME NEW c \in Calls
    PROVE  /\ Script[c] \in Seq(Commands)
           /\ Len(Script[c]) \in {1, 3}
           /\ c \in {"lli_init", "lli_activate"} <=> Len(Script[c]) = 3
           /\ \A i \in 1 .. Len(Script[c]) :
                 /\ Script[c][i] \in Commands
                 /\ Script[c][i] = "TgGetData" <=> c = "pn532_tg_get_data"
                 /\ Script[c][i] \in Readers => Len(Script[c]) = 1
                 /\ Script[c][i] \in Writers => c \in {"lli_send_apdu",
                       "pn532_tg_response_to_initiator", "pn532_tg_set_meta_data"}
                 /\ Script[c][i] = "TgInitAsTarget" => c = "lli_activate" /\ i = 3
           /\ c = "lli_activate"
                => Script[c][1] = "SAMConfiguration" /\ Script[c][2] = "SetParameters"
<1> USE DEF Readers, Writers
<1>1. CASE c = "lli_init"
  <2> DEFINE s == <<"GetFirmwareVersion", "SAMConfiguration", "SetParameters">>
  <2>1. s \in Seq(Commands) /\ Len(s) = 3 /\ s[1] = "GetFirmwareVersion"
        /\ s[2] = "SAMConfiguration" /\ s[3] = "SetParameters"
    BY CommandsDef
  <2>2. Script[c] = s
    BY <1>1, Scripts
  <2> HIDE DEF s
  <2>3. \A i \in 1 .. Len(s) : i \in {1, 2, 3}
    BY <2>1
  <2> QED
    BY <1>1, <2>1, <2>2, <2>3, CommandsDef
<1>2. CASE c = "lli_activate"
  <2> DEFINE s == <<"SAMConfiguration", "SetParameters", "TgInitAsTarget">>
  <2>1. s \in Seq(Commands) /\ Len(s) = 3 /\ s[1] = "SAMConfiguration"
        /\ s[2] = "SetParameters" /\ s[3] = "TgInitAsTarget"
    BY CommandsDef
  <2>2. Script[c] = s
    BY <1>2, Scripts
  <2> HIDE DEF s
  <2>3. \A i \in 1 .. Len(s) : i \in {1, 2, 3}
    BY <2>1
  <2> QED
    BY <1>2, <2>1, <2>2, <2>3, CommandsDef
<1>3. CASE c \notin {"lli_init", "lli_activate"}
  <2> DEFINE IsOnly(k) == /\ k \in Commands /\ Script[c] = <<k>>
                          /\ k = "TgGetData" <=> c = "pn532_tg_get_data"
                          /\ k \in Writers => c \in {"lli_send_apdu",
                                "pn532_tg_response_to_initiator", "pn532_tg_set_meta_data"}
                          /\ k # "TgInitAsTarget"
  <2>1. CASE c = "lli_receive_apdu"
    <3>1. IsOnly("RawTgGetData")
      BY <2>1, Scripts, CommandsDef
    <3>2. c \notin {"lli_init", "lli_activate"}
      BY <1>3
    <3> QED
      BY <3>1, <3>2, OnlyCommand, Zenon
  <2>2. CASE c = "lli_send_apdu"
    <3>1. IsOnly("TgSetData")
      BY <2>2, Scripts, CommandsDef
    <3>2. c \notin {"lli_init", "lli_activate"}
      BY <1>3
    <3> QED
      BY <3>1, <3>2, OnlyCommand, Zenon
  <2>3. CASE c = "lli_get_link_status"
    <3>1. IsOnly("TgGetTargetStatus")
      BY <2>3, Scripts, CommandsDef
    <3>2. c \notin {"lli_init", "lli_activate"}
      BY <1>3
    <3> QED
      BY <3>1, <3>2, OnlyCommand, Zenon
  <2>4. CASE c = "pn532_tg_get_data"
    <3>1. IsOnly("TgGetData")
      BY <2>4, Scripts, CommandsDef
    <3>2. c \notin {"lli_init", "lli_activate"}
      BY <1>3
    <3> QED
      BY <3>1, <3>2, OnlyCommand, Zenon
  <2>5. CASE c = "pn532_tg_get_initiator_command"
    <3>1. IsOnly("TgGetInitiatorCommand")
      BY <2>5, Scripts, CommandsDef
    <3>2. c \notin {"lli_init", "lli_activate"}
      BY <1>3
    <3> QED
      BY <3>1, <3>2, OnlyCommand, Zenon
  <2>6. CASE c = "pn532_tg_response_to_initiator"
    <3>1. IsOnly("TgResponseToInitiator")
      BY <2>6, Scripts, CommandsDef
    <3>2. c \notin {"lli_init", "lli_activate"}
      BY <1>3
    <3> QED
      BY <3>1, <3>2, OnlyCommand, Zenon
  <2>7. CASE c = "pn532_tg_set_meta_data"
    <3>1. IsOnly("TgSetMetaData")
      BY <2>7, Scripts, CommandsDef
    <3>2. c \notin {"lli_init", "lli_activate"}
      BY <1>3
    <3> QED
      BY <3>1, <3>2, OnlyCommand, Zenon
  <2> QED
    BY <1>3, CallsDef, <2>1, <2>2, <2>3, <2>4, <2>5, <2>6, <2>7
<1> QED
  BY <1>1, <1>2, <1>3

\* The bounds, by value.
LEMMA SizesDef ==
    PN532_MAX_PAYLOAD_LEN = 265 /\ PN532_TG_MAX_DATA_LEN = 262 /\ PN532_TG_MAX_GTK_LEN = 47
BY DEF PN532_MAX_PAYLOAD_LEN, PN532_TG_MAX_DATA_LEN, PN532_TG_MAX_GTK_LEN

\* Codes and response codes are bytes, and every response buffer is bounded.
LEMMA CodesDef ==
    ASSUME NEW c \in Commands
    PROVE  Code[c] \in Bytes /\ Code[c] + 1 \in Bytes /\ RspSize[c] \in 1 .. 265
BY DEF PN532_MAX_PAYLOAD_LEN, PN532_TG_MAX_DATA_LEN, Commands, Code, RspSize, Bytes

\* The parameters of TgInitAsTarget.
LEMMA TargetParams ==
    ASSUME NEW bytes \in Seq(Bytes), Len(bytes) <= 47
    PROVE  /\ tg_init_params(bytes) \in Seq(Bytes)
           /\ Len(tg_init_params(bytes)) \in Nat /\ Len(tg_init_params(bytes)) <= 263
<1> DEFINE a == <<5>>
           z == Zeros(34)
           l == <<Len(bytes)>>
           az == a \o z
           azl == az \o l
           azlb == azl \o bytes
           azlbl == azlb \o l
           all == azlbl \o bytes
<1>1. Len(bytes) \in Nat /\ Len(bytes) <= 47 /\ Len(bytes) \in Bytes
  <2>1. Len(bytes) \in Nat
    BY LenProperties
  <2>2. \A n \in Nat : n <= 47 => n \in Bytes
    BY DEF Bytes
  <2> QED
    BY <2>1, <2>2
<1>2. a \in Seq(Bytes) /\ l \in Seq(Bytes) /\ Len(a) = 1 /\ Len(l) = 1
  BY <1>1 DEF Bytes
<1>3. z \in Seq(Bytes) /\ Len(z) = 34
  BY DEF Zeros, Bytes
<1>4. tg_init_params(bytes) = all
  BY DEF tg_init_params
<1> HIDE DEF a, z, l, az, azl, azlb, azlbl, all
<1>5. az \in Seq(Bytes) /\ Len(az) = Len(a) + Len(z)
  BY <1>2, <1>3, Joined, Zenon DEF az
<1>6. azl \in Seq(Bytes) /\ Len(azl) = Len(az) + Len(l)
  BY <1>2, <1>5, Joined, Zenon DEF azl
<1>7. azlb \in Seq(Bytes) /\ Len(azlb) = Len(azl) + Len(bytes)
  BY <1>6, Joined, Zenon DEF azlb
<1>8. azlbl \in Seq(Bytes) /\ Len(azlbl) = Len(azlb) + Len(l)
  BY <1>2, <1>7, Joined, Zenon DEF azlbl
<1>9. all \in Seq(Bytes) /\ Len(all) = Len(azlbl) + Len(bytes)
  BY <1>8, Joined, Zenon DEF all
<1>10. Len(all) = 37 + Len(bytes) + Len(bytes)
  BY <1>1, <1>2, <1>3, <1>5, <1>6, <1>7, <1>8, <1>9
<1> QED
  BY <1>1, <1>4, <1>9, <1>10

\* What a command that is not refused sends fits a frame.
LEMMA ParamsFit ==
    ASSUME NEW c \in Commands, NEW data \in Seq(Bytes),
           c = "TgInitAsTarget" => Len(data) <= 47,
           Refused(c, Params(c, data)) = "OK"
    PROVE  /\ Params(c, data) \in Seq(Bytes)
           /\ Len(Params(c, data)) \in Nat /\ Len(Params(c, data)) <= 263
<1>1. CASE c = "SAMConfiguration"
  <2>1. <<1, 0, 1>> \in Seq(Bytes) /\ Len(<<1, 0, 1>>) = 3
    BY DEF Bytes
  <2> QED
    BY <1>1, <2>1 DEF Params, Writers
<1>2. CASE c = "SetParameters"
  <2>1. <<36>> \in Seq(Bytes) /\ Len(<<36>>) = 1
    BY DEF Bytes
  <2> QED
    BY <1>2, <2>1 DEF Params, Writers
<1>3. CASE c = "TgInitAsTarget"
  <2>1. Params(c, data) = tg_init_params(data)
    BY <1>3 DEF Params, Writers
  <2> QED
    BY <1>3, <2>1, TargetParams
<1>4. CASE c \in Writers
  <2>1. Params(c, data) = data
    BY <1>4 DEF Params, Writers
  <2>2. ~(Len(data) > PN532_TG_MAX_DATA_LEN)
    BY <1>4, <2>1 DEF Refused
  <2> QED
    BY <2>1, <2>2, SizesDef, LenProperties
<1>5. CASE c \notin {"SAMConfiguration", "SetParameters", "TgInitAsTarget"} /\ c \notin Writers
  <2>1. Params(c, data) = <<>>
    BY <1>5 DEF Params
  <2>2. <<>> \in Seq(Bytes) /\ Len(<<>>) = 0
    OBVIOUS
  <2> QED
    BY <2>1, <2>2
<1> QED
  BY <1>1, <1>2, <1>3, <1>4, <1>5

\* The two bytes before the parameters fit as well.
LEMMA InfoFits ==
    ASSUME NEW p \in Nat, p <= 263
    PROVE  2 + p \in 1 .. PN532_MAX_PAYLOAD_LEN /\ ~(2 + p > PN532_MAX_PAYLOAD_LEN)
BY DEF PN532_MAX_PAYLOAD_LEN

\* A command in the words of the chip.
CommandOf(c, data) == <<PN532_TFI_HOST_TO_PN532, Code[c]>> \o Params(c, data)

\* Its frame is built, fits the buffer, and reaches the chip.
LEMMA CommandFrame ==
    ASSUME NEW c \in Commands, NEW data \in Seq(Bytes),
           c = "TgInitAsTarget" => Len(data) <= 47,
           Refused(c, Params(c, data)) = "OK"
    PROVE  LET f == pn532_build_frame(Code[c], Params(c, data))
           IN  /\ f # <<>> /\ Len(f) <= PN532_TX_BUF_SIZE
               /\ ChipReads(f) = CommandOf(c, data)
<1> DEFINE w == <<PN532_TFI_HOST_TO_PN532, Code[c]>>
           params == Params(c, data)
           info == w \o params
<1>1. params \in Seq(Bytes) /\ Len(params) \in Nat /\ Len(params) <= 263
  BY ParamsFit
<1>2. w \in Seq(Bytes) /\ Len(w) = 2
  BY CodesDef DEF PN532_TFI_HOST_TO_PN532, Bytes
<1>3. pn532_build_frame(Code[c], params)
         = IF Len(info) > PN532_MAX_PAYLOAD_LEN THEN <<>> ELSE Frame(info)
  BY DEF pn532_build_frame
<1>4. CommandOf(c, data) = info
  BY DEF CommandOf
<1> HIDE DEF w, params
<1>5. info \in Seq(Bytes) /\ Len(info) = Len(w) + Len(params)
  BY <1>1, <1>2, Joined, Zenon
<1> HIDE DEF info
<1>6. Len(info) \in 1 .. PN532_MAX_PAYLOAD_LEN /\ ~(Len(info) > PN532_MAX_PAYLOAD_LEN)
  <2>1. Len(info) = 2 + Len(params)
    BY <1>2, <1>5, Zenon
  <2> QED
    BY <1>1, <2>1, InfoFits, Zenon
<1>7. /\ ChipReads(Frame(info)) = info
      /\ Frame(info) # <<>> /\ Len(Frame(info)) <= PN532_TX_BUF_SIZE
  BY <1>5, <1>6, CommandsAreRead
<1> QED
  BY <1>3, <1>4, <1>6, <1>7 DEF params

\* Every reply is a sequence of at least one byte.
LEMMA ReplyBytes ==
    ASSUME NEW c \in Commands, NEW rsp \in Replies(c)
    PROVE  /\ rsp \in Seq(Bytes) /\ Len(rsp) \in Nat /\ Len(rsp) >= 1
           /\ c = "TgGetData" => Len(rsp) >= 2 /\ rsp[2] \in Statuses \cup {64, 128}
<1> DEFINE code == Code[c] + 1
<1>1. code \in Bytes
  BY CodesDef
<1>2. \A b \in Bytes : /\ <<code>> \in Seq(Bytes) /\ Len(<<code>>) = 1
                       /\ <<code, b>> \in Seq(Bytes) /\ Len(<<code, b>>) = 2
                       /\ <<code, b>>[2] = b
                       /\ <<code, b, 0>> \in Seq(Bytes) /\ Len(<<code, b, 0>>) = 3
                       /\ <<code, b, 0>>[2] = b
                       /\ <<code, b, 1, 6, 7>> \in Seq(Bytes) /\ Len(<<code, b, 1, 6, 7>>) = 5
  BY <1>1 DEF Bytes
<1>3. Statuses \subseteq Bytes /\ {0, 1, 7, 8, 50, 64, 128, 129, 130} \subseteq Bytes
      /\ 0 \in Statuses
  BY DEF Statuses, Bytes
<1>4. ASSUME NEW b \in Bytes, NEW data \in Payloads, rsp = <<code, b>> \o data
      PROVE  rsp \in Seq(Bytes) /\ Len(rsp) \in Nat /\ Len(rsp) >= 2 /\ rsp[2] = b
  <2> DEFINE w == <<code, b>>
  <2>1. w \in Seq(Bytes) /\ Len(w) = 2 /\ w[2] = b /\ data \in Seq(Bytes)
    BY <1>2, PayloadsAssumption
  <2>2. rsp = w \o data
    BY <1>4
  <2> HIDE DEF w
  <2>3. w \o data \in Seq(Bytes) /\ Len(w \o data) = Len(w) + Len(data) /\ Len(data) \in Nat
        /\ \A i \in 1 .. Len(w) : (w \o data)[i] = w[i]
    <3>1. w \in Seq(Bytes) /\ data \in Seq(Bytes)
      BY <2>1
    <3> QED
      BY <3>1, Joined, Zenon
  <2> QED
    BY <2>1, <2>2, <2>3
<1>5. ASSUME NEW data \in Payloads, rsp = <<code, 128, 0>> \o data
      PROVE  rsp \in Seq(Bytes) /\ Len(rsp) \in Nat /\ Len(rsp) >= 2 /\ rsp[2] = 128
  <2> DEFINE w == <<code, 128, 0>>
  <2>1. w \in Seq(Bytes) /\ Len(w) = 3 /\ w[2] = 128 /\ data \in Seq(Bytes)
    BY <1>2, <1>3, PayloadsAssumption
  <2>2. rsp = w \o data
    BY <1>5
  <2> HIDE DEF w
  <2>3. w \o data \in Seq(Bytes) /\ Len(w \o data) = Len(w) + Len(data) /\ Len(data) \in Nat
        /\ \A i \in 1 .. Len(w) : (w \o data)[i] = w[i]
    <3>1. w \in Seq(Bytes) /\ data \in Seq(Bytes)
      BY <2>1
    <3> QED
      BY <3>1, Joined, Zenon
  <2> QED
    BY <2>1, <2>2, <2>3
<1>6. CASE c = "GetFirmwareVersion"
  <2>1. \E ic \in {50, 7} : rsp = <<code, ic, 1, 6, 7>>
    BY <1>6 DEF Replies, Writers
  <2> QED
    BY <1>2, <1>3, <1>6, <2>1
<1>7. CASE c \in {"SAMConfiguration", "SetParameters"}
  <2>1. rsp = <<code>>
    BY <1>7 DEF Replies, Writers
  <2> QED
    BY <1>2, <1>3, <1>7, <2>1
<1>8. CASE c = "TgInitAsTarget"
  <2>1. \E first \in Payloads : rsp = <<code, 8>> \o first
    BY <1>8 DEF Replies, Writers
  <2>2. PICK first \in Payloads : rsp = <<code, 8>> \o first
    BY <2>1
  <2>3. 8 \in Bytes
    BY DEF Bytes
  <2>4. rsp \in Seq(Bytes) /\ Len(rsp) \in Nat /\ Len(rsp) >= 2
    BY <2>2, <2>3, <1>4
  <2> QED
    BY <1>8, <2>4
<1>9. CASE c = "TgGetTargetStatus"
  <2>1. \E state \in {0, 1, 128, 129, 130} : rsp = <<code, state, 0>>
    BY <1>9 DEF Replies, Writers
  <2> QED
    BY <1>2, <1>3, <1>9, <2>1
<1>10. CASE c \in Writers
  <2>1. \E status \in Statuses : rsp = <<code, status>>
    BY <1>10 DEF Replies, Writers
  <2> QED
    BY <1>2, <1>3, <1>10, <2>1 DEF Writers
<1>11. CASE c \in Readers
  <2>1. \/ \E data \in Payloads : rsp = <<code, 0>> \o data
        \/ \E status \in Statuses : rsp = <<code, status>>
        \/ c = "TgGetData" /\ \E data \in Payloads : rsp = <<code, 64>> \o data
        \/ c = "TgGetData" /\ \E data \in Payloads : rsp = <<code, 128, 0>> \o data
    BY <1>11 DEF Replies, Readers, Writers, PN532_TG_STATUS_MI_BIT, PN532_TG_STATUS_NAD_BIT
  <2>2. CASE \E status \in Statuses : rsp = <<code, status>>
    BY <1>2, <1>3, <2>2
  <2>3. CASE \E data \in Payloads : rsp = <<code, 0>> \o data
    <3>1. PICK data \in Payloads : rsp = <<code, 0>> \o data
      BY <2>3
    <3>2. rsp \in Seq(Bytes) /\ Len(rsp) \in Nat /\ Len(rsp) >= 2 /\ rsp[2] = 0
      BY <3>1, <1>3, <1>4
    <3> QED
      BY <1>3, <3>2
  <2>4. CASE \E data \in Payloads : rsp = <<code, 64>> \o data
    <3>1. PICK data \in Payloads : rsp = <<code, 64>> \o data
      BY <2>4
    <3>2. rsp \in Seq(Bytes) /\ Len(rsp) \in Nat /\ Len(rsp) >= 2 /\ rsp[2] = 64
      BY <3>1, <1>3, <1>4
    <3> QED
      BY <1>3, <3>2
  <2>5. CASE \E data \in Payloads : rsp = <<code, 128, 0>> \o data
    BY <1>5, <2>5
  <2> QED
    BY <2>1, <2>2, <2>3, <2>4, <2>5
<1> QED
  BY <1>6, <1>7, <1>8, <1>9, <1>10, <1>11, CommandsDef DEF Readers, Writers

-----------------------------------------------------------------------------
(***************************************************************************)
(* Responses                                                               *)
(***************************************************************************)

\* The errors of pn532_parse_frame.
ParserErrors == {"FAIL", "INVALID_RESPONSE", "INVALID_CRC", "INVALID_SIZE"}

\* What the parser may hand to a command.
IsParsed(parsed) ==
    /\ parsed.err \in {"OK"} \cup ParserErrors
    /\ parsed.err = "OK" => /\ parsed.data \in Seq(Bytes)
                            /\ Len(parsed.data) \in Nat /\ Len(parsed.data) <= 265

\* The same of the response buffer, as numbers.
LEMMA SizeFits ==
    ASSUME NEW c \in Commands
    PROVE  RspSize[c] \in Nat /\ RspSize[c] <= 265
BY CodesDef

\* Whatever bytes were read, the result of the parser is one.
LEMMA EveryReadParses ==
    ASSUME NEW c \in Commands, NEW frame \in Seq(Bytes), Len(frame) <= PN532_RX_BUF_SIZE - 1,
           NEW pad \in Bytes
    PROVE  IsParsed(pn532_parse_frame(OverRead(frame, pad), RspSize[c]))
<1> DEFINE raw == OverRead(frame, pad)
           parsed == pn532_parse_frame(raw, RspSize[c])
<1>1. Tail(raw) \in Seq(Bytes)
  BY ReadIsReadOf
<1>2. RspSize[c] \in Nat /\ RspSize[c] <= 265
  BY SizeFits, Zenon
<1>3. parsed.err \in {"OK"} \cup ParserErrors
  BY ParseResult DEF ParserErrors
<1> HIDE DEF raw
<1>4. parsed.err = "OK" => parsed.data \in Seq(Bytes) /\ Len(parsed.data) \in 0 .. RspSize[c]
  BY <1>1, <1>2, DataFits
<1> HIDE DEF parsed
<1>5. parsed.err = "OK" => Len(parsed.data) \in Nat /\ Len(parsed.data) <= 265
  BY <1>2, <1>4
<1> QED
  BY <1>3, <1>4, <1>5 DEF IsParsed, parsed, raw

\* A damaged frame is still a frame's worth of bytes.
LEMMA DamagedBytes ==
    ASSUME NEW frame \in Seq(Bytes), NEW damaged \in Damaged(frame)
    PROVE  /\ damaged \in Seq(Bytes) /\ Len(damaged) = Len(frame)
           /\ \/ damaged = frame
              \/ \E k \in 1 .. Len(frame), d \in Damages :
                    damaged = [frame EXCEPT ![k] = (@ + d) % 256]
<1>1. CASE damaged = frame
  BY <1>1
<1>2. CASE \E k \in Damageable(frame), d \in Damages :
              damaged = [frame EXCEPT ![k] = (@ + d) % 256]
  <2>1. PICK k \in Damageable(frame), d \in Damages :
              damaged = [frame EXCEPT ![k] = (@ + d) % 256]
    BY <1>2
  <2>2. k \in 1 .. Len(frame) /\ d \in 1 .. 255
    BY LenProperties, DamagesAssumption DEF Damageable
  <2>3. frame[k] \in Bytes
    BY <2>2, ElementOfSeq
  <2>4. (frame[k] + d) % 256 \in Bytes
    BY <2>2, <2>3, DamagedByte
  <2>5. damaged \in Seq(Bytes) /\ Len(damaged) = Len(frame)
    BY <2>1, <2>2, <2>4, ExceptSeq
  <2> QED
    BY <2>1, <2>2, <2>5
<1> QED
  BY <1>1, <1>2 DEF Damaged

\* The replies that Received is about.
LEMMA RepliesOf ==
    ASSUME NEW c \in Commands, NEW rsp \in DOMAIN Received[c]
    PROVE  /\ rsp \in Replies(c) /\ rsp \in Seq(Bytes)
           /\ Len(rsp) \in 1 .. PN532_MAX_PAYLOAD_LEN - 1 /\ Len(rsp) < PN532_MAX_PAYLOAD_LEN
           /\ Received[c][rsp] = Parses(Damaged(ReplyFrame(rsp)), c)
           /\ Retried[c][rsp] = Parses({ReplyFrame(rsp), Headless(ReplyFrame(rsp))}, c)
<1>1. /\ rsp \in {r \in Replies(c) : Len(r) < PN532_MAX_PAYLOAD_LEN}
      /\ Received[c][rsp] = Parses(Damaged(ReplyFrame(rsp)), c)
      /\ Retried[c][rsp] = Parses({ReplyFrame(rsp), Headless(ReplyFrame(rsp))}, c)
  BY DEF Received, Retried
<1>2. rsp \in Seq(Bytes) /\ Len(rsp) \in Nat /\ Len(rsp) >= 1
  BY <1>1, ReplyBytes
<1>3. Len(rsp) < 265
  BY <1>1, SizesDef
<1>4. PN532_MAX_PAYLOAD_LEN - 1 = 264
  BY SizesDef
<1>5. Len(rsp) \in 1 .. 264
  <2>1. \A n \in Nat : n >= 1 /\ n < 265 => n \in 1 .. 264
    OBVIOUS
  <2> QED
    BY <1>2, <1>3, <2>1, Zenon
<1> QED
  BY <1>1, <1>2, <1>4, <1>5

\* DamageIsNoticed, of a reply to a command.
LEMMA OtherDamageIsNoticed ==
    ASSUME NEW c \in Commands, NEW rsp \in Seq(Bytes),
           Len(rsp) \in 1 .. PN532_MAX_PAYLOAD_LEN - 1, NEW pad \in Pads,
           NEW k \in 1 .. Len(ReplyFrame(rsp)), k \notin {2, 3}, NEW d \in Damages
    PROVE  LET parsed == pn532_parse_frame(OverRead(DamagedReply(rsp, k, d), pad), RspSize[c])
           IN  parsed.err = "OK" => parsed.data = rsp
<1>1. pad \in Bytes /\ d \in 1 .. 255
  BY DamagesAssumption
<1>2. RspSize[c] \in Nat
  BY SizeFits
<1>3. ASSUME NEW size \in Nat, NEW b \in Bytes, NEW e \in 1 .. 255
      PROVE  LET parsed == pn532_parse_frame(OverRead(DamagedReply(rsp, k, e), b), size)
             IN  parsed.err = "OK" => parsed.data = rsp
  BY DamageIsNoticed
<1> QED
  BY <1>1, <1>2, <1>3

\* What a resync leaves of a frame is still bytes, and no more of them.
LEMMA HeadlessBytes ==
    ASSUME NEW frame \in Seq(Bytes), Len(frame) >= 3
    PROVE  Headless(frame) \in Seq(Bytes) /\ Len(Headless(frame)) <= Len(frame)
<1>1. Len(frame) \in Nat
  BY LenProperties
<1>2. \A i \in 4 .. Len(frame) : frame[i] \in Bytes
  <2>1. \A i \in 4 .. Len(frame) : i \in 1 .. Len(frame)
    BY <1>1
  <2> QED
    BY <2>1, ElementOfSeq
<1> QED
  BY <1>1, <1>2, SubSeqProperties DEF Headless

\* What may come of a reply is a well-formed result, and, if damage to the start
\* code is noticed, an error or the reply.
LEMMA ReceivedParses ==
    ASSUME NEW c \in Commands, NEW rsp \in DOMAIN Received[c],
           NEW parsed \in Received[c][rsp] \cup Retried[c][rsp]
    PROVE  /\ IsParsed(parsed)
           /\ DataIsNoFrame /\ parsed.err = "OK" => parsed.data = rsp
<1> DEFINE f == ReplyFrame(rsp)
<1>1. /\ rsp \in Replies(c) /\ rsp \in Seq(Bytes)
      /\ Len(rsp) \in 1 .. PN532_MAX_PAYLOAD_LEN - 1 /\ Len(rsp) < PN532_MAX_PAYLOAD_LEN
      /\ Received[c][rsp] = Parses(Damaged(f), c)
      /\ Retried[c][rsp] = Parses({f, Headless(f)}, c)
  BY RepliesOf
<1>2. f \in Seq(Bytes) /\ Len(f) >= 3 /\ Len(f) <= PN532_RX_BUF_SIZE - 1
  BY <1>1, ReplyFits
<1> HIDE DEF f
<1>3. PICK g \in Damaged(f) \cup {Headless(f)}, pad \in Pads :
         parsed = pn532_parse_frame(OverRead(g, pad), RspSize[c])
  BY <1>1 DEF Parses, Damaged
<1>4. pad \in Bytes
  BY DamagesAssumption
<1>8. CASE g = Headless(f)
  <2>1. g \in Seq(Bytes) /\ Len(g) <= PN532_RX_BUF_SIZE - 1
    <3>1. Len(f) \in Nat /\ Len(g) \in Nat /\ g \in Seq(Bytes) /\ Len(g) <= Len(f)
      BY <1>2, <1>8, HeadlessBytes, LenProperties
    <3>2. PN532_RX_BUF_SIZE - 1 \in Nat
      BY DEF PN532_RX_BUF_SIZE, PN532_MAX_PAYLOAD_LEN
    <3>3. \A a, b, m \in Nat : a <= b /\ b <= m => a <= m
      OBVIOUS
    <3> QED
      BY <1>2, <3>1, <3>2, <3>3, Zenon
  <2>2. rsp \in {r \in Replies(c) : Len(r) < PN532_MAX_PAYLOAD_LEN}
    BY <1>1
  <2>3. DataIsNoFrame =>
           LET p == pn532_parse_frame(OverRead(Headless(ReplyFrame(rsp)), pad), RspSize[c])
           IN  p.err = "OK" => p.data = rsp
    BY <2>2, Zenon DEF DataIsNoFrame, HeadlessIsNoticed
  <2>4. parsed = pn532_parse_frame(OverRead(Headless(ReplyFrame(rsp)), pad), RspSize[c])
    BY <1>3, <1>8, Zenon DEF f
  <2>5. IsParsed(parsed)
    BY <1>3, <1>4, <2>1, EveryReadParses
  <2> QED
    BY <2>3, <2>4, <2>5, Zenon
<1> SUFFICES ASSUME g # Headless(f)
             PROVE  /\ IsParsed(parsed)
                    /\ DataIsNoFrame /\ parsed.err = "OK" => parsed.data = rsp
  BY <1>8
<1>5. g \in Seq(Bytes) /\ Len(g) = Len(f)
      /\ (g = f \/ \E k \in 1 .. Len(f), d \in Damages : g = [f EXCEPT ![k] = (@ + d) % 256])
  BY <1>2, DamagedBytes
<1>6. IsParsed(parsed)
  <2>1. Len(g) <= PN532_RX_BUF_SIZE - 1
    BY <1>2, <1>5, Zenon
  <2> QED
    BY <1>3, <1>4, <1>5, <2>1, EveryReadParses
<1>7. ASSUME DataIsNoFrame, parsed.err = "OK"
      PROVE  parsed.data = rsp
  <2>1. RspSize[c] \in Nat
    BY CodesDef
  <2>2. CASE g = f
    <3>1. parsed = IF Len(rsp) <= RspSize[c] THEN [err |-> "OK", data |-> rsp]
                                  ELSE [err |-> "INVALID_SIZE", data |-> <<>>]
      BY <1>1, <1>3, <1>4, <2>1, <2>2, ResponsesArrive, Zenon DEF f
    <3> QED
      BY <1>7, <3>1
  <2>3. CASE g # f
    <3>1. PICK k \in 1 .. Len(f), d \in Damages : g = [f EXCEPT ![k] = (@ + d) % 256]
      BY <1>5, <2>3
    <3>2. CASE k \in {2, 3}
      <4>1. rsp \in {r \in Replies(c) : Len(r) < PN532_MAX_PAYLOAD_LEN}
        BY <1>1
      <4>2. LET p == pn532_parse_frame(OverRead(DamagedReply(rsp, k, d), pad), RspSize[c])
            IN  p.err = "OK" => p.data = rsp
        BY <1>7, <3>2, <4>1, Zenon DEF DataIsNoFrame, StartDamageIsNoticed
      <4>3. parsed = pn532_parse_frame(OverRead(DamagedReply(rsp, k, d), pad), RspSize[c])
        BY <1>3, <3>1, Zenon DEF f, DamagedReply
      <4> QED
        BY <1>7, <4>2, <4>3, Zenon
    <3>3. CASE k \notin {2, 3}
      <4>1. d \in 1 .. 255
        BY DamagesAssumption
      <4>2. k \in 1 .. Len(ReplyFrame(rsp))
        BY <3>1 DEF f
      <4>3. LET p == pn532_parse_frame(OverRead(DamagedReply(rsp, k, d), pad), RspSize[c])
            IN  p.err = "OK" => p.data = rsp
        BY <1>1, <3>3, <4>2, OtherDamageIsNoticed, Zenon
      <4>4. parsed = pn532_parse_frame(OverRead(DamagedReply(rsp, k, d), pad), RspSize[c])
        BY <1>3, <3>1, Zenon DEF f, DamagedReply
      <4> QED
        BY <1>7, <4>3, <4>4, Zenon
    <3> QED
      BY <3>2, <3>3
  <2> QED
    BY <2>2, <2>3
<1> QED
  BY <1>6, <1>7

\* The errors a command finds in a response.
CommandErrors == {"FAIL", "TIMEOUT", "LINK_RELEASED", "FRAME_INTEGRITY"}

\* What a command makes of a response.
LEMMA EvaluateIs ==
    ASSUME NEW c \in Commands, NEW rsp
    PROVE  Evaluate(c, rsp) \in {"OK"} \cup CommandErrors
BY CommandsDef DEF Evaluate, CommandErrors, OkIf, pn532_get_firmware_version,
   pn532_sam_configuration, pn532_set_parameters, pn532_tg_init_as_target,
   pn532_tg_get_target_status, pn532_tg_get_data, lli_receive_status, pn532_tg_set_data,
   pn532_tg_get_initiator_command, pn532_tg_response_to_initiator, pn532_tg_set_meta_data

\* A response a command is content with is its own.
LEMMA OkAnswers ==
    ASSUME NEW c \in Commands, NEW rsp, Evaluate(c, rsp) = "OK"
    PROVE  /\ rsp[1] = Code[c] + 1
           /\ c \in Readers => Len(rsp) >= 2
           /\ c \in Writers \cup (Readers \ {"TgGetData"}) => rsp[2] = 0
           /\ c = "GetFirmwareVersion" => rsp[2] = 50
           /\ c = "TgGetData" => rsp[2] % 64 = 0
BY CommandsDef DEF Evaluate, OkIf, Answers, Readers, Writers, PN532_TG_STATUS_ERR_MASK,
   pn532_get_firmware_version,
   pn532_sam_configuration, pn532_set_parameters, pn532_tg_init_as_target,
   pn532_tg_get_target_status, pn532_tg_get_data, lli_receive_status, pn532_tg_set_data,
   pn532_tg_get_initiator_command, pn532_tg_response_to_initiator, pn532_tg_set_meta_data

\* A reply a command is content with does say that the command was done.
LEMMA OkIsPositive ==
    ASSUME NEW c \in Commands, NEW rsp \in Replies(c), Evaluate(c, rsp) = "OK"
    PROVE  Positive(c, rsp)
<1>1. CASE c = "TgGetData"
  <2>1. rsp[2] \in {0, 1, 11, 41, 2, 64, 128} /\ rsp[2] % 64 = 0
    BY <1>1, ReplyBytes, OkAnswers DEF Statuses
  <2>2. 1 % 64 = 1 /\ 11 % 64 = 11 /\ 41 % 64 = 41 /\ 2 % 64 = 2
    OBVIOUS
  <2>3. rsp[2] \in {0, 64, 128}
    BY <2>1, <2>2
  <2> QED
    BY <1>1, <2>3 DEF Positive, Readers, Writers
<1>2. CASE c # "TgGetData"
  BY <1>2, OkAnswers DEF Positive, Readers, Writers
<1> QED
  BY <1>1, <1>2

\* The data of a response is part of it.
LEMMA DataOf ==
    ASSUME NEW c \in Commands, NEW rsp \in Seq(Bytes), c \in Readers => Len(rsp) >= 2
    PROVE  /\ DataIn(c, rsp) \in Seq(Bytes)
           /\ Len(DataIn(c, rsp)) \in Nat /\ Len(DataIn(c, rsp)) <= Len(rsp)
           /\ c \notin Readers => DataIn(c, rsp) = <<>>
<1>0. Len(rsp) \in Nat
  BY LenProperties
<1>1. CASE c \notin Readers
  <2>1. <<>> \in Seq(Bytes) /\ Len(<<>>) = 0
    OBVIOUS
  <2> QED
    BY <1>0, <1>1, <2>1 DEF DataIn
<1>2. CASE c \in Readers
  <2>1. PICK m \in {3, 4} : DataIn(c, rsp) = SubSeq(rsp, m, Len(rsp))
    BY <1>2 DEF DataIn
  <2>2. CASE m <= Len(rsp) + 1
    <3>1. /\ SubSeq(rsp, m, Len(rsp)) \in Seq(Bytes)
          /\ Len(SubSeq(rsp, m, Len(rsp))) = Len(rsp) - m + 1
      BY <1>0, <2>2, PartBytes
    <3> QED
      BY <1>0, <1>2, <2>1, <2>2, <3>1
  <2>3. CASE ~(m <= Len(rsp) + 1)
    <3>1. SubSeq(rsp, m, Len(rsp)) = <<>>
      BY <1>0, <2>3, SubSeqEmpty
    <3>2. <<>> \in Seq(Bytes) /\ Len(<<>>) = 0
      OBVIOUS
    <3> QED
      BY <1>0, <1>2, <2>1, <3>1, <3>2
  <2> QED
    BY <2>2, <2>3
<1> QED
  BY <1>1, <1>2

\* The error frame is none that a command takes data from.
LEMMA ErrorFrameFails ==
    ASSUME NEW pad \in Bytes, NEW size \in Nat
    PROVE  pn532_parse_frame(OverRead(ErrorFrame, pad), size).err # "OK"
<1> DEFINE raw == OverRead(ErrorFrame, pad)
           buf == Tail(raw)
           off == pn532_find_start(buf)
           body == off + FieldSize(buf, off)
<1>1. ErrorFrame \in Seq(Bytes) /\ Len(ErrorFrame) = 8 /\ Len(ErrorFrame) <= PN532_RX_BUF_SIZE - 1
      /\ ErrorFrame[2] = 0 /\ ErrorFrame[3] = 255 /\ ErrorFrame[4] = 1 /\ ErrorFrame[6] = 127
  BY DEF ErrorFrame, Bytes, PN532_RX_BUF_SIZE, PN532_MAX_PAYLOAD_LEN
<1>2. /\ buf \in Seq(Bytes) /\ Len(buf) = PN532_RX_BUF_SIZE - 1
      /\ \A i \in 1 .. Len(ErrorFrame) : buf[i] = ErrorFrame[i]
  <2>1. ErrorFrame \in Seq(Bytes) /\ Len(ErrorFrame) <= PN532_RX_BUF_SIZE - 1
    BY <1>1
  <2> QED
    BY <2>1, ReadIsReadOf, Zenon
<1>3. buf[2] = 0 /\ buf[3] = 255 /\ buf[4] = 1 /\ buf[6] = 127
  BY <1>1, <1>2
<1>4. off = 4
  BY <1>2, <1>3, StartFound
<1> HIDE DEF buf, off
<1>5. Len(buf) >= 5
  <2>1. PN532_RX_BUF_SIZE - 1 >= 5
    BY DEF PN532_RX_BUF_SIZE, PN532_MAX_PAYLOAD_LEN
  <2> QED
    BY <1>2, <2>1, Zenon
<1>6. FieldSize(buf, 4) = 2
  BY <1>2, <1>3, <1>5, FieldRead
<1>7. buf[body] # PN532_TFI_PN532_TO_HOST
  BY <1>3, <1>4, <1>6 DEF PN532_TFI_PN532_TO_HOST
<1>8. pn532_parse_frame(raw, size).err = "OK" => buf[body] = PN532_TFI_PN532_TO_HOST
  BY ParsedOk DEF buf, off
<1> QED
  BY <1>7, <1>8

\* The answer to another command is refused.
LEMMA StaleReplyFails ==
    ASSUME NEW c \in Commands, NEW parsed,
           parsed.err = "OK" => parsed.data = StaleReply(c)
    PROVE  parsed.err = "OK" => Evaluate(c, parsed.data) # "OK"
<1>1. StaleReply(c)[1] = IF c = "TgSetData" THEN 135 ELSE 143
  BY DEF StaleReply, Code
<1>2. Code[c] + 1 # IF c = "TgSetData" THEN 135 ELSE 143
  BY CommandsDef DEF Code
<1> QED
  BY <1>1, <1>2, OkAnswers

\* So no response that is not to this command is accepted (ReceiveUnrelated).
LEMMA UnrelatedFails ==
    ASSUME NEW c \in Commands, NEW parsed \in Unrelated[c]
    PROVE  /\ IsParsed(parsed)
           /\ parsed.err = "OK" => Evaluate(c, parsed.data) # "OK"
<1> DEFINE rsp == StaleReply(c)
           f == ReplyFrame(rsp)
<1>1. rsp \in Seq(Bytes) /\ Len(rsp) = 2
  BY DEF StaleReply, Code, Bytes
<1>2. Len(rsp) \in 1 .. PN532_MAX_PAYLOAD_LEN - 1
  BY <1>1 DEF PN532_MAX_PAYLOAD_LEN
<1>3. PICK g \in {ErrorFrame, f}, pad \in Pads :
         parsed = pn532_parse_frame(OverRead(g, pad), RspSize[c])
  BY DEF Unrelated, Parses
<1>4. pad \in Bytes /\ RspSize[c] \in Nat
  BY DamagesAssumption, SizeFits
<1> HIDE DEF rsp
<1>5. f \in Seq(Bytes) /\ Len(f) <= PN532_RX_BUF_SIZE - 1
  BY <1>1, <1>2, ReplyFits
<1> HIDE DEF f
<1>6. CASE g = f
  <2>1. IsParsed(parsed)
    BY <1>3, <1>4, <1>5, <1>6, EveryReadParses
  <2>2. parsed = IF Len(rsp) <= RspSize[c] THEN [err |-> "OK", data |-> rsp]
                                  ELSE [err |-> "INVALID_SIZE", data |-> <<>>]
    BY <1>1, <1>2, <1>3, <1>4, <1>6, ResponsesArrive, Zenon DEF f
  <2>3. parsed.err = "OK" => parsed.data = rsp
    BY <2>2
  <2> QED
    BY <2>1, <2>3, StaleReplyFails DEF rsp
<1>7. CASE g = ErrorFrame
  <2>1. ErrorFrame \in Seq(Bytes) /\ Len(ErrorFrame) <= PN532_RX_BUF_SIZE - 1
    BY DEF ErrorFrame, Bytes, PN532_RX_BUF_SIZE, PN532_MAX_PAYLOAD_LEN
  <2>2. IsParsed(parsed)
    BY <1>3, <1>4, <1>7, <2>1, EveryReadParses
  <2>3. parsed.err # "OK"
    BY <1>3, <1>4, <1>7, ErrorFrameFails
  <2> QED
    BY <2>2, <2>3
<1> QED
  BY <1>3, <1>6, <1>7

\* The results of a call; those of a call that failed for no error of the bus; the
\* errors behind them.
Results == {"NONE", "OK", "FAIL", "TIMEOUT", "INTERNAL", "BUS_FATAL", "FRAME_INTEGRITY",
            "LINK_RELEASED", "SEND_FAILED", "ACTIVE", "RELEASED", "ERROR", "INVALID_CRC",
            "INVALID_SIZE", "INVALID_STATE", "INVALID_ARG", "INVALID_RESPONSE"}
Failures == Results \ {"NONE", "OK", "BUS_FATAL", "INVALID_STATE"}
Errors == CommandErrors \cup ParserErrors \cup {"INVALID_ARG"}

\* An error stays one, and only the wedged bus is fatal.
LEMMA ErrorIsFailure ==
    ASSUME NEW err \in Errors, NEW receiving
    PROVE  ResultOf(err, receiving) \in Failures
BY DEF Errors, CommandErrors, ParserErrors, Failures, Results, ResultOf, lli_err_from_esp

\* The transport's errors stay errors, and only the wedged bus is fatal.
LEMMA DriverErrorIsFailure ==
    ASSUME NEW err \in DriverErrors, NEW receiving
    PROVE  /\ ResultOf(err, receiving) \in Results \ {"NONE", "OK"}
           /\ ResultOf(err, receiving) = "BUS_FATAL" => err = "INVALID_STATE"
           /\ err = "INVALID_STATE"
                => ResultOf(err, receiving) \in {"BUS_FATAL", "INVALID_STATE", "ERROR"}
BY DEF DriverErrors, Results, ResultOf, lli_err_from_esp

\* The outcomes of a response: the call fails, or goes on with the next fragment or the
\* next command, or ends.
Fails ==
    /\ todo' = <<>> /\ wire' = <<>> /\ ret' \in Failures
    /\ UNCHANGED <<call, arg, out>>
\* The response has more to come.
NextFragment(data) ==
    /\ Head(todo) = "TgGetData" /\ Accumulates(data)
    /\ out' = out \o data /\ wire' = <<>>
    /\ UNCHANGED <<call, arg, todo, ret>>
\* The script goes on.
NextCommand ==
    /\ Len(todo) > 1
    /\ todo' = Tail(todo) /\ wire' = <<>>
    /\ UNCHANGED <<call, arg, out, ret>>
\* The call has come to its end.
Ends(data) ==
    /\ ~(Len(todo) > 1) /\ Accumulates(data)
    /\ out' = out \o data /\ todo' = <<>> /\ wire' = <<>>
    /\ ret' \in {"OK", "ACTIVE", "RELEASED", "ERROR"}
    /\ UNCHANGED <<call, arg>>
\* One of the three.
Goes(data) == NextFragment(data) \/ NextCommand \/ Ends(data)

\* Those are all the outcomes of Take.
LEMMA TakeIs ==
    ASSUME NEW parsed, IsParsed(parsed), Head(todo) \in Commands, Take(parsed)
    PROVE  \/ Fails
           \/ /\ parsed.err = "OK" /\ Evaluate(Head(todo), parsed.data) = "OK"
              /\ Goes(DataIn(Head(todo), parsed.data))
<1> DEFINE c == Head(todo)
           rsp == parsed.data
           err == IF parsed.err = "OK" THEN Evaluate(c, rsp) ELSE parsed.err
           data == DataIn(c, rsp)
<1>1. err = "OK" \/ err \in Errors
  BY EvaluateIs DEF IsParsed, Errors
<1>2. CASE err # "OK"
  <2>1. Return(ResultOf(err, TRUE)) /\ UNCHANGED out
    BY <1>2 DEF Take
  <2>2. ResultOf(err, TRUE) \in Failures
    BY <1>1, <1>2, ErrorIsFailure
  <2> QED
    BY <2>1, <2>2 DEF Return, Fails
<1>3. CASE err = "OK"
  <2>1. parsed.err = "OK" /\ Evaluate(c, rsp) = "OK"
    BY <1>3 DEF IsParsed, ParserErrors
  <2>2. Accept(c, rsp)
    BY <1>3, <2>1 DEF Take
  <2>3. ResultOf("INVALID_SIZE", TRUE) \in Failures
    BY ErrorIsFailure DEF Errors, ParserErrors
  <2>4. MoreInformation(c, rsp) => c = "TgGetData"
    BY DEF MoreInformation
  <2>5. LinkStatus(rsp[2]) \in {"ACTIVE", "RELEASED", "ERROR"}
    BY DEF LinkStatus
  <2> HIDE DEF c, rsp, data
  <2>6. Fails \/ Goes(data)
    <3>1. CASE ~Accumulates(data)
      BY <2>2, <2>3, <3>1 DEF Accept, Return, Fails, data
    <3>2. CASE Accumulates(data) /\ MoreInformation(c, rsp)
      BY <2>2, <2>4, <3>2 DEF Accept, Goes, NextFragment, data, c
    <3>3. CASE Accumulates(data) /\ ~MoreInformation(c, rsp) /\ Len(todo) > 1
      BY <2>2, <3>3 DEF Accept, Goes, NextCommand, data
    <3>4. CASE Accumulates(data) /\ ~MoreInformation(c, rsp) /\ ~(Len(todo) > 1)
      <4>1. CASE Len(out \o data) > BufLen /\ c \in Readers
        BY <2>2, <2>3, <3>4, <4>1 DEF Accept, Return, Fails, data
      <4>2. CASE ~(Len(out \o data) > BufLen /\ c \in Readers)
        BY <2>2, <2>5, <3>4, <4>2 DEF Accept, Return, Goes, Ends, data
      <4> QED
        BY <4>1, <4>2
    <3> QED
      BY <3>1, <3>2, <3>3, <3>4
  <2> QED
    BY <2>1, <2>6 DEF c, rsp, data
<1> QED
  BY <1>2, <1>3

-----------------------------------------------------------------------------
(***************************************************************************)
(* The inductive invariant                                                 *)
(***************************************************************************)

\* What is left of a call is the end of its script.
ScriptInv ==
    /\ call \in Calls \cup {"none"}
    /\ todo \in Seq(Commands)
    /\ arg \in Seq(Bytes)
    /\ call = "lli_activate" => arg \in History
    /\ todo # <<>> =>
          /\ call \in Calls
          /\ Len(todo) <= Len(Script[call])
          /\ \A i \in 1 .. Len(todo) :
                todo[i] = Script[call][Len(Script[call]) - Len(todo) + i]

\* The frame on the wire is the current command's, and only a chained response
\* gathers data before the end.
ExchangeInv ==
    /\ out \in Seq(Bytes)
    /\ Len(out) <= PN532_MAX_PAYLOAD_LEN
    /\ todo # <<>> /\ call # "pn532_tg_get_data" => out = <<>>
    /\ todo = <<>> => wire = <<>>
    /\ wire # <<>> => LET params == Params(Head(todo), arg)
                      IN  /\ Refused(Head(todo), params) = "OK"
                          /\ wire = pn532_build_frame(Code[Head(todo)], params)

\* A call that still runs has met no error.
ResultInv ==
    /\ ret \in Results
    /\ fault \in DriverErrors \cup {"NONE"}
    /\ todo # <<>> => ret = "NONE" /\ fault = "NONE"
    /\ FatalIsBus

\* The configuration that lli_activate has sent is in force until a reset.
ConfigurationInv ==
    /\ chip \subseteq Configuration
    /\ call = "lli_activate" /\ todo # <<>> /\ ~reset =>
          /\ Len(todo) < 3 \/ wire # <<>> => "SAMConfiguration" \in chip
          /\ Len(todo) < 2 \/ (Len(todo) = 2 /\ wire # <<>>) => "SetParameters" \in chip

\* The inductive invariant.
Inv == ScriptInv /\ ExchangeInv /\ ResultInv /\ ConfigurationInv

\* Where in its script a call is that has n commands to go.
LEMMA Places ==
    ASSUME NEW l \in {1, 3}, NEW n \in Nat, n > 0, n <= l
    PROVE  /\ l - n + 1 \in 1 .. l /\ n \in {1, 2, 3}
           /\ l = 1 => n = 1
           /\ l - n + 1 = 3 => n = 1
           /\ l = 3 => (n = 3 => l - n + 1 = 1) /\ (n = 2 => l - n + 1 = 2)
OBVIOUS

\* The current command, and its place in the script.
LEMMA Current ==
    ASSUME ScriptInv, todo # <<>>
    PROVE  /\ Head(todo) \in Commands
           /\ Len(todo) \in {1, 2, 3} /\ Len(Script[call]) \in {1, 3}
           /\ Len(Script[call]) = 1 => Len(todo) = 1
           /\ Head(todo) = Script[call][Len(Script[call]) - Len(todo) + 1]
           /\ Head(todo) = "TgGetData" <=> call = "pn532_tg_get_data"
           /\ Head(todo) \in Readers => Len(Script[call]) = 1 /\ Len(todo) = 1
           /\ Head(todo) = "TgInitAsTarget"
                => call = "lli_activate" /\ Len(todo) = 1 /\ Len(arg) <= 47
           /\ call = "lli_activate" => /\ Len(todo) = 3 => Head(todo) = "SAMConfiguration"
                                       /\ Len(todo) = 2 => Head(todo) = "SetParameters"
<1> DEFINE L == Len(Script[call])
           place == L - Len(todo) + 1
<1>1. /\ call \in Calls /\ todo \in Seq(Commands) /\ Len(todo) <= L
      /\ \A i \in 1 .. Len(todo) : todo[i] = Script[call][L - Len(todo) + i]
  BY DEF ScriptInv
<1>2. Len(todo) \in Nat /\ Len(todo) > 0 /\ Head(todo) = todo[1]
  BY <1>1, LenProperties, EmptySeq
<1>3. /\ L \in {1, 3}
      /\ call \in {"lli_init", "lli_activate"} <=> L = 3
      /\ \A i \in 1 .. L :
            /\ Script[call][i] \in Commands
            /\ Script[call][i] = "TgGetData" <=> call = "pn532_tg_get_data"
            /\ Script[call][i] \in Readers => L = 1
            /\ Script[call][i] = "TgInitAsTarget" => call = "lli_activate" /\ i = 3
      /\ call = "lli_activate"
            => Script[call][1] = "SAMConfiguration" /\ Script[call][2] = "SetParameters"
  BY <1>1, ScriptShape
<1> HIDE DEF L
<1>4. place \in 1 .. L /\ Len(todo) \in {1, 2, 3} /\ (L = 1 => Len(todo) = 1)
  BY <1>1, <1>2, <1>3, Places, Zenon
<1>5. Head(todo) = Script[call][place]
  BY <1>1, <1>2
<1>6. Head(todo) = "TgInitAsTarget" => call = "lli_activate" /\ place = 3
  BY <1>3, <1>4, <1>5
<1>7. call = "lli_activate" => Len(arg) <= 47
  <2>1. \A bytes \in History : Len(bytes) <= 47
    BY PayloadsAssumption DEF PN532_TG_MAX_GTK_LEN
  <2> QED
    BY <2>1 DEF ScriptInv
<1>8. place = 3 => Len(todo) = 1
  BY <1>1, <1>2, <1>3, Places, Zenon
<1>9. L = 3 => (Len(todo) = 3 => place = 1) /\ (Len(todo) = 2 => place = 2)
  BY <1>1, <1>2, <1>3, Places, Zenon
<1> QED
  BY <1>3, <1>4, <1>5, <1>6, <1>7, <1>8, <1>9 DEF L

\* The commands after the current one.
LEMMA RestOfScript ==
    ASSUME ScriptInv, Len(todo) > 1, todo' = Tail(todo), UNCHANGED <<call, arg>>
    PROVE  ScriptInv' /\ Len(todo') = Len(todo) - 1 /\ todo # <<>>
<1> DEFINE L == Len(Script[call])
           rest == Tail(todo)
<1>1. todo \in Seq(Commands)
  BY DEF ScriptInv
<1>2. Len(todo) \in Nat /\ todo # <<>>
  BY <1>1, LenProperties, EmptySeq
<1>3. /\ call \in Calls /\ Len(todo) <= L
      /\ \A i \in 1 .. Len(todo) : todo[i] = Script[call][L - Len(todo) + i]
  BY <1>2 DEF ScriptInv
<1>4. /\ rest \in Seq(Commands) /\ Len(rest) = Len(todo) - 1
      /\ \A i \in 1 .. Len(rest) : rest[i] = todo[i + 1]
  BY <1>1, <1>2, HeadTailProperties
<1>5. L \in {1, 3}
  BY <1>3, ScriptShape
<1> HIDE DEF L, rest
<1>6. Len(rest) <= L
  BY <1>2, <1>3, <1>4, <1>5
<1>7. \A i \in 1 .. Len(rest) : rest[i] = Script[call][L - Len(rest) + i]
  <2> TAKE i \in 1 .. Len(rest)
  <2>1. i + 1 \in 1 .. Len(todo) /\ L - Len(todo) + (i + 1) = L - Len(rest) + i
    BY <1>2, <1>4, <1>5
  <2> QED
    BY <1>3, <1>4, <2>1
<1>8. todo' = rest
  BY DEF rest
<1> QED
  BY <1>2, <1>3, <1>4, <1>6, <1>7, <1>8 DEF ScriptInv, L

\* The shapes of the steps, without the histories.
Aborts ==
    /\ todo # <<>>
    /\ todo' = <<>> /\ wire' = <<>>
    /\ ret' \in Results \ {"NONE", "OK"} /\ fault' \in DriverErrors \cup {"NONE"}
    /\ FatalIsBus'
    /\ chip' \subseteq Configuration
    /\ UNCHANGED <<call, arg, out>>
\* The frame of the current command goes out.
Sends ==
    /\ todo # <<>> /\ wire = <<>>
    /\ LET params == Params(Head(todo), arg)
       IN  /\ Refused(Head(todo), params) = "OK"
           /\ wire' = pn532_build_frame(Code[Head(todo)], params)
    /\ Configure(Head(todo))
    /\ UNCHANGED <<callVars, fault, reset>>
\* A response the current command is content with comes in.
Accepts(data) ==
    /\ wire # <<>> /\ todo # <<>>
    /\ data \in Seq(Bytes) /\ Len(data) <= 265
    /\ Head(todo) \notin Readers => data = <<>>
    /\ Goes(data)
    /\ UNCHANGED <<chip, reset, fault>>

\* The chip holds nothing but configuration commands.
LEMMA ConfigureIs ==
    ASSUME NEW c, chip \subseteq Configuration, Configure(c)
    PROVE  chip' \subseteq Configuration
BY DEF Configure, Configuration

\* Sending ends the call or puts the frame on the wire.
LEMMA SendIs ==
    ASSUME Inv, Send
    PROVE  Aborts \/ Sends
<1> DEFINE c == Head(todo)
           params == Params(c, arg)
           refused == Refused(c, params)
<1>1. /\ todo # <<>> /\ wire = <<>> /\ UNCHANGED <<out, reset, answer, done>>
      /\ fault = "NONE" /\ chip \subseteq Configuration
  BY DEF Send, Inv, ResultInv, ConfigurationInv
<1>2. refused \in {"INVALID_SIZE", "INVALID_ARG", "OK"}
  BY DEF Refused
<1>3. CASE refused # "OK"
  <2>1. Return(ResultOf(refused, FALSE)) /\ UNCHANGED <<chip, fault>>
    BY <1>3 DEF Send
  <2>2. ResultOf(refused, FALSE) \in Failures
    BY <1>2, <1>3, ErrorIsFailure DEF Errors, ParserErrors
  <2> QED
    BY <1>1, <2>1, <2>2 DEF Return, Aborts, FatalIsBus, Failures, Results
<1>4. CASE refused = "OK"
  <2>1. \/ /\ wire' = pn532_build_frame(Code[c], params)
           /\ UNCHANGED <<call, arg, todo, ret, fault>>
           /\ Configure(c)
        \/ /\ Return(ResultOf("FAIL", FALSE)) /\ fault' = "FAIL"
           /\ Configure(c)
        \/ \E e \in DriverErrors : /\ Return(ResultOf(e, FALSE)) /\ fault' = e
                                   /\ chip' = chip \/ Configure(c)
    BY <1>4 DEF Send
  <2>2. CASE /\ wire' = pn532_build_frame(Code[c], params)
             /\ UNCHANGED <<call, arg, todo, ret, fault>>
             /\ Configure(c)
    BY <1>1, <1>4, <2>2 DEF Sends, callVars
  <2>3. CASE \E e \in DriverErrors : /\ Return(ResultOf(e, FALSE)) /\ fault' = e
                                     /\ chip' = chip \/ Configure(c)
    <3>1. PICK e \in DriverErrors : /\ Return(ResultOf(e, FALSE)) /\ fault' = e
                                    /\ chip' = chip \/ Configure(c)
      BY <2>3
    <3>2. chip' \subseteq Configuration
      BY <1>1, <3>1, ConfigureIs
    <3>3. /\ ResultOf(e, FALSE) \in Results \ {"NONE", "OK"}
          /\ ResultOf(e, FALSE) = "BUS_FATAL" => e = "INVALID_STATE"
          /\ e = "INVALID_STATE"
                => ResultOf(e, FALSE) \in {"BUS_FATAL", "INVALID_STATE", "ERROR"}
      BY DriverErrorIsFailure
    <3> QED
      BY <1>1, <3>1, <3>2, <3>3 DEF Return, Aborts, FatalIsBus
  <2>4. CASE Return(ResultOf("FAIL", FALSE)) /\ fault' = "FAIL" /\ Configure(c)
    <3>1. chip' \subseteq Configuration
      BY <1>1, <2>4, ConfigureIs
    <3>2. ResultOf("FAIL", FALSE) \in Failures
      BY ErrorIsFailure DEF Errors, ParserErrors
    <3> QED
      BY <1>1, <2>4, <3>1, <3>2 DEF Return, Aborts, FatalIsBus, Failures, Results, DriverErrors
  <2> QED
    BY <2>1, <2>2, <2>3, <2>4
<1> QED
  BY <1>3, <1>4

\* A response is taken, or the call fails.
LEMMA TakeOutcome ==
    ASSUME Inv, wire # <<>>, NEW parsed, IsParsed(parsed), Take(parsed),
           UNCHANGED <<chip, reset, fault>>
    PROVE  \/ Aborts
           \/ /\ parsed.err = "OK" /\ Evaluate(Head(todo), parsed.data) = "OK"
              /\ Accepts(DataIn(Head(todo), parsed.data))
<1>1. todo # <<>> /\ fault = "NONE" /\ chip \subseteq Configuration /\ ScriptInv
  BY DEF Inv, ExchangeInv, ResultInv, ConfigurationInv
<1>2. Head(todo) \in Commands
  BY <1>1, Current
<1>3. CASE Fails
  BY <1>1, <1>3 DEF Fails, Aborts, Failures, Results, FatalIsBus
<1>4. CASE /\ parsed.err = "OK" /\ Evaluate(Head(todo), parsed.data) = "OK"
           /\ Goes(DataIn(Head(todo), parsed.data))
  <2>1. /\ parsed.data \in Seq(Bytes) /\ Len(parsed.data) \in Nat /\ Len(parsed.data) <= 265
        /\ Head(todo) \in Readers => Len(parsed.data) >= 2
    BY <1>2, <1>4, OkAnswers DEF IsParsed
  <2> DEFINE data == DataIn(Head(todo), parsed.data)
  <2>2. /\ data \in Seq(Bytes) /\ Len(data) \in Nat /\ Len(data) <= Len(parsed.data)
        /\ Head(todo) \notin Readers => data = <<>>
    BY <1>2, <2>1, DataOf
  <2> HIDE DEF data
  <2>3. Len(data) <= 265
    BY <2>1, <2>2
  <2> QED
    BY <1>1, <1>4, <2>2, <2>3 DEF Accepts, data
<1> QED
  BY <1>2, <1>3, <1>4, TakeIs

\* A reply of the chip, or the answer to another command, which is refused.
LEMMA ReceiveIs ==
    ASSUME Inv, Receive
    PROVE  \E rsp \in DOMAIN Received[Head(todo)] :
              /\ done' = IF Positive(Head(todo), rsp) THEN Append(done, ChipReads(wire)) ELSE done
              /\ answer' = answer \o (IF Positive(Head(todo), rsp) THEN DataIn(Head(todo), rsp)
                                                                   ELSE <<>>)
              /\ \E parsed \in Received[Head(todo)][rsp] \cup Retried[Head(todo)][rsp] :
                    \/ Aborts
                    \/ /\ parsed.err = "OK" /\ Evaluate(Head(todo), parsed.data) = "OK"
                       /\ Accepts(DataIn(Head(todo), parsed.data))
<1> DEFINE c == Head(todo)
<1>1. wire # <<>> /\ UNCHANGED <<chip, reset, fault>> /\ c \in Commands
  BY Current DEF Receive, Inv, ExchangeInv
<1>2. PICK rsp \in DOMAIN Received[c] :
         /\ done' = IF Positive(c, rsp) THEN Append(done, ChipReads(wire)) ELSE done
         /\ answer' = answer \o (IF Positive(c, rsp) THEN DataIn(c, rsp) ELSE <<>>)
         /\ \E first \in Received[c][rsp] :
               \/ Take(first)
               \/ first.err = "INVALID_CRC" /\ \E again \in Retried[c][rsp] : Take(again)
  BY Zenon DEF Receive
<1>3. PICK parsed \in Received[c][rsp] \cup Retried[c][rsp] : Take(parsed)
  BY <1>2
<1>4. IsParsed(parsed)
  BY <1>1, ReceivedParses
<1>5. \/ Aborts
      \/ /\ parsed.err = "OK" /\ Evaluate(c, parsed.data) = "OK"
         /\ Accepts(DataIn(c, parsed.data))
  BY <1>1, <1>3, <1>4, TakeOutcome
<1> QED
  BY <1>2, <1>5

\* What is not a reply to this command ends the call.
LEMMA UnrelatedIs ==
    ASSUME Inv, ReceiveUnrelated
    PROVE  Aborts
<1>1. wire # <<>> /\ UNCHANGED <<chip, reset, fault>> /\ Head(todo) \in Commands
  BY Current DEF ReceiveUnrelated, Inv, ExchangeInv, history
<1>2. PICK parsed \in Unrelated[Head(todo)] : Take(parsed)
  BY DEF ReceiveUnrelated
<1>3. IsParsed(parsed) /\ (parsed.err = "OK" => Evaluate(Head(todo), parsed.data) # "OK")
  BY <1>1, UnrelatedFails
<1> QED
  BY <1>1, <1>2, <1>3, TakeOutcome

\* So does an error of the transport.
LEMMA ReceiveFailsIs ==
    ASSUME Inv, ReceiveFails
    PROVE  Aborts
<1>1. todo # <<>> /\ chip \subseteq Configuration /\ UNCHANGED <<out, chip>>
  BY DEF ReceiveFails, Inv, ExchangeInv, ConfigurationInv
<1>2. PICK e \in DriverErrors : Return(ResultOf(e, TRUE)) /\ fault' = e
  BY DEF ReceiveFails
<1>3. /\ ResultOf(e, TRUE) \in Results \ {"NONE", "OK"}
      /\ ResultOf(e, TRUE) = "BUS_FATAL" => e = "INVALID_STATE"
      /\ e = "INVALID_STATE" => ResultOf(e, TRUE) \in {"BUS_FATAL", "INVALID_STATE", "ERROR"}
  BY DriverErrorIsFailure
<1> QED
  BY <1>1, <1>2, <1>3 DEF Return, Aborts, FatalIsBus

\* Every step has one of these shapes.
LEMMA StepIs ==
    ASSUME Inv, [Next]_vars
    PROVE  \/ Call
           \/ Aborts
           \/ Sends
           \/ \E data : Accepts(data)
           \/ ChipResets
           \/ UNCHANGED vars
<1>1. CASE Receive
  BY <1>1, ReceiveIs
<1> QED
  BY <1>1, SendIs, UnrelatedIs, ReceiveFailsIs DEF Next

\* A call starts with its whole script ahead and nothing gathered.
LEMMA CallIs ==
    ASSUME Inv, Call
    PROVE  Inv' /\ Len(todo') = Len(Script[call']) /\ call' \in Calls
<1>1. call' \in Calls /\ todo' = Script[call'] /\ todo = <<>> /\ UNCHANGED <<wire, chip>>
      /\ out' = <<>> /\ ret' = "NONE" /\ reset' = FALSE /\ fault' = "NONE"
  BY DEF Call
<1>2. arg' \in Seq(Bytes) /\ (call' = "lli_activate" => arg' \in History)
  <2>1. arg' \in CASE call' \in {"lli_send_apdu", "pn532_tg_response_to_initiator",
                                 "pn532_tg_set_meta_data"} -> Payloads
                   [] call' = "lli_activate" -> History
                   [] OTHER -> {<<>>}
    BY DEF Call
  <2>2. <<>> \in Seq(Bytes) /\ Payloads \subseteq Seq(Bytes) /\ History \subseteq Seq(Bytes)
    BY PayloadsAssumption
  <2>3. CASE call' \in {"lli_send_apdu", "pn532_tg_response_to_initiator",
                        "pn532_tg_set_meta_data"}
    BY <2>1, <2>2, <2>3
  <2>4. CASE call' = "lli_activate"
    BY <2>1, <2>2, <2>4
  <2>5. CASE call' \notin {"lli_send_apdu", "pn532_tg_response_to_initiator",
                           "pn532_tg_set_meta_data", "lli_activate"}
    BY <2>1, <2>2, <2>5
  <2> QED
    BY <2>3, <2>4, <2>5
<1>3. /\ todo' \in Seq(Commands) /\ Len(todo') \in {1, 3} /\ Len(todo') = Len(Script[call'])
      /\ call' = "lli_activate" => Len(todo') = 3
  BY <1>1, ScriptShape
<1>4. \A i \in 1 .. Len(todo') :
         todo'[i] = Script[call'][Len(Script[call']) - Len(todo') + i]
  <2> TAKE i \in 1 .. Len(todo')
  <2>1. Len(Script[call']) - Len(todo') + i = i
    BY <1>3
  <2> QED
    BY <1>1, <2>1
<1>5. ScriptInv'
  <2>1. Len(todo') <= Len(Script[call'])
    BY <1>3
  <2> QED
    BY <1>1, <1>2, <1>3, <1>4, <2>1 DEF ScriptInv
<1>6. wire' = <<>>
  BY <1>1 DEF Inv, ExchangeInv
<1>7. ExchangeInv'
  <2>1. <<>> \in Seq(Bytes) /\ Len(<<>>) <= PN532_MAX_PAYLOAD_LEN
    BY DEF PN532_MAX_PAYLOAD_LEN
  <2> QED
    BY <1>1, <1>6, <2>1 DEF ExchangeInv
<1>8. ResultInv'
  BY <1>1 DEF ResultInv, Results, FatalIsBus
<1>9. ConfigurationInv'
  <2>1. chip' \subseteq Configuration
    BY <1>1 DEF Inv, ConfigurationInv
  <2>2. Len(todo') = 3 => ~(Len(todo') < 3) /\ ~(Len(todo') < 2) /\ Len(todo') # 2
    OBVIOUS
  <2> QED
    BY <1>3, <1>6, <2>1, <2>2 DEF ConfigurationInv
<1> QED
  BY <1>1, <1>3, <1>5, <1>7, <1>8, <1>9 DEF Inv

\* A call that ends leaves nothing behind.
LEMMA AbortsKeeps ==
    ASSUME Inv, Aborts
    PROVE  Inv'
<1>1. <<>> \in Seq(Commands)
  OBVIOUS
<1> QED
  BY <1>1 DEF Inv, Aborts, ScriptInv, ExchangeInv, ResultInv, ConfigurationInv

\* The command that is sent is configuration in force from then on.
LEMMA SendsKeeps ==
    ASSUME Inv, Sends
    PROVE  Inv'
<1>1. UNCHANGED <<call, arg, todo, out, ret, fault, reset>> /\ todo # <<>>
  BY DEF Sends, callVars
<1>2. ScriptInv' /\ ResultInv'
  BY <1>1 DEF Inv, ScriptInv, ResultInv, FatalIsBus
<1>3. ExchangeInv'
  BY <1>1 DEF Inv, Sends, ExchangeInv
<1>4. ConfigurationInv'
  <2>1. chip' \subseteq Configuration
    BY ConfigureIs DEF Inv, ConfigurationInv, Sends
  <2>2. chip \subseteq chip' /\ (Head(todo) \in Configuration => Head(todo) \in chip')
    BY DEF Sends, Configure, Configuration
  <2>3. /\ Len(todo) \in {1, 2, 3}
        /\ call = "lli_activate" => /\ Len(todo) = 3 => Head(todo) = "SAMConfiguration"
                                    /\ Len(todo) = 2 => Head(todo) = "SetParameters"
    BY <1>1, Current DEF Inv
  <2>4. ASSUME call = "lli_activate", ~reset
        PROVE  /\ Len(todo) \in {1, 2, 3} => "SAMConfiguration" \in chip'
               /\ Len(todo) \in {1, 2} => "SetParameters" \in chip'
    <3>1. CASE Len(todo) = 3
      BY <2>2, <2>3, <2>4, <3>1 DEF Configuration
    <3>2. CASE Len(todo) = 2
      BY <1>1, <2>2, <2>3, <2>4, <3>2 DEF Inv, ConfigurationInv, Configuration
    <3>3. CASE Len(todo) = 1
      BY <1>1, <2>2, <2>4, <3>3 DEF Inv, ConfigurationInv
    <3> QED
      BY <2>3, <3>1, <3>2, <3>3
  <2> QED
    BY <1>1, <2>1, <2>3, <2>4 DEF ConfigurationInv
<1> QED
  BY <1>2, <1>3, <1>4 DEF Inv

\* A response fits what has been gathered, and the next command is the script's.
LEMMA AcceptsKeeps ==
    ASSUME Inv, NEW data, Accepts(data)
    PROVE  Inv'
<1>1. /\ wire # <<>> /\ todo # <<>> /\ data \in Seq(Bytes) /\ Len(data) <= 265
      /\ Head(todo) \notin Readers => data = <<>>
      /\ UNCHANGED <<chip, reset, fault>>
      /\ fault = "NONE" /\ ret = "NONE"
      /\ out \in Seq(Bytes) /\ Len(out) <= PN532_MAX_PAYLOAD_LEN
      /\ chip \subseteq Configuration
  BY DEF Accepts, Inv, ExchangeInv, ResultInv, ConfigurationInv
<1>2. /\ Head(todo) = "TgGetData" <=> call = "pn532_tg_get_data"
      /\ Len(todo) \in {1, 2, 3}
  BY <1>1, Current DEF Inv
<1>3. /\ out \o data \in Seq(Bytes)
      /\ Accumulates(data) => Len(out \o data) <= PN532_MAX_PAYLOAD_LEN
  <2>1. out \in Seq(Bytes) /\ data \in Seq(Bytes)
    BY <1>1
  <2>2. /\ out \o data \in Seq(Bytes) /\ Len(out \o data) = Len(out) + Len(data)
        /\ Len(out) \in Nat /\ Len(data) \in Nat
    BY <2>1, Joined, Zenon
  <2>3. CASE Head(todo) = "TgGetData"
    BY <2>2, <2>3 DEF Accumulates
  <2>4. CASE Head(todo) # "TgGetData"
    <3>1. out = <<>>
      BY <1>1, <1>2, <2>4 DEF Inv, ExchangeInv
    <3>2. Len(out) = 0
      BY <3>1
    <3>3. Len(out \o data) <= 265
      BY <1>1, <2>2, <3>2
    <3> QED
      BY <2>2, <3>3, SizesDef
  <2> QED
    BY <2>3, <2>4
<1>4. CASE NextFragment(data)
  <2>1. /\ Head(todo) = "TgGetData" /\ Accumulates(data) /\ out' = out \o data /\ wire' = <<>>
        /\ UNCHANGED <<call, arg, todo, ret>>
    BY <1>4 DEF NextFragment
  <2>2. ScriptInv' /\ ResultInv'
    BY <1>1, <2>1 DEF Inv, ScriptInv, ResultInv, FatalIsBus
  <2>3. ExchangeInv'
    BY <1>2, <1>3, <2>1 DEF ExchangeInv
  <2>4. ConfigurationInv'
    BY <1>1, <1>2, <2>1 DEF ConfigurationInv
  <2> QED
    BY <2>2, <2>3, <2>4 DEF Inv
<1>5. CASE NextCommand
  <2>1. /\ Len(todo) > 1 /\ todo' = Tail(todo) /\ wire' = <<>>
        /\ UNCHANGED <<call, arg, out, ret>>
    BY <1>5 DEF NextCommand
  <2>2. ScriptInv' /\ Len(todo') = Len(todo) - 1
    BY <2>1, RestOfScript DEF Inv
  <2>3. ExchangeInv'
    BY <1>1, <2>1 DEF Inv, ExchangeInv
  <2>4. ResultInv'
    BY <1>1, <2>1 DEF Inv, ResultInv, FatalIsBus
  <2>5. ConfigurationInv'
    <3>1. (Len(todo') < 2 => Len(todo) = 2) /\ ~(Len(todo) < 2)
          /\ (Len(todo) = 3 => ~(Len(todo') < 2))
      <4>1. \A n \in {1, 2, 3} : n > 1 =>
               (n - 1 < 2 => n = 2) /\ ~(n < 2) /\ (n = 3 => ~(n - 1 < 2))
        OBVIOUS
      <4> QED
        BY <1>2, <2>1, <2>2, <4>1, Zenon
    <3>2. call = "lli_activate" /\ ~reset => /\ "SAMConfiguration" \in chip
                                             /\ Len(todo) = 2 => "SetParameters" \in chip
      BY <1>1 DEF Inv, ConfigurationInv
    <3> QED
      BY <1>1, <2>1, <3>1, <3>2 DEF ConfigurationInv
  <2> QED
    BY <2>2, <2>3, <2>4, <2>5 DEF Inv
<1>6. CASE Ends(data)
  <2>1. /\ Accumulates(data) /\ out' = out \o data /\ todo' = <<>> /\ wire' = <<>>
        /\ ret' \in {"OK", "ACTIVE", "RELEASED", "ERROR"}
        /\ UNCHANGED <<call, arg>>
    BY <1>6 DEF Ends
  <2>2. <<>> \in Seq(Commands)
    OBVIOUS
  <2>3. ScriptInv'
    BY <2>1, <2>2 DEF Inv, ScriptInv
  <2>4. ExchangeInv'
    BY <1>3, <2>1 DEF ExchangeInv
  <2>5. ResultInv'
    BY <1>1, <2>1 DEF Inv, ResultInv, Results, FatalIsBus
  <2>6. ConfigurationInv'
    BY <1>1, <2>1 DEF ConfigurationInv
  <2> QED
    BY <2>3, <2>4, <2>5, <2>6 DEF Inv
<1> QED
  BY <1>4, <1>5, <1>6 DEF Accepts, Goes

\* A reset takes the configuration, and the history says so.
LEMMA ResetKeeps ==
    ASSUME Inv, ChipResets
    PROVE  Inv'
<1>1. /\ chip' = {} /\ (reset' <=> todo # <<>>)
      /\ UNCHANGED <<call, arg, todo, out, ret, wire, fault>>
  BY DEF ChipResets, callVars
<1>2. ScriptInv' /\ ExchangeInv' /\ ResultInv'
  BY <1>1 DEF Inv, ScriptInv, ExchangeInv, ResultInv, FatalIsBus
<1>3. ConfigurationInv'
  BY <1>1 DEF ConfigurationInv
<1> QED
  BY <1>2, <1>3 DEF Inv

\* Before the first call nothing is under way.
LEMMA InitHolds == Init => Inv
<1>1. <<>> \in Seq(Commands) /\ <<>> \in Seq(Bytes) /\ Len(<<>>) <= PN532_MAX_PAYLOAD_LEN
  BY DEF PN532_MAX_PAYLOAD_LEN
<1> QED
  BY <1>1 DEF Init, Inv, ScriptInv, ExchangeInv, ResultInv, ConfigurationInv, Results, FatalIsBus

\* Inv is inductive.
LEMMA StepHolds == Inv /\ [Next]_vars => Inv'
<1> SUFFICES ASSUME Inv, [Next]_vars PROVE Inv'
  OBVIOUS
<1>1. CASE UNCHANGED vars
  BY <1>1 DEF vars, Inv, ScriptInv, ExchangeInv, ResultInv, ConfigurationInv, FatalIsBus
<1> QED
  BY <1>1, StepIs, CallIs, AbortsKeeps, SendsKeeps, AcceptsKeeps, ResetKeeps

\* What Inv says of the frames on the wire.
LEMMA FrameOnWire ==
    Inv => CommandArrives /\ Len(wire) <= PN532_TX_BUF_SIZE
<1> SUFFICES ASSUME Inv PROVE CommandArrives /\ Len(wire) <= PN532_TX_BUF_SIZE
  OBVIOUS
<1>1. CASE wire = <<>>
  BY <1>1 DEF CommandArrives, PN532_TX_BUF_SIZE, PN532_MAX_PAYLOAD_LEN
<1>2. CASE wire # <<>>
  <2> DEFINE c == Head(todo)
  <2>1. c \in Commands /\ arg \in Seq(Bytes) /\ (c = "TgInitAsTarget" => Len(arg) <= 47)
    BY <1>2, Current DEF Inv, ExchangeInv, ScriptInv
  <2>2. Refused(c, Params(c, arg)) = "OK" /\ wire = pn532_build_frame(Code[c], Params(c, arg))
    BY <1>2 DEF Inv, ExchangeInv
  <2>3. Len(wire) <= PN532_TX_BUF_SIZE /\ ChipReads(wire) = CommandOf(c, arg)
    BY <2>1, <2>2, CommandFrame
  <2> QED
    BY <2>3 DEF CommandArrives, CommandOf
<1> QED
  BY <1>1, <1>2

\* And it is enough for the three properties.
LEMMA InvImplies == Inv => CommandInv /\ CommandArrives /\ TargetIsConfigured
<1> SUFFICES ASSUME Inv PROVE CommandInv /\ CommandArrives /\ TargetIsConfigured
  OBVIOUS
<1>1. TypeOK
  <2>1. \A i \in DOMAIN todo : todo[i] \in Commands
    BY ElementOfSeq, LenProperties DEF Inv, ScriptInv
  <2>2. Len(wire) <= PN532_TX_BUF_SIZE /\ Len(out) <= PN532_MAX_PAYLOAD_LEN
    BY FrameOnWire DEF Inv, ExchangeInv
  <2>3. ret \in Results /\ chip \subseteq Configuration
        /\ fault \in DriverErrors \cup {"NONE"} /\ call \in Calls \cup {"none"}
    BY DEF Inv, ScriptInv, ResultInv, ConfigurationInv
  <2> QED
    BY <2>1, <2>2, <2>3 DEF TypeOK, Results, Configuration
<1>2. CommandInv
  BY <1>1 DEF CommandInv, Inv, ResultInv
<1>3. TargetIsConfigured
  <2> SUFFICES ASSUME wire # <<>>, Head(todo) = "TgInitAsTarget", ~reset
               PROVE  chip = {"SAMConfiguration", "SetParameters"}
    BY DEF TargetIsConfigured
  <2>1. todo # <<>>
    BY DEF Inv, ExchangeInv
  <2>2. call = "lli_activate" /\ Len(todo) = 1
    BY <2>1, Current DEF Inv
  <2>3. Len(todo) < 3 /\ Len(todo) < 2
    BY <2>2
  <2> QED
    BY <2>1, <2>2, <2>3, Zenon DEF Inv, ConfigurationInv, Configuration
<1> QED
  BY <1>2, <1>3, FrameOnWire

\* Every frame fits its buffer, the gathered data fits the accumulator, and a call
\* tells a wedged bus from every other failure (pn532_cmd.c, lli_err_from_esp).
THEOREM CommandsCorrect == Spec => []CommandInv
<1>1. Spec => []Inv
  BY InitHolds, StepHolds, PTL DEF Spec
<1> QED
  BY <1>1, InvImplies, PTL

\* A command reaches the chip as it was meant, over the border between normal and
\* extended frames (pn532_build_frame).
THEOREM CommandsArrive == Spec => []CommandArrives
<1>1. Spec => []Inv
  BY InitHolds, StepHolds, PTL DEF Spec
<1> QED
  BY <1>1, InvImplies, PTL

\* The chip waits for a phone only as it was configured by this very call, unless it
\* was reset in the middle of it (lli_activate).
THEOREM TargetAlwaysConfigured == Spec => []TargetIsConfigured
<1>1. Spec => []Inv
  BY InitHolds, StepHolds, PTL DEF Spec
<1> QED
  BY <1>1, InvImplies, PTL

-----------------------------------------------------------------------------
(***************************************************************************)
(* What was answered                                                       *)
(***************************************************************************)

\* The first n commands of a script have been answered for; the only command of a
\* script maybe more than once.
Answered(d, n, c, data) ==
    /\ d \in Seq(Seq(Bytes))
    /\ n <= Len(d)
    /\ Len(Script[c]) > 1 => Len(d) = n
    /\ \A i \in 1 .. Len(d) :
          d[i] = CommandOf(Script[c][IF Len(Script[c]) = 1 THEN 1 ELSE i], data)

\* What a running call has gathered is what the chip gave, and every command before
\* the current one has been answered for.
HistoryInv ==
    /\ todo # <<>> => /\ out = answer
                      /\ Answered(done, Len(Script[call]) - Len(todo), call, arg)
    /\ DeliveredIsSent
    /\ OkMeansDone

\* The next command of the script has been answered for as well.
LEMMA OneMore ==
    ASSUME NEW c, NEW data, NEW d, NEW n \in 0 .. 2, NEW x \in Seq(Bytes),
           Len(Script[c]) \in {1, 3}, Answered(d, n, c, data), n < Len(Script[c]),
           x = CommandOf(Script[c][n + 1], data)
    PROVE  Answered(Append(d, x), n + 1, c, data)
<1> DEFINE L == Len(Script[c])
           e == Append(d, x)
<1>1. d \in Seq(Seq(Bytes)) /\ Len(d) \in Nat /\ n <= Len(d) /\ (L > 1 => Len(d) = n)
      /\ \A i \in 1 .. Len(d) : d[i] = CommandOf(Script[c][IF L = 1 THEN 1 ELSE i], data)
  BY LenProperties DEF Answered
<1>2. /\ e \in Seq(Seq(Bytes)) /\ Len(e) = Len(d) + 1
      /\ \A i \in 1 .. Len(d) : e[i] = d[i]
      /\ e[Len(d) + 1] = x
  BY <1>1, AppendProperties
<1> HIDE DEF L, e
<1>3. L \in {1, 3} /\ n < L
  BY DEF L
<1>4. n + 1 <= Len(e) /\ (L > 1 => Len(e) = n + 1)
  BY <1>1, <1>2
<1>5. \A i \in 1 .. Len(e) : e[i] = CommandOf(Script[c][IF L = 1 THEN 1 ELSE i], data)
  <2> TAKE i \in 1 .. Len(e)
  <2>1. CASE i \in 1 .. Len(d)
    BY <1>1, <1>2, <2>1
  <2>2. CASE i \notin 1 .. Len(d)
    <3>1. i = Len(d) + 1
      BY <1>1, <1>2, <2>2
    <3>2. n + 1 = IF L = 1 THEN 1 ELSE i
      BY <1>1, <1>3, <3>1
    <3> QED
      BY <1>2, <3>1, <3>2
  <2> QED
    BY <2>1, <2>2
<1> QED
  BY <1>2, <1>4, <1>5 DEF Answered, L, e

\* How many commands a call has done that has m to go.
LEMMA PlaceBefore ==
    ASSUME NEW l \in {1, 3}, NEW m \in {1, 2, 3}, m <= l
    PROVE  l - m \in 0 .. 2 /\ l - m < l /\ (~(m > 1) => l - m + 1 = l)
OBVIOUS

\* A response that is accepted is the chip's reply to this command, and says that
\* it was done.
LEMMA ReplyIsAccepted ==
    ASSUME Inv, DataIsNoFrame, wire # <<>>, NEW rsp \in DOMAIN Received[Head(todo)],
           NEW parsed \in Received[Head(todo)][rsp] \cup Retried[Head(todo)][rsp],
           parsed.err = "OK", Evaluate(Head(todo), parsed.data) = "OK"
    PROVE  parsed.data = rsp /\ Positive(Head(todo), rsp)
<1>1. Head(todo) \in Commands
  BY Current DEF Inv, ExchangeInv
<1>2. parsed.data = rsp
  BY <1>1, ReceivedParses
<1>3. rsp \in Replies(Head(todo))
  BY <1>1, RepliesOf
<1> QED
  BY <1>1, <1>2, <1>3, OkIsPositive

\* So what has been gathered remains what the chip has given.
LEMMA AcceptedIsSent ==
    ASSUME Inv, HistoryInv, NEW data, Accepts(data),
           answer' = answer \o data, done' = Append(done, ChipReads(wire))
    PROVE  HistoryInv'
<1> DEFINE c == Head(todo)
           L == Len(Script[call])
           n == L - Len(todo)
           x == CommandOf(c, arg)
<1>1. /\ todo # <<>> /\ wire # <<>> /\ data \in Seq(Bytes) /\ out \in Seq(Bytes)
      /\ c \notin Readers => data = <<>>
      /\ out = answer /\ Answered(done, n, call, arg) /\ ret = "NONE"
  BY DEF Accepts, Inv, ExchangeInv, ResultInv, HistoryInv
<1>2. /\ c \in Commands /\ Len(todo) \in {1, 2, 3} /\ L \in {1, 3}
      /\ L = 1 => Len(todo) = 1
      /\ c = Script[call][n + 1]
      /\ c \in Readers => L = 1 /\ Len(todo) = 1
      /\ c = "TgInitAsTarget" => Len(arg) <= 47
      /\ call \in Calls /\ Len(todo) <= L /\ arg \in Seq(Bytes)
  BY <1>1, Current DEF Inv, ScriptInv
<1>3. ChipReads(wire) = x
  BY <1>1, FrameOnWire DEF CommandArrives, CommandOf
<1>4. x \in Seq(Bytes)
  <2> DEFINE w == <<PN532_TFI_HOST_TO_PN532, Code[c]>>
  <2>1. w \in Seq(Bytes)
    BY <1>2, CodesDef DEF PN532_TFI_HOST_TO_PN532, Bytes
  <2>2. Params(c, arg) \in Seq(Bytes)
    <3>1. Refused(c, Params(c, arg)) = "OK"
      BY <1>1 DEF Inv, ExchangeInv
    <3> QED
      BY <1>2, <3>1, ParamsFit
  <2> HIDE DEF w
  <2>3. w \o Params(c, arg) \in Seq(Bytes)
    BY <2>1, <2>2, Joined, Zenon
  <2> QED
    BY <2>3 DEF w, CommandOf
<1> HIDE DEF c, L, x
<1>5. n \in 0 .. 2 /\ n < L /\ (~(Len(todo) > 1) => n + 1 = L)
  BY <1>2, PlaceBefore, Zenon
<1> HIDE DEF n
<1>6. Answered(done', n + 1, call, arg)
  <2>1. x = CommandOf(Script[call][n + 1], arg)
    BY <1>2 DEF x
  <2>2. Answered(Append(done, x), n + 1, call, arg)
    <3>1. Answered(done, n, call, arg) /\ L \in {1, 3} /\ n < L
      BY <1>1, <1>2, <1>5
    <3>2. Len(Script[call]) \in {1, 3} /\ n < Len(Script[call])
      BY <3>1 DEF L
    <3>3. ASSUME NEW m \in 0 .. 2, Answered(done, m, call, arg), m < Len(Script[call]),
                 NEW y \in Seq(Bytes), y = CommandOf(Script[call][m + 1], arg)
          PROVE  Answered(Append(done, y), m + 1, call, arg)
      BY <3>2, <3>3, OneMore
    <3> QED
      BY <3>1, <3>2, <3>3, <1>4, <1>5, <2>1
  <2> QED
    BY <1>3, <2>2
<1>7. CASE NextFragment(data)
  <2>1. c = "TgGetData" /\ out' = out \o data /\ UNCHANGED <<call, arg, todo, ret>>
    BY <1>7 DEF NextFragment, c
  <2>2. L = 1 /\ Len(todo) = 1 /\ n = 0
    BY <1>2, <2>1 DEF Readers, n
  <2>3. Answered(done', n, call, arg)
    <3>1. n + 1 <= Len(done') /\ done' \in Seq(Seq(Bytes)) /\ ~(Len(Script[call]) > 1)
      BY <1>6, <2>2 DEF Answered, L
    <3>2. n <= Len(done')
      BY <2>2, <3>1, LenProperties
    <3> QED
      BY <1>6, <3>1, <3>2 DEF Answered
  <2>4. (n = Len(Script[call]) - Len(todo))'
    BY <2>1 DEF n, L
  <2> QED
    BY <1>1, <2>1, <2>3, <2>4 DEF HistoryInv, DeliveredIsSent, OkMeansDone, n, L
<1>8. CASE NextCommand
  <2>1. Len(todo) > 1 /\ todo' = Tail(todo) /\ UNCHANGED <<call, arg, out, ret>>
    BY <1>8 DEF NextCommand
  <2>2. Len(todo') = Len(todo) - 1
    BY <2>1, RestOfScript DEF Inv
  <2>3. data = <<>>
    BY <1>1, <1>2, <2>1
  <2>4. out' = answer'
    BY <1>1, <2>1, <2>3, ConcatEmptySeq
  <2>5. Len(Script[call]) - Len(todo') = n + 1
    BY <1>2, <2>2 DEF n, L
  <2>6. Answered(done', Len(Script[call]) - Len(todo'), call, arg)
    BY <1>6, <2>5
  <2> QED
    BY <1>1, <2>1, <2>4, <2>6 DEF HistoryInv, DeliveredIsSent, OkMeansDone
<1>9. CASE Ends(data)
  <2>1. ~(Len(todo) > 1) /\ out' = out \o data /\ todo' = <<>> /\ UNCHANGED <<call, arg>>
    BY <1>9 DEF Ends
  <2>2. n + 1 = L
    BY <1>5, <2>1, Zenon
  <2>3. Answered(done', L, call, arg)
    BY <1>6, <2>2
  <2>4. /\ L <= Len(done')
        /\ \A i \in 1 .. L : done'[i] = CommandOf(Script[call][i], arg)
    <3>1. /\ done' \in Seq(Seq(Bytes)) /\ L <= Len(done')
          /\ \A i \in 1 .. Len(done') :
                done'[i] = CommandOf(Script[call][IF L = 1 THEN 1 ELSE i], arg)
      BY <2>3 DEF Answered, L
    <3>2. Len(done') \in Nat
      BY <3>1, LenProperties
    <3>3. \A i \in 1 .. L : i \in 1 .. Len(done') /\ (L = 1 => i = 1)
      BY <1>2, <3>1, <3>2
    <3> QED
      BY <3>1, <3>3
  <2>5. \A i \in DOMAIN Script[call] : i \in 1 .. L
    BY <1>2, ScriptShape, LenProperties DEF L
  <2>6. OkMeansDone'
    BY <2>1, <2>4, <2>5 DEF OkMeansDone, CommandOf, L
  <2>7. DeliveredIsSent'
    BY <1>1, <2>1 DEF DeliveredIsSent
  <2> QED
    BY <2>1, <2>6, <2>7 DEF HistoryInv
<1> QED
  BY <1>7, <1>8, <1>9 DEF Accepts, Goes

\* HistoryInv is inductive where Inv holds.
LEMMA HistoryStep ==
    Inv /\ HistoryInv /\ DataIsNoFrame /\ [Next]_vars => HistoryInv'
<1> SUFFICES ASSUME Inv, HistoryInv, DataIsNoFrame, [Next]_vars
             PROVE  HistoryInv'
  OBVIOUS
<1>0. ASSUME Aborts PROVE HistoryInv'
  BY <1>0 DEF Aborts, HistoryInv, DeliveredIsSent, OkMeansDone
<1>1. CASE Call
  <2>1. Len(todo') = Len(Script[call']) /\ call' \in Calls
    BY <1>1, CallIs
  <2>2. out' = <<>> /\ answer' = <<>> /\ done' = <<>> /\ ret' = "NONE"
    BY <1>1 DEF Call
  <2>3. Len(Script[call']) \in {1, 3}
    BY <2>1, ScriptShape
  <2>4. Len(Script[call']) - Len(todo') = 0
    BY <2>1, <2>3
  <2>5. Answered(<<>>, 0, call', arg')
    <3>1. <<>> \in Seq(Seq(Bytes)) /\ Len(<<>>) = 0
      OBVIOUS
    <3> QED
      BY <3>1 DEF Answered
  <2> QED
    BY <2>2, <2>4, <2>5 DEF HistoryInv, DeliveredIsSent, OkMeansDone
<1>2. CASE Send
  <2>1. CASE Sends
    BY <1>2, <2>1 DEF Send, Sends, callVars, HistoryInv, DeliveredIsSent, OkMeansDone
  <2> QED
    BY <1>0, <1>2, <2>1, SendIs
<1>3. CASE Receive
  <2> DEFINE c == Head(todo)
  <2>1. PICK rsp \in DOMAIN Received[c] :
           /\ done' = IF Positive(c, rsp) THEN Append(done, ChipReads(wire)) ELSE done
           /\ answer' = answer \o (IF Positive(c, rsp) THEN DataIn(c, rsp) ELSE <<>>)
           /\ \E parsed \in Received[c][rsp] \cup Retried[c][rsp] :
                 \/ Aborts
                 \/ /\ parsed.err = "OK" /\ Evaluate(c, parsed.data) = "OK"
                    /\ Accepts(DataIn(c, parsed.data))
    BY <1>3, ReceiveIs, Zenon
  <2>2. CASE ~Aborts
    <3>1. PICK parsed \in Received[c][rsp] \cup Retried[c][rsp] :
             /\ parsed.err = "OK" /\ Evaluate(c, parsed.data) = "OK"
             /\ Accepts(DataIn(c, parsed.data))
      BY <2>1, <2>2
    <3>2. wire # <<>>
      BY <1>3 DEF Receive
    <3>3. parsed.data = rsp /\ Positive(c, rsp)
      BY <3>1, <3>2, ReplyIsAccepted
    <3> DEFINE data == DataIn(c, rsp)
    <3>4. /\ Accepts(data) /\ answer' = answer \o data
          /\ done' = Append(done, ChipReads(wire))
      BY <2>1, <3>1, <3>3
    <3> HIDE DEF data
    <3> QED
      BY <3>4, AcceptedIsSent
  <2> QED
    BY <1>0, <2>2
<1>4. CASE ReceiveUnrelated \/ ReceiveFails
  BY <1>0, <1>4, UnrelatedIs, ReceiveFailsIs
<1>5. CASE ChipResets
  BY <1>5 DEF ChipResets, callVars, HistoryInv, DeliveredIsSent, OkMeansDone
<1>6. CASE UNCHANGED vars
  BY <1>6 DEF vars, HistoryInv, DeliveredIsSent, OkMeansDone
<1> QED
  BY <1>1, <1>2, <1>3, <1>4, <1>5, <1>6 DEF Next

\* Before the first call nothing has been delivered.
LEMMA HistoryInit == Init => HistoryInv
BY DEF Init, HistoryInv, DeliveredIsSent, OkMeansDone

\* Where damage to a start code is noticed: what is delivered is what the chip
\* answered to this very call (pn532_parse_frame, lli_receive_apdu).
THEOREM DeliveredAlwaysSent == DataIsNoFrame /\ Spec => []DeliveredIsSent
<1> SUFFICES ASSUME DataIsNoFrame PROVE Spec => []DeliveredIsSent
  OBVIOUS
<1>1. Inv /\ HistoryInv /\ [Next]_vars => (Inv /\ HistoryInv)'
  BY StepHolds, HistoryStep
<1>2. Init => Inv /\ HistoryInv
  BY InitHolds, HistoryInit
<1>3. HistoryInv => DeliveredIsSent
  BY DEF HistoryInv
<1> QED
  BY <1>1, <1>2, <1>3, PTL DEF Spec

\* And success is told only of a call whose every command the chip has done.
THEOREM OkAlwaysMeansDone == DataIsNoFrame /\ Spec => []OkMeansDone
<1> SUFFICES ASSUME DataIsNoFrame PROVE Spec => []OkMeansDone
  OBVIOUS
<1>1. Inv /\ HistoryInv /\ [Next]_vars => (Inv /\ HistoryInv)'
  BY StepHolds, HistoryStep
<1>2. Init => Inv /\ HistoryInv
  BY InitHolds, HistoryInit
<1>3. HistoryInv => OkMeansDone
  BY DEF HistoryInv
<1> QED
  BY <1>1, <1>2, <1>3, PTL DEF Spec

=============================================================================
