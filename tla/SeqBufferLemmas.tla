---------------------------- MODULE SeqBufferLemmas ----------------------------
(***************************************************************************)
(* What the operations of a SequenceBuffer do, told in absolute numbers.   *)
(*                                                                         *)
(* The buffer sees a packet number n only as n % SeqSpace.  Numbered ties  *)
(* a buffer to the absolute number of its head and of its entries.  Under  *)
(* it, and for a number the comparison can place, insert() is exactly the  *)
(* sliding window: InsertExact.                                            *)
(***************************************************************************)
EXTENDS SeqBufferOps, TLAPS

--------------------------------------------------------------------------------
(* What the proofs need to know of % beyond linear arithmetic *)

\* Division with remainder, as the provers need it.
LEMMA DivMod ==
    \A x \in Int, n \in Nat \ {0} :
        /\ x \div n \in Int
        /\ x % n \in 0 .. (n - 1)
        /\ x = n * (x \div n) + (x % n)
  OBVIOUS

\* A remainder is unique.
LEMMA ModUnique ==
    \A q \in Int, r \in Int, n \in Nat \ {0} :
        0 <= r /\ r < n => (q * n + r) % n = r
  OBVIOUS

\* Adding a multiple of the divisor does not change the remainder.
LEMMA ModShift ==
    ASSUME NEW x \in Int, NEW k \in Int, NEW n \in Nat \ {0}
    PROVE  (x + k * n) % n = x % n
<1> DEFINE q == x \div n
           r == x % n
<1>1. q \in Int /\ r \in Int /\ 0 <= r /\ r < n /\ x = n * q + r
  BY DivMod
<1> HIDE DEF q, r
<1>2. x + k * n = (q + k) * n + r
  BY <1>1
<1>3. ((q + k) * n + r) % n = r
  BY <1>1, ModUnique
<1>4. r = x % n
  BY DEF r
<1> QED BY <1>2, <1>3, <1>4

\* Numbers less than n apart have different remainders.
LEMMA ModInjective ==
    ASSUME NEW x \in Int, NEW y \in Int, NEW n \in Nat \ {0},
           y <= x, x - y < n, x % n = y % n
    PROVE  x = y
<1> DEFINE q1 == x \div n
           q2 == y \div n
           r == x % n
<1>1. /\ q1 \in Int /\ q2 \in Int /\ r \in Int
      /\ x = n * q1 + r /\ y = n * q2 + r
  BY DivMod
<1> HIDE DEF q1, q2, r
<1>2. x - y = n * (q1 - q2)
  BY <1>1
<1>3. CASE q1 = q2
  BY <1>1, <1>3
<1>4. CASE q1 < q2
  BY <1>1, <1>2, <1>4
<1>5. CASE q1 > q2
  BY <1>1, <1>2, <1>5
<1> QED BY <1>1, <1>3, <1>4, <1>5

\* Taking a remainder first by a multiple of n does not change the remainder
\* by n.
LEMMA ModMod ==
    ASSUME NEW x \in Int, NEW n \in Nat \ {0}, NEW m \in Nat \ {0}, m % n = 0
    PROVE  (x % m) % n = x % n
<1> DEFINE q == x \div m
           k == m \div n
           r == x % m
<1>1. q \in Int /\ k \in Int /\ r \in Int /\ x = m * q + r /\ m = n * k
  BY DivMod
<1> HIDE DEF q, k, r
<1>2. r + (k * q) * n = x
  BY <1>1
<1>3. (r + (k * q) * n) % n = r % n
  <2>1. r \in Int /\ (k * q) \in Int /\ n \in Nat \ {0}
    BY <1>1
  <2> QED BY ONLY <2>1, ModShift, Zenon
<1>4. r = x % m
  BY DEF r
<1> QED BY <1>2, <1>3, <1>4

--------------------------------------------------------------------------------

\* SeqSpace is twice Half.
LEMMA HalfFacts == Half \in Nat /\ Half >= 2 /\ SeqSpace = 2 * Half
  BY SeqSpaceAssumption DEF Half

\* index() always names a slot.
LEMMA IndexInSlots ==
    ASSUME NEW s \in Int
    PROVE  Index(s) \in Slots
  BY DivMod, SizeAssumption DEF Index, Slots

\* wrapping_add and wrapping_sub stay within u16.
LEMMA WrappingType ==
    ASSUME NEW x \in SeqNums, NEW y \in SeqNums
    PROVE  WrappingAdd(x, y) \in SeqNums /\ WrappingSub(x, y) \in SeqNums
  BY SeqSpaceAssumption DEF SeqNums, WrappingAdd, WrappingSub

\* Casting the size to u16 loses nothing for the sizes considered.
LEMMA SizeCast == Size % SeqSpace = Size
<1>1. 0 * SeqSpace + Size = Size /\ 0 <= Size /\ Size < SeqSpace
  BY SizeAssumption, SeqSpaceAssumption
<1>2. 0 \in Int /\ Size \in Int /\ SeqSpace \in Nat \ {0}
  BY SizeAssumption, SeqSpaceAssumption
<1>3. (0 * SeqSpace + Size) % SeqSpace = Size
  BY ONLY <1>1, <1>2, ModUnique, Zenon
<1> QED BY <1>1, <1>3

--------------------------------------------------------------------------------
(* Sequences of absolute numbers *)

\* A number's sequence is a u16.
LEMMA SeqOfType ==
    ASSUME NEW n \in Int
    PROVE  n % SeqSpace \in SeqNums
  BY DivMod, SeqSpaceAssumption DEF SeqNums

\* wrapping_add on sequences is addition of the numbers behind them.
LEMMA WrapAdd ==
    ASSUME NEW a \in Int, NEW b \in Int
    PROVE  WrappingAdd(a % SeqSpace, b % SeqSpace) = (a + b) % SeqSpace
<1> DEFINE S == SeqSpace
           r == a % S
           u == b % S
           qa == a \div S
           qb == b \div S
<1>0. S \in Nat \ {0}
  BY SeqSpaceAssumption
<1>1. /\ S \in Nat \ {0} /\ qa \in Int /\ qb \in Int
      /\ r \in 0 .. (S - 1) /\ u \in 0 .. (S - 1)
      /\ a = S * qa + r /\ b = S * qb + u
  BY <1>0, DivMod, Zenon
<1>2. WrappingAdd(r, u) = IF r + u < S THEN r + u ELSE r + u - S
  BY DEF WrappingAdd
<1> HIDE DEF S, r, u, qa, qb
<1>3. CASE r + u < S
  <2>1. a + b = (qa + qb) * S + (r + u)
    BY <1>1
  <2>2. ((qa + qb) * S + (r + u)) % S = r + u
    <3>1. (qa + qb) \in Int /\ (r + u) \in Int /\ 0 <= r + u
      BY <1>1
    <3> QED BY ONLY <1>1, <1>3, <3>1, ModUnique, Zenon
  <2> QED BY <1>2, <1>3, <2>1, <2>2 DEF S, r, u
<1>4. CASE r + u >= S
  <2>1. a + b = (qa + qb + 1) * S + (r + u - S)
    BY <1>1
  <2>2. ((qa + qb + 1) * S + (r + u - S)) % S = r + u - S
    <3>1. /\ (qa + qb + 1) \in Int /\ (r + u - S) \in Int
          /\ 0 <= r + u - S /\ r + u - S < S
      BY <1>1, <1>4
    <3> QED BY ONLY <1>1, <3>1, ModUnique, Zenon
  <2>3. ~(r + u < S)
    BY <1>1, <1>4
  <2> QED BY <1>2, <2>1, <2>2, <2>3 DEF S, r, u
<1> QED BY <1>1, <1>3, <1>4

\* wrapping_sub on sequences is subtraction of the numbers behind them.
LEMMA WrapSub ==
    ASSUME NEW a \in Int, NEW b \in Int
    PROVE  WrappingSub(a % SeqSpace, b % SeqSpace) = (a - b) % SeqSpace
<1> DEFINE S == SeqSpace
           r == a % S
           u == b % S
           qa == a \div S
           qb == b \div S
<1>0. S \in Nat \ {0}
  BY SeqSpaceAssumption
<1>1. /\ S \in Nat \ {0} /\ qa \in Int /\ qb \in Int
      /\ r \in 0 .. (S - 1) /\ u \in 0 .. (S - 1)
      /\ a = S * qa + r /\ b = S * qb + u
  BY <1>0, DivMod, Zenon
<1>2. WrappingSub(r, u) = IF r >= u THEN r - u ELSE r - u + S
  BY DEF WrappingSub
<1> HIDE DEF S, r, u, qa, qb
<1>3. CASE r >= u
  <2>1. a - b = (qa - qb) * S + (r - u)
    BY <1>1
  <2>2. ((qa - qb) * S + (r - u)) % S = r - u
    <3>1. /\ (qa - qb) \in Int /\ (r - u) \in Int
          /\ 0 <= r - u /\ r - u < S
      BY <1>1, <1>3
    <3> QED BY ONLY <1>1, <3>1, ModUnique, Zenon
  <2> QED BY <1>2, <1>3, <2>1, <2>2 DEF S, r, u
<1>4. CASE r < u
  <2>1. a - b = (qa - qb - 1) * S + (r - u + S)
    BY <1>1
  <2>2. ((qa - qb - 1) * S + (r - u + S)) % S = r - u + S
    <3>1. /\ (qa - qb - 1) \in Int /\ (r - u + S) \in Int
          /\ 0 <= r - u + S /\ r - u + S < S
      BY <1>1, <1>4
    <3> QED BY ONLY <1>1, <3>1, ModUnique, Zenon
  <2>3. ~(r >= u)
    BY <1>1, <1>4
  <2> QED BY <1>2, <2>1, <2>2, <2>3 DEF S, r, u
<1> QED BY <1>1, <1>3, <1>4

\* A number below SeqSpace is its own sequence.
LEMMA SmallSeq ==
    ASSUME NEW k \in SeqNums
    PROVE  k % SeqSpace = k
<1>1. 0 * SeqSpace + k = k /\ 0 <= k /\ k < SeqSpace
  BY SeqSpaceAssumption DEF SeqNums
<1>2. 0 \in Int /\ k \in Int /\ SeqSpace \in Nat \ {0}
  BY SeqSpaceAssumption DEF SeqNums
<1>3. (0 * SeqSpace + k) % SeqSpace = k
  BY ONLY <1>1, <1>2, ModUnique, Zenon
<1> QED BY <1>1, <1>3

\* The comparison orders any two numbers closer than half the range.
LEMMA CompareExact ==
    ASSUME NEW a \in Int, NEW b \in Int, a - b < Half, b - a < Half
    PROVE  SequenceGreaterThan(a % SeqSpace, b % SeqSpace) <=> a > b
<1> DEFINE r == a % SeqSpace
           u == b % SeqSpace
<1>1. r \in SeqNums /\ u \in SeqNums
  BY SeqOfType
<1>2. WrappingSub(r, u) = (a - b) % SeqSpace
  BY WrapSub
<1>3. WrappingSub(u, r) = (b - a) % SeqSpace
  BY WrapSub
<1>4. CASE a >= b
  <2>1. (a - b) \in SeqNums
    BY <1>4, HalfFacts DEF SeqNums
  <2>2. WrappingSub(r, u) = a - b
    BY <1>2, <2>1, SmallSeq
  <2> HIDE DEF r, u
  <2>3. SequenceGreaterThan(r, u) <=> a > b
    BY <1>1, <1>4, <2>2, HalfFacts DEF SequenceGreaterThan, WrappingSub, SeqNums
  <2> QED BY <2>3 DEF r, u
<1>5. CASE a < b
  <2>1. (b - a) \in SeqNums
    BY <1>5, HalfFacts DEF SeqNums
  <2>2. WrappingSub(u, r) = b - a
    BY <1>3, <2>1, SmallSeq
  <2> HIDE DEF r, u
  <2>3. SequenceGreaterThan(r, u) <=> a > b
    BY <1>1, <1>5, <2>2, HalfFacts DEF SequenceGreaterThan, WrappingSub, SeqNums
  <2> QED BY <2>3 DEF r, u
<1> QED BY <1>4, <1>5

\* Numbers less than a sequence space apart are told apart by their sequences.
LEMMA SeqInjective ==
    ASSUME NEW a \in Int, NEW b \in Int,
           a - b < SeqSpace, b - a < SeqSpace, a % SeqSpace = b % SeqSpace
    PROVE  a = b
<1>1. SeqSpace \in Nat \ {0}
  BY SeqSpaceAssumption
<1>2. CASE b <= a
  BY <1>1, <1>2, ModInjective
<1>3. CASE a <= b
  BY <1>1, <1>3, ModInjective
<1> QED BY <1>2, <1>3

\* The slot of a number is the number modulo Size.
LEMMA IndexOfNumber ==
    ASSUME NEW n \in Int
    PROVE  Index(n % SeqSpace) = n % Size
<1>1. Size \in Nat \ {0} /\ SeqSpace \in Nat \ {0} /\ SeqSpace % Size = 0
  BY SizeAssumption, SeqSpaceAssumption
<1> QED BY ONLY <1>1, n \in Int, ModMod, Zenon DEF Index

--------------------------------------------------------------------------------
(* Looking up a number *)

\* exists() tells whether the entry in the number's slot is that number's.
LEMMA ExistsExact ==
    ASSUME NEW t \in Int, NEW b, NEW ids, Numbered(b, t, ids),
           NEW n \in Int, t - SeqSpace <= n, n < t - Size + SeqSpace
    PROVE  /\ n % Size \in Slots
           /\ Exists(b, n % SeqSpace) <=>
                  b.entries[n % Size] # NoEntry /\ ids[n % Size] = n
           /\ Find(b, n % SeqSpace) = b.entries[n % Size].data
<1>1. n % Size \in Slots /\ Index(n % SeqSpace) = n % Size
  BY IndexOfNumber, DivMod, SizeAssumption DEF Slots
<1>2. ASSUME b.entries[n % Size] # NoEntry
      PROVE  b.entries[n % Size].sequence = n % SeqSpace <=> ids[n % Size] = n
  <2> DEFINE m == ids[n % Size]
  <2>1. m \in (t - Size) .. (t - 1) /\ b.entries[n % Size].sequence = m % SeqSpace
    BY <1>1, <1>2 DEF Numbered
  <2>2. m \in Int /\ m - n < SeqSpace /\ n - m < SeqSpace
    BY <2>1, SizeAssumption, SeqSpaceAssumption
  <2> HIDE DEF m
  <2>3. m % SeqSpace = n % SeqSpace => m = n
    BY <2>2, SeqInjective
  <2> QED BY <2>1, <2>3 DEF m
<1> QED BY <1>1, <1>2 DEF Exists, Find

\* can_insert() refuses exactly the numbers below the window.
LEMMA CanInsertExact ==
    ASSUME NEW t \in Int, NEW b, b.sequence = t % SeqSpace, NEW n \in Int,
           t - Size - Half < n, n < t - Size + Half
    PROVE  CanInsert(b, n % SeqSpace) <=> n >= t - Size
<1>1. Size \in Int /\ Half \in Int /\ t - Size \in Int
  BY SizeAssumption, HalfFacts
<1>2. WrappingSub(b.sequence, Size % SeqSpace) = (t - Size) % SeqSpace
  BY <1>1, WrapSub
<1>3. SequenceGreaterThan((t - Size) % SeqSpace, n % SeqSpace) <=> t - Size > n
  BY <1>1, CompareExact
<1> QED BY <1>1, <1>2, <1>3 DEF CanInsert, SequenceLessThan

--------------------------------------------------------------------------------
(* Inserting a number *)

\* remove_range visits exactly the sequences from the old head to the new entry.
LEMMA LoopExact ==
    ASSUME NEW t \in Int, NEW n \in Int, t <= n, n + 1 - t < Half, NEW k \in SeqNums
    PROVE  (\A j \in 0 .. k : SequenceLessThan(WrappingAdd(t % SeqSpace, j),
                                              WrappingAdd(n % SeqSpace, 1)))
           <=> k <= n - t
<1>1. ASSUME NEW j \in SeqNums
      PROVE  WrappingAdd(t % SeqSpace, j) = (t + j) % SeqSpace
  <2>1. j \in Int /\ j % SeqSpace = j
    BY SmallSeq DEF SeqNums
  <2>2. WrappingAdd(t % SeqSpace, j % SeqSpace) = (t + j) % SeqSpace
    BY <2>1, WrapAdd
  <2> QED BY <2>1, <2>2
<1>2. WrappingAdd(n % SeqSpace, 1) = (n + 1) % SeqSpace
  <2>1. 1 % SeqSpace = 1
    BY SmallSeq, SeqSpaceAssumption DEF SeqNums
  <2>2. WrappingAdd(n % SeqSpace, 1 % SeqSpace) = (n + 1) % SeqSpace
    BY WrapAdd
  <2> QED BY <2>1, <2>2
<1>3. ASSUME k <= n - t, NEW j \in 0 .. k
      PROVE  SequenceLessThan(WrappingAdd(t % SeqSpace, j), WrappingAdd(n % SeqSpace, 1))
  <2>1. j \in SeqNums /\ t + j \in Int /\ n + 1 \in Int /\ n + 1 > t + j
        /\ (n + 1) - (t + j) < Half /\ (t + j) - (n + 1) < Half
    BY <1>3, HalfFacts DEF SeqNums
  <2>2. SequenceGreaterThan((n + 1) % SeqSpace, (t + j) % SeqSpace)
    BY <2>1, CompareExact
  <2> QED BY <1>1, <1>2, <2>1, <2>2 DEF SequenceLessThan
<1>4. ASSUME k > n - t
      PROVE  \E j \in 0 .. k : ~SequenceLessThan(WrappingAdd(t % SeqSpace, j),
                                                WrappingAdd(n % SeqSpace, 1))
  <2> DEFINE j == n + 1 - t
  <2>1. j \in 0 .. k /\ j \in SeqNums /\ t + j = n + 1
    BY <1>4, SeqSpaceAssumption DEF SeqNums
  <2>2. WrappingAdd(t % SeqSpace, j) = (n + 1) % SeqSpace
    BY <1>1, <2>1
  <2>3. ~SequenceLessThan((n + 1) % SeqSpace, (n + 1) % SeqSpace)
    <3>1. (n + 1) % SeqSpace \in Int
      BY SeqOfType DEF SeqNums
    <3> QED BY <3>1 DEF SequenceLessThan, SequenceGreaterThan
  <2> QED BY <1>2, <2>1, <2>2, <2>3
<1>5. k \in Int /\ n - t \in Int
  BY DEF SeqNums
<1> QED BY <1>3, <1>4, <1>5

\* A slot of the window is passed by the move of the head from t to n + 1 exactly
\* if its number falls out of the window.
LEMMA PassedExact ==
    ASSUME NEW t \in Int, NEW n \in Int, t <= n, NEW m \in (t - Size) .. (t - 1)
    PROVE  (\E k \in 0 .. (n - t) : (t + k) % Size = m % Size) <=> m < n + 1 - Size
<1>0. Size \in Nat \ {0} /\ m \in Int
  BY SizeAssumption
<1>1. ASSUME m < n + 1 - Size
      PROVE  \E k \in 0 .. (n - t) : (t + k) % Size = m % Size
  <2> DEFINE k == m + Size - t
  <2>1. k \in 0 .. (n - t) /\ t + k = m + 1 * Size
    BY <1>0, <1>1
  <2>2. (m + 1 * Size) % Size = m % Size
    BY ONLY <1>0, ModShift, 1 \in Int, Zenon
  <2> QED BY <2>1, <2>2
<1>2. ASSUME NEW k \in 0 .. (n - t), (t + k) % Size = m % Size, m >= n + 1 - Size
      PROVE  FALSE
  <2>1. t + k \in Int /\ m <= t + k /\ (t + k) - m < Size /\ t + k # m
    BY <1>0, <1>2
  <2> QED BY <1>0, <1>2, <2>1, ModInjective
<1>3. ~(m < n + 1 - Size) => m >= n + 1 - Size
  BY <1>0
<1> QED BY ONLY <1>1, <1>2, <1>3, Zenon

\* remove_range() clears exactly the slots the move of the head passes.
LEMMA RemoveRangeExact ==
    ASSUME NEW t \in Int, NEW n \in Int, t <= n, n + 1 - t < Half,
           NEW entries, NEW i \in Slots
    PROVE  RemoveRange(entries, t % SeqSpace, n % SeqSpace)[i] =
               IF \E k \in 0 .. (n - t) : (t + k) % Size = i THEN NoEntry ELSE entries[i]
<1> DEFINE loop == {k \in SeqNums : \A j \in 0 .. k :
                       SequenceLessThan(WrappingAdd(t % SeqSpace, j),
                                        WrappingAdd(n % SeqSpace, 1))}
           cleared == {WrappingAdd(t % SeqSpace, k) : k \in loop}
<1>1. RemoveRange(entries, t % SeqSpace, n % SeqSpace) =
          [l \in Slots |-> IF \E s \in cleared : Index(s) = l THEN NoEntry ELSE entries[l]]
  BY DEF RemoveRange
<1>2. loop = 0 .. (n - t)
  <2>1. \A k \in SeqNums : k \in loop <=> k <= n - t
    BY LoopExact
  <2>2. \A k \in 0 .. (n - t) : k \in SeqNums
    BY HalfFacts DEF SeqNums
  <2>3. \A k \in SeqNums : k \in Int /\ 0 <= k
    BY DEF SeqNums
  <2>4. loop \subseteq SeqNums
    OBVIOUS
  <2> HIDE DEF loop
  <2>5. ASSUME NEW k \in loop
        PROVE  k \in 0 .. (n - t)
    BY <2>1, <2>3, <2>4
  <2>6. ASSUME NEW k \in 0 .. (n - t)
        PROVE  k \in loop
    <3>1. k \in SeqNums /\ k <= n - t
      BY <2>2
    <3> QED BY <2>1, <3>1
  <2> QED BY ONLY <2>5, <2>6, Zenon
<1>3. ASSUME NEW k \in 0 .. (n - t)
      PROVE  Index(WrappingAdd(t % SeqSpace, k)) = (t + k) % Size
  <2>1. k \in Int /\ k \in SeqNums /\ t + k \in Int
    BY HalfFacts DEF SeqNums
  <2>2. k % SeqSpace = k
    BY <2>1, SmallSeq
  <2>3. WrappingAdd(t % SeqSpace, k % SeqSpace) = (t + k) % SeqSpace
    BY <2>1, WrapAdd
  <2>4. Index((t + k) % SeqSpace) = (t + k) % Size
    BY <2>1, IndexOfNumber
  <2> QED BY <2>2, <2>3, <2>4
<1>4. (\E s \in cleared : Index(s) = i) <=> \E k \in 0 .. (n - t) : (t + k) % Size = i
  <2>1. (\E s \in cleared : Index(s) = i)
            <=> \E k \in 0 .. (n - t) : Index(WrappingAdd(t % SeqSpace, k)) = i
    <3> HIDE DEF loop
    <3> QED BY ONLY <1>2, Zenon
  <2> QED BY ONLY <1>3, <2>1, Zenon
<1> HIDE DEF loop, cleared
<1> QED BY ONLY <1>1, <1>4, i \in Slots, Zenon

\* insert() returns a buffer.
LEMMA InsertType ==
    ASSUME NEW Data, NEW b \in Buffers(Data), NEW s \in SeqNums, NEW d \in Data
    PROVE  Insert(b, s, d) \in Buffers(Data)
<1> DEFINE E == [sequence : SeqNums, data : Data] \cup {NoEntry}
           a == Advance(b, s)
           new == [sequence |-> s, data |-> d]
<1>1. b.sequence \in SeqNums /\ b.entries \in [Slots -> E]
  BY DEF Buffers
<1>2. WrappingAdd(s, 1) \in SeqNums
  BY SeqSpaceAssumption, WrappingType DEF SeqNums
<1>3. RemoveRange(b.entries, b.sequence, s) \in [Slots -> E]
  BY <1>1 DEF RemoveRange
<1>4. a \in Buffers(Data)
  BY <1>2, <1>3 DEF Advance, Buffers
<1>5. new \in E
  OBVIOUS
<1>6. Insert(b, s, d) = IF ~CanInsert(b, s) THEN b
                        ELSE [a EXCEPT !.entries[Index(s)] = new]
  BY DEF Insert
<1> HIDE DEF a, new
<1> QED BY <1>4, <1>5, <1>6 DEF Buffers

\* insert() fills its own slot, and at most empties the others.
LEMMA InsertSlots ==
    ASSUME NEW Data, NEW b \in Buffers(Data), NEW s \in SeqNums, NEW d, CanInsert(b, s)
    PROVE  /\ Insert(b, s, d).entries[Index(s)] = [sequence |-> s, data |-> d]
           /\ \A i \in Slots : i # Index(s) =>
                  Insert(b, s, d).entries[i] \in {b.entries[i], NoEntry}
<1> DEFINE E == [sequence : SeqNums, data : Data] \cup {NoEntry}
           a == Advance(b, s)
           new == [sequence |-> s, data |-> d]
<1>1. b.sequence \in SeqNums /\ b.entries \in [Slots -> E]
  BY DEF Buffers
<1>2. WrappingAdd(s, 1) \in SeqNums
  BY WrappingType, SeqSpaceAssumption DEF SeqNums
<1>3. /\ RemoveRange(b.entries, b.sequence, s) \in [Slots -> E]
      /\ \A i \in Slots :
             RemoveRange(b.entries, b.sequence, s)[i] \in {b.entries[i], NoEntry}
  BY <1>1 DEF RemoveRange
<1>4. /\ a.entries \in [Slots -> E] /\ a = [sequence |-> a.sequence, entries |-> a.entries]
      /\ \A i \in Slots : a.entries[i] \in {b.entries[i], NoEntry}
  <2> HIDE DEF E
  <2>1. b = [sequence |-> b.sequence, entries |-> b.entries]
    BY DEF Buffers
  <2> QED BY <1>1, <1>3, <2>1 DEF Advance
<1>5. Index(s) \in Slots
  BY IndexInSlots, SeqSpaceAssumption DEF SeqNums
<1>6. Insert(b, s, d) = [a EXCEPT !.entries[Index(s)] = new]
  BY DEF Insert
<1> HIDE DEF a, new, E
<1>7. Insert(b, s, d).entries = [a.entries EXCEPT ![Index(s)] = new]
  BY <1>4, <1>6
<1> QED BY <1>4, <1>5, <1>7 DEF new

\* The number of the head once n is inserted below or at t.
HeadAfter(t, n) == IF n >= t THEN n + 1 ELSE t

\* What the sliding window makes of b when n takes its slot: the head moves up to
\* n if n is ahead of it, and exactly the entries that fall out of the window go.
SlidTo(b, t, ids, n, d, c) ==
    /\ c.sequence = HeadAfter(t, n) % SeqSpace
    /\ c.entries[n % Size] = [sequence |-> n % SeqSpace, data |-> d]
    /\ \A i \in Slots : i # n % Size =>
           c.entries[i] = IF b.entries[i] # NoEntry /\ ids[i] < HeadAfter(t, n) - Size
                          THEN NoEntry ELSE b.entries[i]

\* insert() of a number the comparison can place is the sliding window: a number
\* below it is refused, any other is taken in.
LEMMA InsertExact ==
    ASSUME NEW Data, NEW b \in Buffers(Data), NEW d \in Data,
           NEW t \in Int, NEW ids, Numbered(b, t, ids),
           NEW n \in Int, t - Size - Half < n, n < t - Size + Half
    PROVE  /\ n < t - Size => Insert(b, n % SeqSpace, d) = b
           /\ n >= t - Size => SlidTo(b, t, ids, n, d, Insert(b, n % SeqSpace, d))
<1> DEFINE s == n % SeqSpace
           u == HeadAfter(t, n)
           a == Advance(b, s)
           new == [sequence |-> s, data |-> d]
           E == [sequence : SeqNums, data : Data] \cup {NoEntry}
<1>0. /\ b.sequence = t % SeqSpace /\ b.entries \in [Slots -> E]
      /\ b = [sequence |-> b.sequence, entries |-> b.entries]
  BY DEF Buffers, Numbered
<1>1. CanInsert(b, s) <=> n >= t - Size
  BY <1>0, CanInsertExact
<1>2. s \in SeqNums /\ Index(s) = n % Size /\ n % Size \in Slots
  BY SeqOfType, IndexOfNumber, DivMod, SizeAssumption DEF Slots
<1>3. Insert(b, s, d) = IF ~CanInsert(b, s) THEN b
                        ELSE [a EXCEPT !.entries[n % Size] = new]
  BY <1>2 DEF Insert
<1>4. CASE n < t - Size
  BY <1>1, <1>3, <1>4, SizeAssumption
<1>5. CASE n >= t - Size
  <2>1. SequenceGreaterThan(WrappingAdd(s, 1), b.sequence) <=> n + 1 > t
    <3>1. WrappingAdd(s, 1) = (n + 1) % SeqSpace
      <4>1. 1 % SeqSpace = 1
        BY SmallSeq, SeqSpaceAssumption DEF SeqNums
      <4>2. WrappingAdd(n % SeqSpace, 1 % SeqSpace) = (n + 1) % SeqSpace
        BY WrapAdd
      <4> QED BY <4>1, <4>2
    <3>2. (n + 1) - t < Half /\ t - (n + 1) < Half
      BY <1>5, HalfFacts, SizeAssumption, SeqSpaceAssumption
    <3>3. SequenceGreaterThan((n + 1) % SeqSpace, t % SeqSpace) <=> n + 1 > t
      BY <3>2, CompareExact
    <3> QED BY <1>0, <3>1, <3>3
  <2>2. /\ a.sequence = u % SeqSpace /\ a.entries \in [Slots -> E]
        /\ a = [sequence |-> a.sequence, entries |-> a.entries]
        /\ \A i \in Slots : a.entries[i] = IF b.entries[i] # NoEntry /\ ids[i] < u - Size
                                           THEN NoEntry ELSE b.entries[i]
    <3>1. CASE n >= t
      <4>0. u = n + 1
        BY <3>1 DEF HeadAfter
      <4>1. a = [sequence |-> WrappingAdd(s, 1),
                 entries |-> RemoveRange(b.entries, b.sequence, s)]
        BY <2>1, <3>1 DEF Advance
      <4>2. WrappingAdd(s, 1) = u % SeqSpace
        <5>1. 1 % SeqSpace = 1
          BY SmallSeq, SeqSpaceAssumption DEF SeqNums
        <5>2. WrappingAdd(n % SeqSpace, 1 % SeqSpace) = (n + 1) % SeqSpace
          BY WrapAdd
        <5> QED BY <4>0, <5>1, <5>2
      <4>3. RemoveRange(b.entries, b.sequence, s) \in [Slots -> E]
        BY <1>0 DEF RemoveRange
      <4>4. ASSUME NEW i \in Slots
            PROVE  a.entries[i] = IF b.entries[i] # NoEntry /\ ids[i] < u - Size
                                  THEN NoEntry ELSE b.entries[i]
        <5>1. n + 1 - t < Half
          BY <3>1, HalfFacts, SizeAssumption
        <5>2. a.entries[i] = IF \E k \in 0 .. (n - t) : (t + k) % Size = i
                             THEN NoEntry ELSE b.entries[i]
          BY <1>0, <3>1, <4>1, <5>1, RemoveRangeExact
        <5>3. CASE b.entries[i] = NoEntry
          BY <5>2, <5>3
        <5>4. CASE b.entries[i] # NoEntry
          <6>1. ids[i] \in (t - Size) .. (t - 1) /\ ids[i] % Size = i
            BY <5>4 DEF Numbered
          <6> DEFINE Passed(x) == \E k \in 0 .. (n - t) : (t + k) % Size = x
          <6>2. Passed(ids[i] % Size) <=> ids[i] < n + 1 - Size
            BY <3>1, <6>1, PassedExact
          <6>3. a.entries[i] = IF Passed(i) THEN NoEntry ELSE b.entries[i]
            BY <5>2
          <6> HIDE DEF a, s, u, Passed
          <6>4. ids[i] < u - Size <=> ids[i] < n + 1 - Size
            BY <4>0, <6>1, SizeAssumption
          <6>5. Passed(i) <=> ids[i] < u - Size
            BY ONLY <6>1, <6>2, <6>4
          <6> QED BY ONLY <5>4, <6>3, <6>5
        <5> QED BY <5>3, <5>4
      <4> HIDE DEF a, E, s
      <4> QED BY <4>1, <4>2, <4>3, <4>4
    <3>2. CASE ~(n >= t)
      <4>1. a = b /\ u = t
        BY <2>1, <3>2 DEF Advance, HeadAfter
      <4>2. \A i \in Slots : b.entries[i] # NoEntry => ~(ids[i] < t - Size)
        BY SizeAssumption DEF Numbered
      <4> QED BY <1>0, <4>1, <4>2
    <3> QED BY <3>1, <3>2
  <2>3. Insert(b, s, d) = [sequence |-> a.sequence,
                           entries |-> [a.entries EXCEPT ![n % Size] = new]]
    <3> HIDE DEF a, new, s, E
    <3> QED BY <1>1, <1>3, <1>5, <2>2
  <2> HIDE DEF a
  <2>4. ~(n < t - Size)
    BY <1>5, SizeAssumption
  <2> QED BY <1>2, <2>2, <2>3, <2>4 DEF SlidTo
<1>6. n < t - Size \/ n >= t - Size
  BY SizeAssumption
<1> QED BY <1>4, <1>5, <1>6

\* The buffer after the insert is numbered by what it was numbered by, with n in
\* its slot.
LEMMA InsertNumbered ==
    ASSUME NEW Data, NEW b \in Buffers(Data), NEW d \in Data,
           NEW t \in Int, NEW ids, Numbered(b, t, ids),
           NEW n \in Int, t - Size <= n, n < t - Size + Half,
           NEW new, \A i \in Slots : new[i] = IF i = n % Size THEN n ELSE ids[i]
    PROVE  Numbered(Insert(b, n % SeqSpace, d), HeadAfter(t, n), new)
<1> DEFINE c == Insert(b, n % SeqSpace, d)
           u == HeadAfter(t, n)
<1>0. /\ t - Size - Half < n /\ n >= t - Size
      /\ u \in Int /\ t <= u /\ n < u /\ u - Size <= n
  BY HalfFacts, SizeAssumption DEF HeadAfter
<1>1. /\ c.sequence = u % SeqSpace
      /\ c.entries[n % Size] = [sequence |-> n % SeqSpace, data |-> d]
      /\ \A i \in Slots : i # n % Size =>
             c.entries[i] = IF b.entries[i] # NoEntry /\ ids[i] < u - Size
                            THEN NoEntry ELSE b.entries[i]
  <2>1. SlidTo(b, t, ids, n, d, c)
    BY <1>0, InsertExact
  <2> QED BY <2>1 DEF SlidTo
<1> HIDE DEF c, u
<1>2. ASSUME NEW i \in Slots, c.entries[i] # NoEntry
      PROVE  /\ new[i] \in (u - Size) .. (u - 1)
             /\ c.entries[i].sequence = new[i] % SeqSpace
             /\ new[i] % Size = i
  <2>1. CASE i = n % Size
    BY <1>0, <1>1, <2>1, SizeAssumption
  <2>2. CASE i # n % Size
    <3>1. /\ c.entries[i] = b.entries[i] /\ b.entries[i] # NoEntry
          /\ ~(ids[i] < u - Size) /\ new[i] = ids[i]
      BY <1>0, <1>1, <1>2, <2>2
    <3>2. /\ ids[i] \in (t - Size) .. (t - 1) /\ ids[i] % Size = i
          /\ b.entries[i].sequence = ids[i] % SeqSpace
      BY <3>1 DEF Numbered
    <3> QED BY <1>0, <3>1, <3>2, SizeAssumption
  <2> QED BY <2>1, <2>2
<1> QED BY <1>1, <1>2 DEF Numbered, c, u

--------------------------------------------------------------------------------
(* Buffers whose entries carry their own number, as a field id *)

\* The head stands for t, and every entry for its id.
InOrder(b, t) == Numbered(b, t, [i \in Slots |-> b.entries[i].data.id])

\* The entries of c other than the one in slot j are entries of b, and those that
\* are missing had a number below low.
KeptExcept(b, c, j, low) ==
    \A i \in Slots : i # j =>
        /\ c.entries[i] # NoEntry => c.entries[i] = b.entries[i]
        /\ b.entries[i] # NoEntry /\ b.entries[i].data.id >= low =>
               c.entries[i] = b.entries[i]

\* c is b after packet n was inserted with data d.
TookIn(b, t, n, d, c) ==
    /\ InOrder(c, HeadAfter(t, n))
    /\ n % Size \in Slots
    /\ c.entries[n % Size] = [sequence |-> n % SeqSpace, data |-> d]
    /\ KeptExcept(b, c, n % Size, HeadAfter(t, n) - Size)

\* insert() of packet n into such a buffer.
LEMMA InsertInOrder ==
    ASSUME NEW Data, NEW b \in Buffers(Data), NEW d \in Data,
           NEW t \in Int, InOrder(b, t), NEW n \in Int, d.id = n,
           t - Size <= n, n < t - Size + Half
    PROVE  /\ Insert(b, n % SeqSpace, d) \in Buffers(Data)
           /\ TookIn(b, t, n, d, Insert(b, n % SeqSpace, d))
<1> DEFINE c == Insert(b, n % SeqSpace, d)
           u == HeadAfter(t, n)
           ids == [i \in Slots |-> b.entries[i].data.id]
           new == [i \in Slots |-> IF i = n % Size THEN n ELSE ids[i]]
<1>1. Numbered(b, t, ids)
  BY DEF InOrder
<1>2. n % SeqSpace \in SeqNums /\ c \in Buffers(Data)
  BY SeqOfType, InsertType
<1>3. /\ Size \in Int /\ Half \in Int /\ t - Size - Half < n /\ n >= t - Size
      /\ u \in Int /\ u - Size \in Int
  BY SizeAssumption, HalfFacts DEF HeadAfter
<1>4. SlidTo(b, t, ids, n, d, c)
  BY <1>1, <1>3, InsertExact
<1>5. n % Size \in Slots
  BY SizeAssumption, DivMod DEF Slots
<1>6. Numbered(c, u, new)
  BY <1>1, InsertNumbered
<1> HIDE DEF c, u
<1>7. /\ c.entries[n % Size] = [sequence |-> n % SeqSpace, data |-> d]
      /\ \A i \in Slots : i # n % Size =>
             c.entries[i] = IF b.entries[i] # NoEntry /\ ids[i] < u - Size
                            THEN NoEntry ELSE b.entries[i]
  BY <1>4 DEF SlidTo, u
<1>8. KeptExcept(b, c, n % Size, u - Size)
  <2> SUFFICES ASSUME NEW i \in Slots, i # n % Size
               PROVE  /\ c.entries[i] # NoEntry => c.entries[i] = b.entries[i]
                      /\ b.entries[i] # NoEntry /\ b.entries[i].data.id >= u - Size =>
                             c.entries[i] = b.entries[i]
    BY DEF KeptExcept
  <2>1. b.entries[i] # NoEntry => ids[i] \in Int
    BY <1>1, SizeAssumption DEF Numbered
  <2>2. ids[i] = b.entries[i].data.id
    OBVIOUS
  <2> QED BY <1>3, <1>7, <2>1, <2>2
<1>9. InOrder(c, u)
  <2> DEFINE own == [i \in Slots |-> c.entries[i].data.id]
  <2>1. ASSUME NEW i \in Slots, c.entries[i] # NoEntry
        PROVE  own[i] = new[i]
    BY <1>7, <1>8, <2>1 DEF KeptExcept
  <2> HIDE DEF new, own
  <2>2. Numbered(c, u, own)
    BY <1>6, <2>1 DEF Numbered
  <2> QED BY <2>2 DEF InOrder, own
<1> QED BY <1>2, <1>5, <1>7, <1>8, <1>9 DEF TookIn, c, u

\* insert() of a packet below the window changes nothing.
LEMMA InsertBelow ==
    ASSUME NEW Data, NEW b \in Buffers(Data), NEW d \in Data,
           NEW t \in Int, InOrder(b, t), NEW n \in Int,
           t - Size - Half < n, n < t - Size
    PROVE  Insert(b, n % SeqSpace, d) = b
<1>1. n < t - Size + Half
  BY SizeAssumption, HalfFacts
<1> QED BY <1>1, InsertExact DEF InOrder

\* exists() of a number tells whether that packet is there.
LEMMA ExistsInOrder ==
    ASSUME NEW t \in Int, NEW b, InOrder(b, t),
           NEW n \in Int, t - SeqSpace <= n, n < t - Size + SeqSpace
    PROVE  /\ n % Size \in Slots
           /\ Exists(b, n % SeqSpace) <=>
                  b.entries[n % Size] # NoEntry /\ b.entries[n % Size].data.id = n
           /\ Find(b, n % SeqSpace) = b.entries[n % Size].data
<1> DEFINE ids == [i \in Slots |-> b.entries[i].data.id]
<1>1. Numbered(b, t, ids)
  BY DEF InOrder
<1> HIDE DEF ids
<1>2. /\ n % Size \in Slots
      /\ Exists(b, n % SeqSpace) <=>
             b.entries[n % Size] # NoEntry /\ ids[n % Size] = n
      /\ Find(b, n % SeqSpace) = b.entries[n % Size].data
  BY <1>1, ExistsExact
<1>3. ids[n % Size] = b.entries[n % Size].data.id
  BY <1>2 DEF ids
<1> QED BY <1>2, <1>3

================================================================================
