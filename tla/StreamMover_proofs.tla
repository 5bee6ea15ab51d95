------------------------- MODULE StreamMover_proofs ------------------------
(***************************************************************************)
(* Proofs about the data mover and the layout of its transactions, for any *)
(* number of channels, widths, depths, arguments and graphs that stall.    *)
(***************************************************************************)
EXTENDS StreamMover, SequenceTheorems, SumTheorems

-----------------------------------------------------------------------------
(* Words and beats.                                                        *)

(* Words hold the beats, the last of them at least one.                    *)
LEMMA WordsFacts ==
  ASSUME NEW f \in Nat
  PROVE  /\ Words(f) \in Nat
         /\ MemRatio * Words(f) \in Nat
         /\ f <= MemRatio * Words(f)
         /\ MemRatio * Words(f) < f + MemRatio
         /\ f = 0 => Words(f) = 0
         /\ \A g \in Nat : f <= MemRatio * g => Words(f) <= g
<1> DEFINE n == f + MemRatio - 1
           w == n \div MemRatio
<1>1. n \in Nat /\ MemRatio \in Nat \ {0}
  BY DepthAssumption
<1>2. w \in Int /\ n % MemRatio \in 0 .. MemRatio - 1 /\ n = MemRatio * w + (n % MemRatio)
  BY <1>1, Division
<1> DEFINE r == n % MemRatio
<1>3. f + MemRatio - 1 = MemRatio * w + r /\ r \in 0 .. MemRatio - 1
  BY <1>2
<1>4. w \in Nat
  <2> SUFFICES ASSUME w + 1 <= 0 PROVE FALSE
    BY <1>2
  <2> HIDE DEF w, r
  <2>1. MemRatio * (w + 1) <= MemRatio * 0 /\ MemRatio * (w + 1) = MemRatio * w + MemRatio
        /\ MemRatio * 0 = 0 /\ MemRatio * w \in Int
    BY <1>1, <1>2, Multiple
  <2> QED BY <1>1, <1>3, <2>1
<1>5. ASSUME NEW g \in Nat, f <= MemRatio * g, g + 1 <= w
      PROVE  FALSE
  <2> HIDE DEF w, r
  <2>1. MemRatio * (g + 1) <= MemRatio * w /\ MemRatio * (g + 1) = MemRatio * g + MemRatio
        /\ MemRatio * g \in Int /\ MemRatio * w \in Int
    BY <1>1, <1>4, <1>5, Multiple
  <2> QED BY <1>1, <1>3, <1>5, <2>1
<1>6. MemRatio * w \in Nat
  <2> HIDE DEF w
  <2> QED BY <1>1, <1>4, MultipleNat
<1>7. Words(f) = w
  BY DEF Words
<1>8. \A g \in Nat : f <= MemRatio * g => w <= g
  BY <1>4, <1>5
<1>9. f = 0 => w = 0
  <2> HIDE DEF w
  <2>1. MemRatio * 0 = 0
    BY <1>1
  <2> QED BY <1>4, <1>8, <2>1
<1> HIDE DEF w, r
<1> QED BY <1>1, <1>3, <1>4, <1>6, <1>7, <1>8, <1>9

(* Beats in the first w words of a transfer of so many beats.              *)
BeatsIn(frames, w) == IF w <= frames \div MemRatio THEN MemRatio * w ELSE frames

LEMMA BeatsInFacts ==
  ASSUME NEW f \in Nat, NEW w \in Nat, w <= Words(f)
  PROVE  /\ BeatsIn(f, w) \in Nat /\ BeatsIn(f, w) <= f
         /\ BeatsIn(f, w) <= MemRatio * w
         /\ BeatsIn(f, 0) = 0 /\ BeatsIn(f, Words(f)) = f
         /\ w < Words(f) =>
              /\ BeatsIn(f, w) = MemRatio * w
              /\ FramesIn(f, w + 1) \in 1 .. MemRatio
              /\ BeatsIn(f, w + 1) = BeatsIn(f, w) + FramesIn(f, w + 1)
<1> DEFINE q == f \div MemRatio
           r == f % MemRatio
<1>1. q \in Int /\ r \in 0 .. MemRatio - 1 /\ f = MemRatio * q + r /\ MemRatio \in Nat \ {0}
  BY Division, DepthAssumption
<1>2. q \in Nat
  <2> SUFFICES ASSUME q + 1 <= 0 PROVE FALSE
    BY <1>1
  <2> HIDE DEF q, r
  <2>1. MemRatio * (q + 1) <= MemRatio * 0 /\ MemRatio * (q + 1) = MemRatio * q + MemRatio
        /\ MemRatio * 0 = 0 /\ MemRatio * q \in Int
    BY <1>1, Multiple
  <2> QED BY <1>1, <2>1
<1>3. /\ BeatsIn(f, w) = IF w <= q THEN MemRatio * w ELSE f
      /\ BeatsIn(f, 0) = IF 0 <= q THEN MemRatio * 0 ELSE f
      /\ BeatsIn(f, w + 1) = IF w + 1 <= q THEN MemRatio * (w + 1) ELSE f
      /\ BeatsIn(f, Words(f)) = IF Words(f) <= q THEN MemRatio * Words(f) ELSE f
      /\ FramesIn(f, w + 1) = IF w + 1 <= q THEN MemRatio ELSE r
  BY DEF BeatsIn, FramesIn
<1> HIDE DEF q, r
<1>4. MemRatio * 0 = 0 /\ MemRatio * (w + 1) = MemRatio * w + MemRatio
      /\ MemRatio * (q + 1) = MemRatio * q + MemRatio
      /\ MemRatio * w \in Nat /\ MemRatio * q \in Nat
  BY <1>1, <1>2
<1>5. /\ Words(f) \in Nat /\ MemRatio * Words(f) \in Nat
      /\ f <= MemRatio * Words(f) /\ MemRatio * Words(f) < f + MemRatio
  BY WordsFacts
<1>6. Words(f) <= q + 1
  BY <1>1, <1>2, <1>4, WordsFacts
<1>7. w <= q => MemRatio * w <= MemRatio * q
  BY <1>1, <1>2, Multiple
<1>8. q < w => w = q + 1
  BY <1>2, <1>5, <1>6
<1>9. Words(f) <= q => MemRatio * Words(f) <= MemRatio * q
  BY <1>1, <1>2, <1>5, Multiple
<1>10. BeatsIn(f, Words(f)) = f
  BY <1>1, <1>3, <1>4, <1>5, <1>9
<1>11. ASSUME w < Words(f)
       PROVE  /\ BeatsIn(f, w) = MemRatio * w
              /\ FramesIn(f, w + 1) \in 1 .. MemRatio
              /\ BeatsIn(f, w + 1) = BeatsIn(f, w) + FramesIn(f, w + 1)
  <2>1. w <= q
    BY <1>2, <1>5, <1>6, <1>11
  <2>2. BeatsIn(f, w) = MemRatio * w
    BY <1>3, <2>1
  <2>3. CASE w + 1 <= q
    BY <1>1, <1>3, <1>4, <2>2, <2>3
  <2>4. CASE ~(w + 1 <= q)
    <3>1. w = q
      BY <1>2, <2>1, <2>4
    <3>2. r # 0
      <4> SUFFICES ASSUME r = 0 PROVE FALSE
        OBVIOUS
      <4>1. f <= MemRatio * q
        BY <1>1, <1>4
      <4>2. Words(f) <= q
        BY <1>2, <4>1, WordsFacts
      <4> QED BY <1>2, <1>5, <1>11, <3>1, <4>2
    <3> QED BY <1>1, <1>3, <1>4, <2>2, <2>4, <3>1, <3>2
  <2> QED BY <2>3, <2>4
<1>12. BeatsIn(f, w) \in Nat /\ BeatsIn(f, w) <= f /\ BeatsIn(f, w) <= MemRatio * w
  BY <1>1, <1>3, <1>4, <1>7, <1>8
<1>13. BeatsIn(f, 0) = 0
  BY <1>2, <1>3, <1>4
<1> QED BY <1>10, <1>11, <1>12, <1>13
-----------------------------------------------------------------------------
(* The layout of a transaction with any arguments.                         *)

Argument == [dir : Sides, chn : Nat, beats : Nat, rep : Nat, whole : BOOLEAN]

LEMMA ArgumentFacts ==
  ASSUME NEW a \in Seq(Argument)
  PROVE  /\ Len(a) \in Nat /\ DOMAIN a = 1 .. Len(a) /\ IsFiniteSet(DOMAIN a)
         /\ \A i \in DOMAIN a :
              /\ i \in Nat /\ i >= 1
              /\ a[i] \in Argument
              /\ a[i].dir \in Sides /\ a[i].chn \in Nat /\ a[i].beats \in Nat
              /\ a[i].rep \in Nat
<1>1. Len(a) \in Nat /\ DOMAIN a = 1 .. Len(a)
  OBVIOUS
<1>2. IsFiniteSet(1 .. Len(a))
  BY <1>1, FS_Interval
<1>3. \A i \in DOMAIN a : a[i] \in Argument
  OBVIOUS
<1> QED BY <1>1, <1>2, <1>3 DEF Argument

(* The argument whose configuration counts, if there is one.               *)
LEMMA LastFacts ==
  ASSUME NEW a \in Seq(Argument), NEW d, NEW c
  PROVE  /\ Last(a, d, c) \in Nat
         /\ Last(a, d, c) # 0 =>
              Last(a, d, c) \in Towards(a, d) /\ a[Last(a, d, c)].chn = c
         /\ \A i \in Towards(a, d) : a[i].chn = c => i <= Last(a, d, c) /\ Last(a, d, c) # 0
<1> DEFINE S == {0} \cup {i \in Towards(a, d) : a[i].chn = c}
<1>1. S \in SUBSET Nat /\ S # {}
  BY ArgumentFacts DEF Towards
<1>2. IsFiniteSet(S)
  <2>1. {i \in Towards(a, d) : a[i].chn = c} \subseteq DOMAIN a
    BY DEF Towards
  <2>2. IsFiniteSet(DOMAIN a)
    BY ArgumentFacts
  <2>3. IsFiniteSet({i \in Towards(a, d) : a[i].chn = c})
    BY <2>1, <2>2, FS_Subset
  <2>4. S = {i \in Towards(a, d) : a[i].chn = c} \cup {0}
    OBVIOUS
  <2> QED BY <2>3, <2>4, FS_AddElement
<1>3. Last(a, d, c) = Max(S)
  BY DEF Last
<1>4. Max(S) \in S /\ \A y \in S : y <= Max(S)
  <2> HIDE DEF S
  <2> QED BY <1>1, <1>2, MaxOfNats
<1>5. \A i \in Towards(a, d) : i \in Nat /\ i >= 1
  BY ArgumentFacts DEF Towards
<1>6. \A i \in Towards(a, d) : a[i].chn = c => i <= Max(S)
  BY <1>4
<1>7. Max(S) \in Nat
  BY <1>1, <1>4
<1>8. Max(S) # 0 => Max(S) \in Towards(a, d) /\ a[Max(S)].chn = c
  BY <1>4
<1> HIDE DEF S
<1> QED BY <1>3, <1>5, <1>6, <1>7, <1>8

LEMMA EntryFacts ==
  ASSUME NEW a \in Seq(Argument), NEW m, NEW d, NEW c
  PROVE  /\ Entry(m, a, d, 1, c) \in Nat /\ Entry(m, a, d, 2, c) \in Nat
         /\ Last(a, d, c) = 0 => \A row \in 1 .. 3 : Entry(m, a, d, row, c) = 0
         /\ Last(a, d, c) # 0 =>
              /\ Entry(m, a, d, 1, c) = a[Last(a, d, c)].beats
              /\ Entry(m, a, d, 2, c) = a[Last(a, d, c)].rep
              /\ Entry(m, a, d, 3, c) = Offset(m, a, Last(a, d, c))
<1>1. Last(a, d, c) # 0 => Last(a, d, c) \in DOMAIN a
  BY LastFacts DEF Towards
<1> QED BY <1>1, ArgumentFacts DEF Entry

(* load_cfg finds what handleInputs has written.                           *)
LEMMA ConfigurationRead ==
  ASSUME NEW m, NEW a, NEW d \in Sides, NEW row \in 1 .. 3, NEW c \in Channels
  PROVE  Configuration(m, a)[1 + (IF d = "to" THEN 0 ELSE 4 * NumChannels)
                               + row * NumChannels + c] = Entry(m, a, d, row, c)
<1> DEFINE base == IF d = "to" THEN 0 ELSE 4 * NumChannels
           x == 1 + base + row * NumChannels + c
           y == row * NumChannels + c
<1>1. NumChannels \in Nat \ {0} /\ c \in 0 .. NumChannels - 1 /\ row \in 1 .. 3
  BY ChannelsAssumption DEF Channels
<1>2. /\ row * NumChannels \in Nat /\ NumChannels <= row * NumChannels
      /\ row * NumChannels <= 3 * NumChannels
  BY <1>1
<1>3. x \in 0 .. 8 * NumChannels /\ x # 0 /\ y \in 0 .. 4 * NumChannels - 1
  BY <1>1, <1>2
<1>4. (x - 1) % (4 * NumChannels) = y
  <2>1. 4 * NumChannels \in Nat \ {0}
    BY <1>1
  <2>2. x - 1 = (4 * NumChannels) * (IF d = "to" THEN 0 ELSE 1) + y
    BY <1>1, <1>2
  <2>3. x - 1 \in Int /\ (IF d = "to" THEN 0 ELSE 1) \in Int
    BY <1>3
  <2> HIDE DEF x, y, base
  <2> QED BY <1>3, <2>1, <2>2, <2>3, DivisionUnique
<1>5. y \div NumChannels = row /\ y % NumChannels = c
  <2>1. y = NumChannels * row + c /\ y \in Int /\ row \in Int
    BY <1>1, <1>2
  <2> HIDE DEF y
  <2> QED BY <1>1, <2>1, DivisionUnique
<1>6. x <= 4 * NumChannels <=> d = "to"
  BY <1>1, <1>2
<1>7. (IF x <= 4 * NumChannels THEN "to" ELSE "from") = d
  BY <1>6 DEF Sides
<1>8. Configuration(m, a)[x] =
        Entry(m, a, IF x <= 4 * NumChannels THEN "to" ELSE "from",
              ((x - 1) % (4 * NumChannels)) \div NumChannels,
              ((x - 1) % (4 * NumChannels)) % NumChannels)
  <2> HIDE DEF x, y, base
  <2> QED BY <1>3 DEF Configuration
<1>9. Configuration(m, a)[x] = Entry(m, a, d, row, c)
  <2> HIDE DEF x, y, base
  <2> QED BY <1>4, <1>5, <1>7, <1>8
<1> QED BY <1>9

(* Functional mode: arguments of a direction lie one behind the other.     *)
LEMMA Behind ==
  ASSUME NEW a \in Seq(Argument), NEW d \in Sides
  PROVE  /\ \A i \in Towards(a, d) :
              /\ Words(a[i].beats) \in Nat
              /\ Offset("FUNC", a, i) \in Nat
              /\ Offset("FUNC", a, i) + Words(a[i].beats) <= SumOf(WordsOf(a), Towards(a, d))
              /\ \A j \in Towards(a, d) : i < j =>
                   Offset("FUNC", a, i) + Words(a[i].beats) <= Offset("FUNC", a, j)
         /\ SumOf(WordsOf(a), Towards(a, d)) \in Nat
         /\ BufferSize("FUNC", a, d) = MemRatio * SumOf(WordsOf(a), Towards(a, d))
<1> DEFINE W == WordsOf(a)
           T == Towards(a, d)
           Before(i) == {j \in T : j < i}
<1>1. W \in [DOMAIN a -> Nat] /\ \A i \in T : W[i] = Words(a[i].beats) /\ W[i] \in Nat
  BY ArgumentFacts, WordsFacts DEF WordsOf, Towards
<1>2. T \in SUBSET DOMAIN a /\ IsFiniteSet(T) /\ T \subseteq Nat
  <2>1. T \in SUBSET DOMAIN a
    BY DEF Towards
  <2> QED BY <2>1, ArgumentFacts, FS_Subset
<1>3. \A i \in T : Offset("FUNC", a, i) = SumOf(W, Before(i))
  BY DEF Offset, SumOf, Towards
<1>4. BufferSize("FUNC", a, d) = MemRatio * SumOf(W, T)
  BY DEF BufferSize, SumOf
<1> HIDE DEF W, T
<1>5. ASSUME NEW S \in SUBSET T
      PROVE  S \in SUBSET DOMAIN a /\ IsFiniteSet(S) /\ SumOf(W, S) \in Nat
  <2>1. S \in SUBSET DOMAIN a /\ IsFiniteSet(S)
    BY <1>2, FS_Subset
  <2> QED BY <2>1, <1>1, SumType
<1>6. ASSUME NEW i \in T, NEW S \in SUBSET T, Before(i) \subseteq S, i \in S
      PROVE  SumOf(W, Before(i)) + W[i] <= SumOf(W, S)
  <2>1. Before(i) \in SUBSET T /\ i \notin Before(i) /\ i \in DOMAIN a
    BY <1>2
  <2>2. SumOf(W, Before(i) \cup {i}) = SumOf(W, Before(i)) + W[i]
    <3>1. Before(i) \in SUBSET DOMAIN a /\ IsFiniteSet(Before(i))
      BY <1>5, <2>1
    <3> HIDE DEF Before
    <3> QED BY <1>1, <2>1, <3>1, SumAdd
  <2>3. Before(i) \cup {i} \in SUBSET S
    BY <1>6
  <2>4. S \in SUBSET DOMAIN a /\ IsFiniteSet(S)
    BY <1>5
  <2> HIDE DEF Before
  <2>5. SumOf(W, Before(i) \cup {i}) <= SumOf(W, S)
    BY <1>1, <2>3, <2>4, SumMonotone
  <2> QED BY <2>2, <2>5
<1>7. ASSUME NEW i \in T
      PROVE  SumOf(W, Before(i)) + W[i] <= SumOf(W, T)
  <2>1. Before(i) \subseteq T /\ T \in SUBSET T
    OBVIOUS
  <2> QED BY <1>6, <2>1
<1>8. ASSUME NEW i \in T, NEW j \in T, i < j
      PROVE  SumOf(W, Before(i)) + W[i] <= SumOf(W, Before(j))
  <2>1. Before(j) \in SUBSET T /\ Before(i) \subseteq Before(j) /\ i \in Before(j)
    BY <1>2, <1>8
  <2> HIDE DEF Before
  <2> QED BY <1>6, <2>1
<1>9. SumOf(W, T) \in Nat /\ \A i \in T : SumOf(W, Before(i)) \in Nat
  BY <1>5
<1>10. \A i \in T : /\ Words(a[i].beats) \in Nat
                   /\ Offset("FUNC", a, i) \in Nat
                   /\ Offset("FUNC", a, i) + Words(a[i].beats) <= SumOf(W, T)
                   /\ \A j \in T : i < j =>
                        Offset("FUNC", a, i) + Words(a[i].beats) <= Offset("FUNC", a, j)
  <2> HIDE DEF Before
  <2> QED BY <1>1, <1>3, <1>7, <1>8, <1>9
<1> QED BY <1>4, <1>9, <1>10 DEF W, T

(* ... without a gap: every place of the buffer is in some argument.       *)
LEMMA NoGap ==
  ASSUME NEW a \in Seq(Argument), NEW d \in Sides,
         NEW p \in 1 .. BufferSize("FUNC", a, d)
  PROVE  \E i \in Towards(a, d) :
           /\ MemRatio * Offset("FUNC", a, i) < p
           /\ p <= MemRatio * Offset("FUNC", a, i) + MemRatio * Words(a[i].beats)
<1> DEFINE W == WordsOf(a)
           T == Towards(a, d)
           Before(i) == {j \in T : j < i}
           Beyond(i) == MemRatio * (Offset("FUNC", a, i) + Words(a[i].beats))
           E == {i \in T : p <= Beyond(i)}
<1>1. W \in [DOMAIN a -> Nat] /\ \A i \in T : W[i] = Words(a[i].beats) /\ W[i] \in Nat
  BY ArgumentFacts, WordsFacts DEF WordsOf, Towards
<1>2. T \in SUBSET DOMAIN a /\ IsFiniteSet(T) /\ T \subseteq Nat
  <2>1. T \in SUBSET DOMAIN a
    BY DEF Towards
  <2> QED BY <2>1, ArgumentFacts, FS_Subset
<1>3. \A i \in T : Offset("FUNC", a, i) = SumOf(W, Before(i))
  BY DEF Offset, SumOf, Towards
<1>4. /\ BufferSize("FUNC", a, d) = MemRatio * SumOf(W, T)
      /\ \A i \in T : Offset("FUNC", a, i) \in Nat
      /\ MemRatio \in Nat \ {0}
      /\ p \in Int /\ 0 < p /\ p <= MemRatio * SumOf(W, T)
  BY Behind, DepthAssumption
<1> HIDE DEF W, T
<1>5. ASSUME NEW i \in T, NEW S \in SUBSET T, i \in S, \A j \in S : j = i \/ j \in Before(i),
             Before(i) \subseteq S
      PROVE  SumOf(W, S) = SumOf(W, Before(i)) + W[i]
  <2>1. S = Before(i) \cup {i} /\ i \notin Before(i) /\ i \in DOMAIN a
    BY <1>2, <1>5
  <2>2. Before(i) \in SUBSET DOMAIN a /\ IsFiniteSet(Before(i))
    BY <1>2, FS_Subset
  <2> HIDE DEF Before
  <2> QED BY <1>1, <2>1, <2>2, SumAdd
<1>6. T # {}
  <2> SUFFICES ASSUME T = {} PROVE FALSE
    OBVIOUS
  <2>1. SumOf(W, T) = 0
    BY SumEmpty
  <2> QED BY <1>4, <2>1
<1>7. E # {}
  <2>1. PICK i \in T : \A j \in T : j <= i
    BY <1>2, <1>6, MaxOfNats
  <2>2. \A j \in T : j = i \/ j \in Before(i)
    BY <1>2, <2>1
  <2>3. SumOf(W, T) = SumOf(W, Before(i)) + W[i]
    <3>1. T \in SUBSET T /\ Before(i) \subseteq T
      OBVIOUS
    <3> HIDE DEF Before
    <3> QED BY <1>5, <2>2, <3>1
  <2>4. i \in E
    BY <1>1, <1>3, <1>4, <2>3
  <2> QED BY <2>4
<1>8. PICK i \in E : \A j \in E : j >= i
  <2>1. E \in SUBSET Nat /\ IsFiniteSet(E)
    BY <1>2, FS_Subset
  <2> HIDE DEF E
  <2> QED BY <1>7, <2>1, MinOfNats
<1>9. i \in T /\ p <= Beyond(i)
  OBVIOUS
<1>10. Beyond(i) = MemRatio * Offset("FUNC", a, i) + MemRatio * Words(a[i].beats)
  BY <1>1, <1>4, <1>9
<1>11. MemRatio * Offset("FUNC", a, i) < p
  <2>1. CASE Before(i) = {}
    <3>1. Offset("FUNC", a, i) = 0
      BY <1>3, <1>9, <2>1, SumEmpty
    <3> QED BY <1>4, <3>1
  <2>2. CASE Before(i) # {}
    <3>1. PICK j \in Before(i) : \A x \in Before(i) : x <= j
      <4>1. Before(i) \in SUBSET Nat /\ IsFiniteSet(Before(i))
        BY <1>2, FS_Subset
      <4> HIDE DEF Before
      <4> QED BY <2>2, <4>1, MaxOfNats
    <3>2. j \in T /\ j < i /\ i \in Nat /\ j \in Nat
      BY <1>2, <1>9
    <3>3. Before(j) \subseteq Before(i) /\ \A x \in Before(i) : x = j \/ x \in Before(j)
      BY <1>2, <3>1, <3>2
    <3>4. SumOf(W, Before(i)) = SumOf(W, Before(j)) + W[j]
      <4>1. Before(i) \in SUBSET T
        OBVIOUS
      <4> HIDE DEF Before
      <4> QED BY <1>5, <3>1, <3>2, <3>3, <4>1
    <3>5. MemRatio * Offset("FUNC", a, i) = Beyond(j)
      BY <1>1, <1>3, <1>9, <3>2, <3>4
    <3>6. j \notin E
      BY <1>8, <3>2
    <3>7. ~(p <= Beyond(j))
      BY <3>2, <3>6
    <3>8. Beyond(j) \in Int
      BY <1>1, <1>4, <3>2
    <3> HIDE DEF Beyond
    <3> QED BY <1>4, <3>5, <3>7, <3>8
  <2> QED BY <2>1, <2>2
<1> QED BY <1>9, <1>10, <1>11 DEF T

(* The beats of an argument are among the beats of the transaction.        *)
LEMMA BeatIn ==
  ASSUME NEW a \in Seq(Argument), NEW i \in DOMAIN a, NEW k \in 1 .. a[i].beats
  PROVE  <<i, k>> \in BeatsOf(a)
<1> DEFINE S == {0} \cup {a[j].beats : j \in DOMAIN a}
<1>1. S \subseteq Nat /\ S # {} /\ a[i].beats \in S /\ a[i].beats \in Nat
  BY ArgumentFacts
<1>2. IsFiniteSet(S)
  <2> DEFINE R == {a[j].beats : j \in DOMAIN a}
  <2>1. IsFiniteSet(DOMAIN a)
    BY ArgumentFacts
  <2>2. IsFiniteSet(R)
    <3> DEFINE f == [j \in DOMAIN a |-> a[j].beats]
    <3>1. f \in Surjection(DOMAIN a, R)
      BY DEF Surjection
    <3> HIDE DEF f, R
    <3> QED BY <2>1, <3>1, FS_Surjection
  <2>3. S = R \cup {0}
    OBVIOUS
  <2> HIDE DEF R, S
  <2> QED BY <2>2, <2>3, FS_AddElement
<1>3. Max(S) \in S /\ \A y \in S : y <= Max(S)
  <2> HIDE DEF S
  <2> QED BY <1>1, <1>2, MaxOfNats
<1>4. k \in 1 .. Max(S)
  <2> HIDE DEF S
  <2>1. Max(S) \in Nat /\ a[i].beats <= Max(S)
    BY <1>1, <1>3
  <2> DEFINE x == Max(S)
             y == a[i].beats
  <2>2. x \in Nat /\ y \in Nat /\ y <= x /\ k \in 1 .. y
    BY <1>1, <2>1
  <2> HIDE DEF x, y
  <2>3. k \in 1 .. x
    BY <2>2
  <2> QED BY <2>3 DEF x
<1>5. Longest(a) = Max(S)
  BY DEF Longest
<1> HIDE DEF S
<1> QED BY <1>4, <1>5 DEF BeatsOf

(* Performance mode: each channel has its place, whatever is on it.        *)
LEMMA PerfOffset ==
  ASSUME NEW a \in Seq(Argument), NEW i \in DOMAIN a
  PROVE  /\ Offset("PERF", a, i) \in Nat
         /\ MemRatio * Offset("PERF", a, i) = Depth * a[i].chn
         /\ a[i].chn \in Nat
<1> DEFINE q == Depth \div MemRatio
           c == a[i].chn
<1>1. c \in Nat /\ Offset("PERF", a, i) = q * c
  BY ArgumentFacts DEF Offset
<1>2. q \in Int /\ Depth = MemRatio * q + (Depth % MemRatio) /\ Depth % MemRatio = 0
      /\ Depth \in Nat \ {0} /\ MemRatio \in Nat \ {0}
  BY DepthAssumption, Division
<1> HIDE DEF q, c
<1>3. Depth = MemRatio * q
  BY <1>2
<1>4. q \in Nat
  BY <1>2, <1>3
<1>5. q * c \in Nat /\ MemRatio * (q * c) = (MemRatio * q) * c
  BY <1>1, <1>2, <1>4
<1> QED BY <1>1, <1>3, <1>5 DEF c

(* Two places of Depth beats do not overlap.                               *)
LEMMA Apart ==
  ASSUME NEW c \in Nat, NEW d \in Nat, NEW p \in Int,
         Depth * c < p, p <= Depth * c + Depth, Depth * d < p, p <= Depth * d + Depth
  PROVE  c = d
<1>1. Depth \in Nat \ {0}
  BY DepthAssumption
<1>2. ASSUME NEW x \in Nat, NEW y \in Nat, x < y
      PROVE  Depth * x + Depth <= Depth * y /\ Depth * x \in Int /\ Depth * y \in Int
  <2>1. Depth * (x + 1) <= Depth * y /\ Depth * (x + 1) = Depth * x + Depth
    BY <1>1, <1>2, Multiple
  <2> QED BY <1>1, <2>1
<1>3. ~(c < d)
  BY <1>1, <1>2
<1>4. ~(d < c)
  BY <1>1, <1>2
<1> QED BY <1>3, <1>4

(* Where the beats of argument i begin; Copied of them are in the buffer.  *)
Begin(m, a, i) == MemRatio * Offset(m, a, i)

LEMMA BeginFacts ==
  ASSUME NEW m \in {"FUNC", "PERF"}, NEW a \in Seq(Argument), ValidArguments(m, a),
         NEW d \in Sides, NEW i \in Towards(a, d)
  PROVE  /\ Begin(m, a, i) \in Nat
         /\ Copied(m, a, i) \in Nat /\ Copied(m, a, i) <= a[i].beats
         /\ Begin(m, a, i) + Copied(m, a, i) <= BufferSize(m, a, d)
         /\ BufferSize(m, a, d) \in Nat
<1>1. i \in DOMAIN a /\ a[i].beats \in Nat /\ a[i].chn \in Channels /\ MemRatio \in Nat \ {0}
      /\ Depth \in Nat \ {0} /\ NumChannels \in Nat \ {0}
  BY ArgumentFacts, DepthAssumption, ChannelsAssumption DEF Towards, ValidArguments
<1>2. CASE m = "FUNC"
  <2>1. /\ Offset("FUNC", a, i) \in Nat /\ Words(a[i].beats) \in Nat
        /\ a[i].beats <= MemRatio * Words(a[i].beats)
        /\ SumOf(WordsOf(a), Towards(a, d)) \in Nat
        /\ Offset("FUNC", a, i) + Words(a[i].beats) <= SumOf(WordsOf(a), Towards(a, d))
        /\ BufferSize("FUNC", a, d) = MemRatio * SumOf(WordsOf(a), Towards(a, d))
    BY <1>1, Behind, WordsFacts
  <2> DEFINE x == Offset("FUNC", a, i)
             y == Words(a[i].beats)
             z == SumOf(WordsOf(a), Towards(a, d))
  <2>2. Copied(m, a, i) = a[i].beats
    BY <1>2 DEF Copied
  <2>3. Begin(m, a, i) = MemRatio * x
    BY <1>2 DEF Begin
  <2>4. BufferSize(m, a, d) = MemRatio * z /\ a[i].beats <= MemRatio * y
        /\ x \in Nat /\ y \in Nat /\ z \in Nat /\ x + y <= z
    BY <1>2, <2>1
  <2> HIDE DEF x, y, z
  <2>5. MemRatio * (x + y) <= MemRatio * z /\ MemRatio * (x + y) = MemRatio * x + MemRatio * y
        /\ MemRatio * x \in Nat /\ MemRatio * y \in Nat /\ MemRatio * z \in Nat
    BY <1>1, <2>4, Multiple
  <2> QED BY <1>1, <2>2, <2>3, <2>4, <2>5
<1>3. CASE m = "PERF"
  <2>1. Copied(m, a, i) = IF a[i].beats <= Depth THEN a[i].beats ELSE Depth
    BY <1>1, <1>3, MinOfTwo DEF Copied
  <2>2. Begin(m, a, i) = Depth * a[i].chn
    BY <1>1, <1>3, PerfOffset DEF Begin
  <2>3. BufferSize(m, a, d) = Depth * NumChannels /\ Depth * NumChannels \in Nat
    BY <1>1, <1>3 DEF BufferSize
  <2> DEFINE c == a[i].chn
  <2>4. c \in Nat /\ c + 1 <= NumChannels
    BY <1>1 DEF Channels
  <2> HIDE DEF c
  <2>5. Depth * (c + 1) <= Depth * NumChannels /\ Depth * (c + 1) = Depth * c + Depth
        /\ Depth * c \in Nat
    BY <1>1, <2>4, Multiple
  <2> QED BY <1>1, <2>1, <2>2, <2>3, <2>5 DEF c
<1> QED BY <1>2, <1>3

(* An argument that shares its place with another shares its channel; in   *)
(* functional mode the words of two arguments are never the same.          *)
LEMMA OwnWords ==
  ASSUME NEW a \in Seq(Argument), NEW d \in Sides,
         NEW i \in Towards(a, d), NEW j \in Towards(a, d), NEW p \in Int,
         MemRatio * Offset("FUNC", a, i) < p,
         p <= MemRatio * Offset("FUNC", a, i) + MemRatio * Words(a[i].beats),
         MemRatio * Offset("FUNC", a, j) < p,
         p <= MemRatio * Offset("FUNC", a, j) + MemRatio * Words(a[j].beats)
  PROVE  i = j
<1>1. MemRatio \in Nat \ {0}
  BY DepthAssumption
<1>2. i \in Nat /\ j \in Nat
  BY ArgumentFacts DEF Towards
<1>3. ASSUME NEW x \in Towards(a, d), NEW y \in Towards(a, d), x < y
      PROVE  /\ MemRatio * Offset("FUNC", a, x) + MemRatio * Words(a[x].beats)
                  <= MemRatio * Offset("FUNC", a, y)
             /\ MemRatio * Offset("FUNC", a, x) \in Nat
             /\ MemRatio * Words(a[x].beats) \in Nat
             /\ MemRatio * Offset("FUNC", a, y) \in Nat
  <2> DEFINE u == Offset("FUNC", a, x)
             v == Words(a[x].beats)
             w == Offset("FUNC", a, y)
  <2>1. u \in Nat /\ v \in Nat /\ w \in Nat /\ u + v <= w
    BY <1>3, Behind
  <2> HIDE DEF u, v, w
  <2>2. MemRatio * (u + v) <= MemRatio * w /\ MemRatio * (u + v) = MemRatio * u + MemRatio * v
        /\ MemRatio * u \in Nat /\ MemRatio * v \in Nat /\ MemRatio * w \in Nat
    BY <1>1, <2>1, Multiple
  <2> QED BY <2>2 DEF u, v, w
<1>4. ~(i < j)
  BY <1>3
<1>5. ~(j < i)
  BY <1>3
<1> QED BY <1>2, <1>4, <1>5

(* The input buffer: every beat of it is somebody's, and the beats of the  *)
(* argument whose configuration counts are in their places.                *)
LEMMA InputBeat ==
  ASSUME NEW m \in {"FUNC", "PERF"}, NEW a \in Seq(Argument), ValidArguments(m, a),
         NEW c \in Channels, Last(a, "to", c) # 0,
         NEW k \in 1 .. a[Last(a, "to", c)].beats,
         m = "PERF" => a[Last(a, "to", c)].beats <= Depth
  PROVE  /\ Begin(m, a, Last(a, "to", c)) + k \in DOMAIN InputBuffer(m, a)
         /\ InputBuffer(m, a)[Begin(m, a, Last(a, "to", c)) + k] = <<Last(a, "to", c), k>>
<1> DEFINE i == Last(a, "to", c)
           p == Begin(m, a, i) + k
           writers == {j \in Towards(a, "to") :
                         Begin(m, a, j) < p /\ p <= Begin(m, a, j) + Copied(m, a, j)}
<1>1. i \in Towards(a, "to") /\ a[i].chn = c /\ i \in Nat /\ "to" \in Sides
  BY LastFacts DEF Sides
<1>2. i \in DOMAIN a /\ a[i].beats \in Nat /\ k \in 1 .. a[i].beats
      /\ Depth \in Nat \ {0} /\ MemRatio \in Nat \ {0}
  BY <1>1, ArgumentFacts, DepthAssumption DEF Towards
<1>3. /\ Begin(m, a, i) \in Nat
      /\ Copied(m, a, i) \in Nat
      /\ Begin(m, a, i) + Copied(m, a, i) <= BufferSize(m, a, "to")
      /\ BufferSize(m, a, "to") \in Nat
  BY <1>1, BeginFacts
<1>4. k <= Copied(m, a, i)
  <2>1. CASE m = "FUNC"
    BY <1>2, <2>1 DEF Copied
  <2>2. CASE m = "PERF"
    <3>1. Copied(m, a, i) = IF a[i].beats <= Depth THEN a[i].beats ELSE Depth
      BY <1>2, <2>2, MinOfTwo DEF Copied
    <3> QED BY <1>2, <2>2, <3>1
  <2> QED BY <2>1, <2>2
<1>5. p \in 1 .. BufferSize(m, a, "to")
  BY <1>2, <1>3, <1>4
<1>6. /\ InputBuffer(m, a)[p] =
           IF writers = {} THEN Blank ELSE <<Max(writers), p - Begin(m, a, Max(writers))>>
      /\ DOMAIN InputBuffer(m, a) = 1 .. BufferSize(m, a, "to")
  <2> HIDE DEF p
  <2> QED BY <1>5 DEF InputBuffer, Begin
<1>7. i \in writers
  BY <1>1, <1>2, <1>3, <1>4
<1>8. \A j \in writers : j <= i
  <2> SUFFICES ASSUME NEW j \in writers PROVE j <= i
    OBVIOUS
  <2>1. j \in Towards(a, "to") /\ j \in DOMAIN a /\ j \in Nat /\ a[j].beats \in Nat
        /\ Begin(m, a, j) < p /\ p <= Begin(m, a, j) + Copied(m, a, j) /\ p \in Int
        /\ Begin(m, a, j) \in Nat /\ Copied(m, a, j) \in Nat /\ Copied(m, a, j) <= a[j].beats
    <3>1. /\ j \in Towards(a, "to") /\ p \in Int
          /\ Begin(m, a, j) < p /\ p <= Begin(m, a, j) + Copied(m, a, j)
      BY <1>5
    <3>2. j \in DOMAIN a
      BY <3>1 DEF Towards
    <3>3. j \in Nat /\ a[j].beats \in Nat
      BY <3>2, ArgumentFacts
    <3>4. Begin(m, a, j) \in Nat /\ Copied(m, a, j) \in Nat /\ Copied(m, a, j) <= a[j].beats
      BY <1>1, <3>1, BeginFacts
    <3> QED BY <3>1, <3>2, <3>3, <3>4
  <2>2. CASE m = "FUNC"
    <3>1. /\ p <= MemRatio * Offset("FUNC", a, j) + MemRatio * Words(a[j].beats)
          /\ MemRatio * Offset("FUNC", a, j) < p
      <4>1. a[j].beats <= MemRatio * Words(a[j].beats) /\ MemRatio * Words(a[j].beats) \in Nat
            /\ Begin(m, a, j) = MemRatio * Offset("FUNC", a, j)
        BY <2>1, <2>2, WordsFacts DEF Begin
      <4> HIDE DEF p
      <4> QED BY <2>1, <4>1
    <3>2. /\ p <= MemRatio * Offset("FUNC", a, i) + MemRatio * Words(a[i].beats)
          /\ MemRatio * Offset("FUNC", a, i) < p
      <4>1. a[i].beats <= MemRatio * Words(a[i].beats) /\ MemRatio * Words(a[i].beats) \in Nat
            /\ Begin(m, a, i) = MemRatio * Offset("FUNC", a, i)
        BY <1>2, <2>2, WordsFacts DEF Begin
      <4> HIDE DEF i
      <4> QED BY <1>2, <1>3, <4>1
    <3>3. j = i
      <4> HIDE DEF i, p
      <4> QED BY <1>1, <2>1, <3>1, <3>2, OwnWords
    <3> QED BY <1>1, <3>3
  <2>3. CASE m = "PERF"
    <3>1. /\ Begin(m, a, j) = Depth * a[j].chn /\ a[j].chn \in Nat
          /\ Begin(m, a, i) = Depth * a[i].chn /\ a[i].chn \in Nat
      BY <1>2, <2>1, <2>3, PerfOffset DEF Begin
    <3>2. /\ Copied(m, a, j) = IF a[j].beats <= Depth THEN a[j].beats ELSE Depth
          /\ Copied(m, a, i) = IF a[i].beats <= Depth THEN a[i].beats ELSE Depth
      <4>1. a[j].beats \in Int /\ a[i].beats \in Int /\ Depth \in Int /\ m # "FUNC"
        BY <1>2, <2>1, <2>3
      <4> HIDE DEF i
      <4> QED BY <2>3, <4>1, MinOfTwo DEF Copied
    <3>3. Depth * a[i].chn < p /\ p <= Depth * a[i].chn + Depth
      <4> DEFINE q == Depth * a[i].chn
      <4>1. k \in Nat \ {0} /\ k <= Depth
        BY <1>2, <1>4, <3>2
      <4>2. q \in Nat /\ p = q + k
        BY <1>3, <3>1
      <4> HIDE DEF p, q, i
      <4>3. q < p /\ p <= q + Depth
        BY <1>2, <4>1, <4>2
      <4> QED BY <4>3 DEF q
    <3>4. Depth * a[j].chn < p /\ p <= Depth * a[j].chn + Depth
      <4> DEFINE q == Depth * a[j].chn
                 n == Copied(m, a, j)
      <4>1. n \in Nat /\ n <= Depth
        BY <1>2, <2>1, <3>2
      <4>2. q \in Nat /\ q < p /\ p <= q + n /\ p \in Int
        BY <2>1, <3>1
      <4> HIDE DEF p, q, n
      <4>3. q < p /\ p <= q + Depth
        BY <1>2, <4>1, <4>2
      <4> QED BY <4>3 DEF q
    <3>5. a[j].chn = a[i].chn
      <4> HIDE DEF p, i
      <4> QED BY <2>1, <3>1, <3>3, <3>4, Apart
    <3> QED BY <1>1, <2>1, <3>5, LastFacts
  <2> QED BY <2>2, <2>3
<1>9. Max(writers) = i
  <2>1. writers \subseteq DOMAIN a /\ IsFiniteSet(DOMAIN a) /\ DOMAIN a \subseteq Nat
    BY ArgumentFacts DEF Towards
  <2> HIDE DEF writers, i
  <2>2. IsFiniteSet(writers) /\ writers \in SUBSET Nat /\ writers # {}
    BY <1>7, <2>1, FS_Subset
  <2>3. Max(writers) \in writers /\ \A y \in writers : y <= Max(writers)
    BY <2>2, MaxOfNats
  <2> QED BY <1>1, <1>7, <1>8, <2>2, <2>3
<1> HIDE DEF writers
<1>10. p - Begin(m, a, i) = k
  BY <1>2, <1>3
<1> QED BY <1>5, <1>6, <1>7, <1>9, <1>10

LEMMA InputBeats ==
  ASSUME NEW m \in {"FUNC", "PERF"}, NEW a \in Seq(Argument), ValidArguments(m, a), NEW p
  PROVE  Read(InputBuffer(m, a), p) \in BeatsOf(a)
<1>1. Blank \in BeatsOf(a) /\ Outside \in BeatsOf(a)
  BY DEF BeatsOf
<1>2. CASE p \notin DOMAIN InputBuffer(m, a)
  BY <1>1, <1>2 DEF Read
<1>3. CASE p \in DOMAIN InputBuffer(m, a)
  <2> DEFINE writers == {j \in Towards(a, "to") :
                           Begin(m, a, j) < p /\ p <= Begin(m, a, j) + Copied(m, a, j)}
             i == Max(writers)
  <2>1. /\ p \in Int
        /\ Read(InputBuffer(m, a), p) =
             IF writers = {} THEN Blank ELSE <<i, p - Begin(m, a, i)>>
    BY <1>3 DEF InputBuffer, Begin, Read
  <2>2. CASE writers # {}
    <3>1. i \in writers
      <4>1. writers \subseteq DOMAIN a /\ IsFiniteSet(DOMAIN a) /\ DOMAIN a \subseteq Nat
        BY ArgumentFacts DEF Towards
      <4> HIDE DEF writers
      <4>2. IsFiniteSet(writers) /\ writers \in SUBSET Nat
        BY <4>1, FS_Subset
      <4> QED BY <2>2, <4>2, MaxOfNats
    <3> HIDE DEF i
    <3>2. i \in Towards(a, "to") /\ i \in DOMAIN a /\ "to" \in Sides
          /\ Begin(m, a, i) < p /\ p <= Begin(m, a, i) + Copied(m, a, i)
      BY <3>1 DEF Towards, Sides
    <3>3. Begin(m, a, i) \in Nat /\ Copied(m, a, i) \in Nat /\ Copied(m, a, i) <= a[i].beats
          /\ a[i].beats \in Nat
      BY <3>2, BeginFacts, ArgumentFacts
    <3>4. p - Begin(m, a, i) \in 1 .. a[i].beats
      BY <2>1, <3>2, <3>3
    <3> QED BY <2>1, <2>2, <3>2, <3>4, BeatIn
  <2> QED BY <1>1, <2>1, <2>2
<1> QED BY <1>2, <1>3
-----------------------------------------------------------------------------
(* The invariant.                                                          *)

Held == cfg_ptr # <<>>

(* What load_cfg reads of a configuration.                                 *)
Rows(m, a) ==
  [mode |-> m,
   numFrames |-> [d \in Sides |-> [c \in Channels |-> Entry(m, a, d, 1, c)]],
   numRep |-> [d \in Sides |-> [c \in Channels |-> Entry(m, a, d, 2, c)]],
   offsets |-> [d \in Sides |-> [c \in Channels |-> Entry(m, a, d, 3, c)]]]

NoRows ==
  LET zero == [d \in Sides |-> ChannelZero]
  IN [mode |-> "FUNC", numFrames |-> zero, numRep |-> zero, offsets |-> zero]

(* How far the call is, and what the transaction holds for the kernel.     *)
CallInv ==
  /\ mode \in {"FUNC", "PERF"} /\ args \in Seq(Argument)
  /\ status \in {"NONE", "CREATED", "READY", "RUNNING", "TIMEOUT", "DONE"}
  /\ kernel \in {"idle", "running", "ended"}
  /\ kernel = "idle" <=> status \in {"NONE", "CREATED", "READY"}
  /\ status = "DONE" => kernel = "ended"
  /\ status \in {"NONE", "CREATED"} => ~Held
  /\ status \in {"READY", "RUNNING"} => Held
  /\ status \notin {"NONE", "CREATED"} =>
       ValidArguments(mode, args) /\ result_valid = FitsBuffers(mode, args)
  /\ Held =>
       /\ cfg_ptr = Configuration(mode, args)
       /\ to_aie = InputBuffer(mode, args)
       /\ DOMAIN from_aie = 1 .. BufferSize(mode, args, "from")
       /\ from_mem_word_offset = [c \in Channels |-> Entry(mode, args, "from", 3, c)]
  /\ ~Held => from_aie = <<>>
  /\ inst = IF kernel = "idle" THEN NoRows ELSE Rows(mode, args)

Beat == BeatsOf(args)
MemoryWord == [1 .. MemRatio -> Beat]

ShapeInv ==
  /\ stalled \subseteq Channels
  /\ loadRegs \in [Turns -> Channels] /\ storeRegs \in [Turns -> Channels]
  /\ loadValid \in 0 .. NumChannels /\ storeValid \in 0 .. NumChannels
  /\ loaded \in [Channels -> Nat] /\ stored \in [Channels -> Nat]
  /\ fed \in [Channels -> Nat] /\ gotten \in [Channels -> Nat]
  /\ toStrm \in [Channels -> Seq(MemoryWord)] /\ fromStrm \in [Channels -> Seq(MemoryWord)]
  /\ aie \in [Channels -> Seq(Beat)]
  /\ buff \in [Sides -> [Channels -> [0 .. Depth - 1 -> Beat]]]
  /\ \A p \in DOMAIN from_aie : from_aie[p] \in Beat

IdleInv ==
  kernel = "idle" =>
    /\ loaded = ChannelZero /\ stored = ChannelZero
    /\ fed = ChannelZero /\ gotten = ChannelZero
    /\ toStrm = ChannelEmpty /\ fromStrm = ChannelEmpty /\ aie = ChannelEmpty
    /\ loadRegs = FilledRegs /\ storeRegs = FilledRegs
    /\ buff = [d \in Sides |-> [c \in Channels |-> [x \in 0 .. Depth - 1 |-> Noise]]]
    /\ Held => \A p \in DOMAIN from_aie : from_aie[p] = Blank

(* A channel that is not finished is in the window of valid ones.          *)
InWindow(regs, valid, c) == \E i \in 1 .. valid : regs[i] = c

WindowInv ==
  kernel # "idle" /\ inst.mode = "FUNC" =>
    \A c \in Channels :
      /\ LoadLeft(c) # 0 => InWindow(loadRegs, loadValid, c)
      /\ StoreLeft(c) # 0 => InWindow(storeRegs, storeValid, c)

Source(c) == Last(args, "to", c)

(* Functional mode: where each beat of a channel is.                       *)
Into(c) == BeatsIn(Frames("to", c), fed[c])
OutOf(c) == BeatsIn(Frames("from", c), gotten[c])

LoadInv(c) ==
  /\ fed[c] <= loaded[c] /\ loaded[c] <= Words(Frames("to", c))
  /\ Len(toStrm[c]) = loaded[c] - fed[c] /\ Len(toStrm[c]) <= Capacity
  /\ \A j \in 1 .. Len(toStrm[c]), b \in 1 .. MemRatio :
       LET k == MemRatio * (fed[c] + j - 1) + b IN
       k <= Frames("to", c) => toStrm[c][j][b] = <<Source(c), k>>

GraphInv(c) ==
  /\ gotten[c] <= Words(Frames("from", c))
  /\ OutOf(c) <= Into(c) /\ Len(aie[c]) = Into(c) - OutOf(c)
  /\ \A j \in 1 .. Len(aie[c]) : aie[c][j] = <<Source(c), OutOf(c) + j>>

StreamInv(c) ==
  /\ stored[c] <= gotten[c]
  /\ Len(fromStrm[c]) = gotten[c] - stored[c] /\ Len(fromStrm[c]) <= Capacity
  /\ \A j \in 1 .. Len(fromStrm[c]), b \in 1 .. MemRatio :
       LET k == MemRatio * (stored[c] + j - 1) + b IN
       fromStrm[c][j][b] = IF k <= Frames("from", c) THEN <<Source(c), k>> ELSE Blank

FunctionalInv ==
  kernel # "idle" /\ inst.mode = "FUNC" =>
    \A c \in Channels : LoadInv(c) /\ GraphInv(c) /\ StreamInv(c)

(* Functional mode: the words of an argument in the result buffer.         *)
PlacedInv ==
  kernel # "idle" /\ Held /\ inst.mode = "FUNC" =>
    \A i \in Towards(args, "from") : \A k \in 1 .. MemRatio * Words(args[i].beats) :
      from_aie[MemRatio * Offset("FUNC", args, i) + k] =
        IF /\ i = Last(args, "from", args[i].chn)
           /\ k <= MemRatio * stored[args[i].chn] /\ k <= args[i].beats
          THEN Echo(args[i].chn, k) ELSE Blank

(* Performance mode: the buffers hold the data, and what came last.        *)
RepeatInv(c) ==
  /\ toStrm[c] = <<>> /\ fromStrm[c] = <<>>
  /\ loaded[c] = 0 /\ stored[c] = 0
  /\ fed[c] <= Total("to", c) /\ gotten[c] <= Total("from", c)
  /\ gotten[c] <= fed[c] /\ Len(aie[c]) = fed[c] - gotten[c]
  /\ Frames("to", c) <= Depth =>
       /\ \A x \in 0 .. Frames("to", c) - 1 : buff["to"][c][x] = <<Source(c), x + 1>>
       /\ \A j \in 1 .. Len(aie[c]) : aie[c][j] = Echo(c, gotten[c] + j)
       /\ Frames("from", c) <= Depth =>
            \A k \in 1 .. gotten[c] :
              gotten[c] - k < Frames("from", c) =>
                buff["from"][c][(k - 1) % Frames("from", c)] = Echo(c, k)

PerformanceInv ==
  kernel # "idle" /\ inst.mode = "PERF" =>
    /\ loadValid = 0 /\ storeValid = 0
    /\ \A c \in Channels : RepeatInv(c)

(* The arguments whose results must be right when the kernel has ended.    *)
Due(i) ==
  /\ i \in Towards(args, "from")
  /\ i = Last(args, "from", args[i].chn)
  /\ mode = "PERF" => /\ args[i].beats <= Depth /\ args[i].rep # 0
                      /\ FitsBuffers(mode, args)

Result(i, k) == Echo(args[i].chn, (args[i].rep - 1) * args[i].beats + k)

EndInv ==
  kernel = "ended" =>
    /\ Held => perf_ptr = StorePerf
    /\ Held => \A i \in DOMAIN args : Due(i) =>
         \A k \in 1 .. args[i].beats :
           from_aie[MemRatio * Offset(mode, args, i) + k] = Result(i, k)
    /\ mode = "FUNC" => \A c \in Channels : StoreLeft(c) = 0

ReturnInv ==
  Returned =>
    /\ \A i \in DOMAIN args : perf_map[i] =
         <<[dir |-> args[i].dir, chn |-> args[i].chn, cc |-> "first"],
           [dir |-> args[i].dir, chn |-> args[i].chn, cc |-> "last"]>>
    /\ \A i \in DOMAIN args : Due(i) =>
         \A k \in 1 .. args[i].beats : user[i][k] = Result(i, k)

MoverInv ==
  /\ CallInv /\ ShapeInv /\ IdleInv /\ WindowInv
  /\ FunctionalInv /\ PlacedInv /\ PerformanceInv
  /\ EndInv /\ ReturnInv

-----------------------------------------------------------------------------
(* What the kernel knows of the transaction.                               *)

LEMMA RowFacts ==
  ASSUME CallInv, kernel # "idle", NEW c \in Channels, NEW d \in Sides
  PROVE  /\ inst.mode = mode /\ mode \in {"FUNC", "PERF"}
         /\ Frames(d, c) \in Nat /\ inst.numRep[d][c] \in Nat
         /\ Total(d, c) \in Nat
         /\ Last(args, d, c) \in Nat
         /\ Last(args, d, c) = 0 => Frames(d, c) = 0
         /\ Last(args, d, c) # 0 =>
              /\ Last(args, d, c) \in Towards(args, d) /\ Last(args, d, c) \in DOMAIN args
              /\ args[Last(args, d, c)].chn = c
              /\ Frames(d, c) = args[Last(args, d, c)].beats
              /\ inst.numRep[d][c] = args[Last(args, d, c)].rep
              /\ inst.offsets[d][c] = Offset(mode, args, Last(args, d, c))
              /\ mode = "FUNC" => args[Last(args, d, c)].rep = 1
<1>1. args \in Seq(Argument) /\ inst = Rows(mode, args) /\ ValidArguments(mode, args)
      /\ mode \in {"FUNC", "PERF"}
  BY DEF CallInv
<1>2. /\ inst.mode = mode
      /\ Frames(d, c) = Entry(mode, args, d, 1, c)
      /\ inst.numRep[d][c] = Entry(mode, args, d, 2, c)
      /\ inst.offsets[d][c] = Entry(mode, args, d, 3, c)
  BY <1>1 DEF Rows, Frames
<1>3. Last(args, d, c) \in Nat
      /\ (Last(args, d, c) # 0 =>
            Last(args, d, c) \in Towards(args, d) /\ args[Last(args, d, c)].chn = c)
  BY <1>1, LastFacts
<1>4. Last(args, d, c) # 0 => Last(args, d, c) \in DOMAIN args
  BY <1>3 DEF Towards
<1>5. Frames(d, c) \in Nat /\ inst.numRep[d][c] \in Nat
  BY <1>1, <1>2, EntryFacts
<1>6. Total(d, c) \in Nat
  BY <1>5, WordsFacts DEF Total
<1>7. \A i \in DOMAIN args : mode = "FUNC" => args[i].rep = 1
  BY <1>1 DEF ValidArguments
<1>8. Last(args, d, c) = 0 => Frames(d, c) = 0
  BY <1>1, <1>2, EntryFacts
<1>9. Last(args, d, c) # 0 =>
              /\ Frames(d, c) = args[Last(args, d, c)].beats
              /\ inst.numRep[d][c] = args[Last(args, d, c)].rep
              /\ inst.offsets[d][c] = Offset(mode, args, Last(args, d, c))
  BY <1>1, <1>2, EntryFacts
<1> QED BY <1>1, <1>2, <1>3, <1>4, <1>5, <1>6, <1>7, <1>8, <1>9

(* What load_cfg reads is what the arguments say.                          *)
LEMMA RowsLoaded ==
  ASSUME cfg_ptr = Configuration(mode, args), mode \in {"FUNC", "PERF"}
  PROVE  LoadCfg = Rows(mode, args)
<1>1. ASSUME NEW d \in Sides, NEW row \in 1 .. 3
      PROVE  CfgRow(d, row) = [c \in Channels |-> Entry(mode, args, d, row, c)]
  <2>1. \A c \in Channels :
          cfg_ptr[1 + (IF d = "to" THEN 0 ELSE 4 * NumChannels) + row * NumChannels + c]
            = Entry(mode, args, d, row, c)
    BY ConfigurationRead
  <2> QED BY <2>1 DEF CfgRow
<1>2. cfg_ptr[0] = IF mode = "FUNC" THEN 0 ELSE 1
  <2>1. 0 \in 0 .. 8 * NumChannels
    BY ChannelsAssumption
  <2> QED BY <2>1 DEF Configuration
<1>3. (IF cfg_ptr[0] = 0 THEN "FUNC" ELSE "PERF") = mode
  BY <1>2
<1>4. \A row \in 1 .. 3 : [d \in Sides |-> CfgRow(d, row)] =
        [d \in Sides |-> [c \in Channels |-> Entry(mode, args, d, row, c)]]
  BY <1>1
<1>5. 1 \in 1 .. 3 /\ 2 \in 1 .. 3 /\ 3 \in 1 .. 3
  OBVIOUS
<1>6. /\ [d \in Sides |-> CfgRow(d, 1)] =
           [d \in Sides |-> [c \in Channels |-> Entry(mode, args, d, 1, c)]]
      /\ [d \in Sides |-> CfgRow(d, 2)] =
           [d \in Sides |-> [c \in Channels |-> Entry(mode, args, d, 2, c)]]
      /\ [d \in Sides |-> CfgRow(d, 3)] =
           [d \in Sides |-> [c \in Channels |-> Entry(mode, args, d, 3, c)]]
  BY <1>4, <1>5
<1> QED BY <1>3, <1>6, Zenon DEF LoadCfg, Rows

(* The beats of a channel's input are read where the configuration says.   *)
LEMMA InputRead ==
  ASSUME CallInv, kernel # "idle", Held, NEW c \in Channels,
         NEW k \in 1 .. Frames("to", c), mode = "PERF" => Frames("to", c) <= Depth
  PROVE  /\ Source(c) # 0
         /\ inst.offsets["to"][c] \in Nat
         /\ Read(to_aie, MemRatio * inst.offsets["to"][c] + k) = <<Source(c), k>>
<1> DEFINE i == Last(args, "to", c)
<1>1. "to" \in Sides
  BY DEF Sides
<1>2. i # 0
  BY <1>1, RowFacts
<1>3. /\ Frames("to", c) = args[i].beats
      /\ inst.offsets["to"][c] = Offset(mode, args, i)
      /\ i \in Towards(args, "to") /\ i \in DOMAIN args
  BY <1>1, <1>2, RowFacts
<1>4. args \in Seq(Argument) /\ ValidArguments(mode, args) /\ to_aie = InputBuffer(mode, args)
      /\ mode \in {"FUNC", "PERF"}
  BY DEF CallInv
<1>5. /\ Begin(mode, args, i) + k \in DOMAIN to_aie
      /\ to_aie[Begin(mode, args, i) + k] = <<i, k>>
  BY <1>2, <1>3, <1>4, InputBeat
<1>6. inst.offsets["to"][c] \in Nat
  <2>1. CASE mode = "FUNC"
    BY <1>1, <1>3, <1>4, <2>1, Behind
  <2>2. CASE mode = "PERF"
    BY <1>3, <1>4, <2>2, PerfOffset
  <2> QED BY <1>4, <2>1, <2>2
<1> QED BY <1>2, <1>3, <1>5, <1>6 DEF Begin, Read, Source

-----------------------------------------------------------------------------
(* The steps of the call.                                                  *)

LEMMA ThreeBeats ==
  ASSUME NEW a
  PROVE  Blank \in BeatsOf(a) /\ Outside \in BeatsOf(a) /\ Noise \in BeatsOf(a)
BY DEF BeatsOf

LEMMA IdleShapes ==
  ASSUME NEW a
  PROVE  /\ ChannelZero \in [Channels -> Nat]
         /\ ChannelEmpty \in [Channels -> Seq([1 .. MemRatio -> BeatsOf(a)])]
         /\ ChannelEmpty \in [Channels -> Seq(BeatsOf(a))]
         /\ FilledRegs \in [Turns -> Channels]
         /\ [d \in Sides |-> [c \in Channels |-> [x \in 0 .. Depth - 1 |-> Noise]]]
              \in [Sides -> [Channels -> [0 .. Depth - 1 -> BeatsOf(a)]]]
<1>1. FilledRegs \in [Turns -> Channels]
  BY ChannelsAssumption DEF FilledRegs, Turns, Channels
<1>2. ASSUME NEW S
      PROVE  ChannelEmpty \in [Channels -> Seq(S)]
  BY DEF ChannelEmpty
<1> QED BY <1>1, <1>2, ThreeBeats DEF ChannelZero

LEMMA MoverInvInit == MoverInit => MoverInv
<1> SUFFICES ASSUME MoverInit PROVE MoverInv
  OBVIOUS
<1> USE DEF MoverInit, LayoutInit
<1>1. ~Held /\ from_aie = <<>> /\ DOMAIN from_aie = {}
  BY DEF Held
<1>2. CallInv
  <2>1. args \in Seq(Argument)
    OBVIOUS
  <2>2. inst = NoRows
    BY Zenon DEF NoRows
  <2> QED BY <1>1, <2>1, <2>2 DEF CallInv
<1>3. ShapeInv
  <2>1. loadValid \in 0 .. NumChannels /\ storeValid \in 0 .. NumChannels
    BY ChannelsAssumption
  <2> QED BY <1>1, <2>1, IdleShapes DEF ShapeInv, Beat, MemoryWord
<1>4. IdleInv /\ WindowInv /\ FunctionalInv /\ PlacedInv /\ PerformanceInv /\ EndInv
  BY <1>1 DEF IdleInv, WindowInv, FunctionalInv, PlacedInv, PerformanceInv, EndInv
<1>5. ReturnInv
  BY DEF ReturnInv, Returned
<1> QED BY <1>2, <1>3, <1>4, <1>5 DEF MoverInv

(* An idle kernel has only its shapes to keep.                             *)
LEMMA StillIdle ==
  ASSUME MoverInv, kernel = "idle", kernel' = kernel, CallInv',
         UNCHANGED <<stalled, buff, loadVars, storeVars, streamVars>>,
         \A p \in DOMAIN from_aie' : from_aie'[p] = Blank,
         status' # "DONE"
  PROVE  MoverInv'
<1> USE DEF loadVars, storeVars, streamVars
<1>1. /\ ShapeInv /\ loaded = ChannelZero /\ stored = ChannelZero
      /\ fed = ChannelZero /\ gotten = ChannelZero
      /\ toStrm = ChannelEmpty /\ fromStrm = ChannelEmpty /\ aie = ChannelEmpty
      /\ loadRegs = FilledRegs /\ storeRegs = FilledRegs
      /\ buff = [d \in Sides |-> [c \in Channels |-> [x \in 0 .. Depth - 1 |-> Noise]]]
  BY DEF MoverInv, IdleInv
<1>2. IdleInv'
  BY <1>1 DEF IdleInv
<1>3. ShapeInv'
  <2>1. \A p \in DOMAIN from_aie' : from_aie'[p] \in BeatsOf(args')
    BY ThreeBeats
  <2>2. /\ ChannelZero \in [Channels -> Nat]
        /\ ChannelEmpty \in [Channels -> Seq([1 .. MemRatio -> BeatsOf(args')])]
        /\ ChannelEmpty \in [Channels -> Seq(BeatsOf(args'))]
        /\ FilledRegs \in [Turns -> Channels]
        /\ [d \in Sides |-> [c \in Channels |-> [x \in 0 .. Depth - 1 |-> Noise]]]
             \in [Sides -> [Channels -> [0 .. Depth - 1 -> BeatsOf(args')]]]
    BY IdleShapes
  <2>3. stalled' \subseteq Channels /\ loadValid' \in 0 .. NumChannels
        /\ storeValid' \in 0 .. NumChannels
    BY <1>1 DEF ShapeInv
  <2>4. /\ loaded' = ChannelZero /\ stored' = ChannelZero
        /\ fed' = ChannelZero /\ gotten' = ChannelZero
        /\ toStrm' = ChannelEmpty /\ fromStrm' = ChannelEmpty /\ aie' = ChannelEmpty
        /\ loadRegs' = FilledRegs /\ storeRegs' = FilledRegs
        /\ buff' = [d \in Sides |-> [c \in Channels |-> [x \in 0 .. Depth - 1 |-> Noise]]]
    BY <1>1
  <2> QED BY <2>1, <2>2, <2>3, <2>4 DEF ShapeInv, Beat, MemoryWord
<1>4. WindowInv' /\ FunctionalInv' /\ PlacedInv' /\ PerformanceInv' /\ EndInv' /\ ReturnInv'
  BY DEF WindowInv, FunctionalInv, PlacedInv, PerformanceInv, EndInv, ReturnInv, Returned
<1> QED BY <1>2, <1>3, <1>4 DEF MoverInv

LEMMA CallStep ==
  ASSUME MoverInv, Call
  PROVE  MoverInv'
<1>1. PICK run \in Runs, limit \in TimeOuts : HandleInputs(run, limit)
  BY DEF Call
<1>2. UNCHANGED <<stalled, kernel, inst, buff, loadVars, storeVars, streamVars>>
  BY DEF Call
<1>3. run.mode \in {"FUNC", "PERF"} /\ run.args \in Seq(Argument)
  BY RunsAssumption DEF Argument, Sides
<1>4. /\ status = "NONE" /\ kernel = "idle" /\ ~Held /\ from_aie = <<>> /\ inst = NoRows
      /\ mode' = run.mode /\ args' = run.args
  BY <1>1 DEF HandleInputs, MoverInv, CallInv
<1>5. CASE ValidArguments(run.mode, run.args)
  <2>1. /\ status' = "READY" /\ result_valid' = FitsBuffers(mode', args')
        /\ cfg_ptr' = Configuration(mode', args')
        /\ to_aie' = InputBuffer(mode', args')
        /\ from_aie' = [p \in 1 .. BufferSize(mode', args', "from") |-> Blank]
        /\ from_mem_word_offset' = [c \in Channels |-> Entry(mode', args', "from", 3, c)]
    BY <1>1, <1>4, <1>5 DEF HandleInputs
  <2>2. cfg_ptr' # <<>>
    <3>1. DOMAIN cfg_ptr' = 0 .. 8 * NumChannels
      BY <2>1 DEF Configuration
    <3>2. 0 \in 0 .. 8 * NumChannels /\ DOMAIN <<>> = {}
      BY ChannelsAssumption
    <3> QED BY <3>1, <3>2
  <2>3. CallInv'
    BY <1>2, <1>3, <1>4, <1>5, <2>1, <2>2 DEF CallInv, Held
  <2>4. \A p \in DOMAIN from_aie' : from_aie'[p] = Blank
    BY <2>1
  <2> QED BY <1>2, <1>4, <2>1, <2>3, <2>4, StillIdle
<1>6. CASE ~ValidArguments(run.mode, run.args)
  <2>1. status' = "CREATED" /\ cfg_ptr' = cfg_ptr /\ from_aie' = from_aie
    BY <1>1, <1>6 DEF HandleInputs, bufferVars
  <2>2. CallInv'
    BY <1>2, <1>3, <1>4, <2>1 DEF CallInv, Held
  <2>3. \A p \in DOMAIN from_aie' : from_aie'[p] = Blank
    BY <1>4, <2>1
  <2> QED BY <1>2, <1>4, <2>1, <2>2, <2>3, StillIdle
<1> QED BY <1>5, <1>6

LEMMA AnswerStep ==
  ASSUME MoverInv, Answer
  PROVE  MoverInv'
<1> USE DEF callVars, bufferVars, outputVars, loadVars, storeVars, streamVars
<1>1. /\ status = "RUNNING" /\ Held /\ kernel # "idle"
      /\ status' \in {"TIMEOUT", "DONE"} /\ (status' = "DONE" => kernel = "ended")
      /\ UNCHANGED <<mode, args, given, timeOut, result_valid, from_mem_word_offset,
                     cfg_ptr, perf_ptr, to_aie, from_aie, user, perf_map, stalled, kernel,
                     inst, buff, loadRegs, loadValid, loaded, storeRegs, storeValid, stored,
                     toStrm, fed, aie, gotten, fromStrm>>
  BY DEF Answer, MoverInv, CallInv
<1>2. CallInv'
  BY <1>1 DEF MoverInv, CallInv, Held
<1>3. ~Returned'
  BY <1>1 DEF Returned, Held
<1>4. ReturnInv'
  BY <1>3 DEF ReturnInv
<1>5. ShapeInv' /\ IdleInv'
  BY <1>1 DEF MoverInv, ShapeInv, Beat, MemoryWord, IdleInv, Held
<1>6. WindowInv'
  BY <1>1 DEF MoverInv, WindowInv, InWindow, LoadLeft, StoreLeft, Frames
<1>7. FunctionalInv'
  BY <1>1 DEF MoverInv, FunctionalInv, LoadInv, GraphInv, StreamInv, Frames, Source, Into, OutOf
<1>8. PlacedInv'
  BY <1>1 DEF MoverInv, PlacedInv, Held, Echo
<1>9. PerformanceInv'
  BY <1>1 DEF MoverInv, PerformanceInv, RepeatInv, Frames, Total, Source, Echo
<1>10. EndInv'
  BY <1>1 DEF MoverInv, EndInv, Held, Due, Result, Echo, StoreLeft, Frames
<1> QED BY <1>2, <1>4, <1>5, <1>6, <1>7, <1>8, <1>9, <1>10 DEF MoverInv

(* The words of an argument are in the buffer.                             *)
LEMMA WordsInside ==
  ASSUME NEW a \in Seq(Argument), NEW d \in Sides, NEW i \in Towards(a, d),
         NEW k \in 1 .. MemRatio * Words(a[i].beats)
  PROVE  /\ MemRatio * Offset("FUNC", a, i) \in Nat
         /\ MemRatio * Offset("FUNC", a, i) + k \in 1 .. BufferSize("FUNC", a, d)
<1> DEFINE x == Offset("FUNC", a, i)
           y == Words(a[i].beats)
           z == SumOf(WordsOf(a), Towards(a, d))
<1>1. /\ x \in Nat /\ y \in Nat /\ z \in Nat /\ x + y <= z
      /\ BufferSize("FUNC", a, d) = MemRatio * z
      /\ MemRatio \in Nat \ {0}
      /\ k \in 1 .. MemRatio * y
  BY Behind, DepthAssumption
<1> HIDE DEF x, y, z
<1>2. MemRatio * (x + y) <= MemRatio * z /\ MemRatio * (x + y) = MemRatio * x + MemRatio * y
      /\ MemRatio * x \in Nat /\ MemRatio * y \in Nat /\ MemRatio * z \in Nat
  BY <1>1, Multiple
<1>3. MemRatio * x + k \in 1 .. MemRatio * z
  BY <1>1, <1>2
<1> QED BY <1>1, <1>2, <1>3 DEF x

LEMMA KernelStartStep ==
  ASSUME MoverInv, KernelStart
  PROVE  MoverInv'
<1> USE DEF callVars, bufferVars, outputVars, streamVars
<1> DEFINE valid == IF LoadCfg.mode = "FUNC" THEN NumChannels ELSE 0
<1>1. /\ status = "READY" /\ status' = "RUNNING" /\ kernel' = "running"
      /\ buff' = [buff EXCEPT !["to"] = [c \in Channels |-> LoadBuff(LoadCfg, c)]]
      /\ loadValid' = valid /\ storeValid' = valid
      /\ inst' = LoadCfg
      /\ UNCHANGED <<mode, args, given, timeOut, result_valid, from_mem_word_offset,
                     cfg_ptr, perf_ptr, to_aie, from_aie, user, perf_map, stalled,
                     loadRegs, loaded, storeRegs, stored,
                     toStrm, fed, aie, gotten, fromStrm>>
  BY DEF KernelStart
<1>2. /\ CallInv /\ ShapeInv /\ IdleInv /\ kernel = "idle" /\ Held
      /\ mode \in {"FUNC", "PERF"} /\ args \in Seq(Argument) /\ ValidArguments(mode, args)
      /\ to_aie = InputBuffer(mode, args)
      /\ DOMAIN from_aie = 1 .. BufferSize(mode, args, "from")
      /\ cfg_ptr = Configuration(mode, args)
  BY <1>1 DEF MoverInv, CallInv
<1>3. /\ loaded = ChannelZero /\ stored = ChannelZero
      /\ fed = ChannelZero /\ gotten = ChannelZero
      /\ toStrm = ChannelEmpty /\ fromStrm = ChannelEmpty /\ aie = ChannelEmpty
      /\ loadRegs = FilledRegs /\ storeRegs = FilledRegs
      /\ buff = [d \in Sides |-> [c \in Channels |-> [x \in 0 .. Depth - 1 |-> Noise]]]
      /\ \A p \in DOMAIN from_aie : from_aie[p] = Blank
  BY <1>2 DEF IdleInv
<1>4. LoadCfg = Rows(mode, args) /\ inst' = Rows(mode, args)
  BY <1>1, <1>2, RowsLoaded
<1>5. /\ inst'.mode = mode
      /\ \A d \in Sides, c \in Channels :
           /\ Frames(d, c)' = Entry(mode, args, d, 1, c)
           /\ Total(d, c)' \in Nat
           /\ inst'.numRep[d][c] = Entry(mode, args, d, 2, c)
           /\ inst'.offsets[d][c] = Entry(mode, args, d, 3, c)
           /\ Frames(d, c)' \in Nat
  <2>1. /\ inst'.mode = mode
        /\ \A d \in Sides, c \in Channels :
             /\ inst'.numFrames[d][c] = Entry(mode, args, d, 1, c)
             /\ inst'.numRep[d][c] = Entry(mode, args, d, 2, c)
             /\ inst'.offsets[d][c] = Entry(mode, args, d, 3, c)
             /\ Entry(mode, args, d, 1, c) \in Nat /\ Entry(mode, args, d, 2, c) \in Nat
    BY <1>2, <1>4, EntryFacts DEF Rows
  <2>2. \A f \in Nat : Words(f) \in Nat
    BY WordsFacts
  <2> QED BY <2>1, <2>2 DEF Frames, Total
<1>6. CallInv'
  BY <1>1, <1>2, <1>4 DEF CallInv, Held
<1>7. "to" \in Sides /\ "from" \in Sides /\ DOMAIN buff = Sides
      /\ \A c \in Channels : buff'["to"][c] = LoadBuff(LoadCfg, c)
      /\ buff'["from"] = buff["from"]
  BY <1>1, <1>3 DEF Sides
<1>8. ShapeInv'
  <2>1. \A x : Read(to_aie, x) \in Beat
    BY <1>2, InputBeats DEF Beat
  <2>2. \A c \in Channels : LoadBuff(LoadCfg, c) \in [0 .. Depth - 1 -> Beat]
    <3> SUFFICES ASSUME NEW c \in Channels
                 PROVE  LoadBuff(LoadCfg, c) \in [0 .. Depth - 1 -> Beat]
      OBVIOUS
    <3>1. \A x \in 0 .. Depth - 1 : buff["to"][c][x] \in Beat
      BY <1>3, ThreeBeats DEF Beat, Sides
    <3> HIDE DEF Beat
    <3>2. \A x \in 0 .. Depth - 1 : LoadBuff(LoadCfg, c)[x] \in Beat
      BY <2>1, <3>1 DEF LoadBuff
    <3> QED BY <3>2 DEF LoadBuff
  <2>3. buff' \in [Sides -> [Channels -> [0 .. Depth - 1 -> Beat]]]
    BY <1>1, <1>2, <2>2 DEF ShapeInv
  <2>4. valid \in 0 .. NumChannels
    BY ChannelsAssumption
  <2>5. Beat' = Beat /\ MemoryWord' = MemoryWord
    BY <1>1 DEF Beat, MemoryWord
  <2> HIDE DEF valid
  <2> QED BY <1>1, <1>2, <2>3, <2>4, <2>5 DEF ShapeInv
<1>9. WindowInv'
  <2> SUFFICES ASSUME inst'.mode = "FUNC", NEW c \in Channels
               PROVE  InWindow(FilledRegs, NumChannels, c)
    BY <1>1, <1>3, <1>4 DEF WindowInv
  <2>1. NumChannels - c \in 1 .. NumChannels /\ NumChannels - (NumChannels - c) = c
    BY ChannelsAssumption DEF Channels
  <2>2. FilledRegs[NumChannels - c] = c
    BY <2>1 DEF FilledRegs, Turns
  <2> QED BY <2>1, <2>2 DEF InWindow
<1>10. /\ \A c \in Channels : /\ loaded[c] = 0 /\ stored[c] = 0 /\ fed[c] = 0 /\ gotten[c] = 0
                              /\ toStrm[c] = <<>> /\ fromStrm[c] = <<>> /\ aie[c] = <<>>
  BY <1>3 DEF ChannelZero, ChannelEmpty
<1>11. FunctionalInv'
  <2> SUFFICES ASSUME NEW c \in Channels
               PROVE  LoadInv(c)' /\ GraphInv(c)' /\ StreamInv(c)'
    BY DEF FunctionalInv
  <2>1. /\ Frames("to", c)' \in Nat /\ Frames("from", c)' \in Nat
        /\ Capacity \in Nat
    BY <1>5, <1>7, BurstAssumption DEF Capacity
  <2>2. Into(c)' = 0 /\ OutOf(c)' = 0
    <3>1. \A f \in Nat : BeatsIn(f, 0) = 0
      <4> TAKE f \in Nat
      <4>1. 0 \in Nat /\ 0 <= Words(f)
        BY WordsFacts
      <4> QED BY <4>1, BeatsInFacts
    <3> QED BY <1>1, <1>10, <2>1, <3>1 DEF Into, OutOf
  <2>3. \A f \in Nat : Words(f) \in Nat
    BY WordsFacts
  <2>4. /\ loaded'[c] = 0 /\ stored'[c] = 0 /\ fed'[c] = 0 /\ gotten'[c] = 0
        /\ toStrm'[c] = <<>> /\ fromStrm'[c] = <<>> /\ aie'[c] = <<>>
        /\ Len(<<>>) = 0 /\ 0 <= Capacity
        /\ \A j : j \notin 1 .. 0
    BY <1>1, <1>10, <2>1
  <2>5. LoadInv(c)'
    BY <2>1, <2>3, <2>4 DEF LoadInv
  <2>6. GraphInv(c)'
    BY <2>1, <2>2, <2>3, <2>4 DEF GraphInv
  <2>7. StreamInv(c)'
    BY <2>1, <2>3, <2>4 DEF StreamInv
  <2> QED BY <2>5, <2>6, <2>7
<1>12. PlacedInv'
  <2> SUFFICES ASSUME mode = "FUNC", NEW i \in Towards(args, "from"),
                      NEW k \in 1 .. MemRatio * Words(args[i].beats)
               PROVE  /\ from_aie[MemRatio * Offset("FUNC", args, i) + k] = Blank
                      /\ ~(k <= MemRatio * stored[args[i].chn])
    BY <1>1, <1>5 DEF PlacedInv
  <2>1. MemRatio * Offset("FUNC", args, i) + k \in DOMAIN from_aie
    BY <1>2, <1>7, WordsInside
  <2>2. args[i].chn \in Channels /\ k \in Int /\ k >= 1
    BY <1>2, WordsFacts DEF Towards, ValidArguments
  <2>3. MemRatio * 0 = 0
    BY DepthAssumption
  <2> QED BY <1>3, <1>10, <2>1, <2>2, <2>3
<1>13. PerformanceInv'
  <2> SUFFICES ASSUME mode = "PERF"
               PROVE  /\ loadValid' = 0 /\ storeValid' = 0
                      /\ \A c \in Channels : RepeatInv(c)'
    BY <1>1, <1>5 DEF PerformanceInv
  <2>1. loadValid' = 0 /\ storeValid' = 0
    BY <1>1, <1>4 DEF Rows
  <2>2. ASSUME NEW c \in Channels PROVE RepeatInv(c)'
    <3>1. /\ fed'[c] = 0 /\ gotten'[c] = 0 /\ Len(aie'[c]) = 0
          /\ toStrm'[c] = <<>> /\ fromStrm'[c] = <<>> /\ loaded'[c] = 0 /\ stored'[c] = 0
          /\ Total("to", c)' \in Nat /\ Total("from", c)' \in Nat
      BY <1>1, <1>5, <1>7, <1>10
    <3>2. ASSUME Frames("to", c)' <= Depth, NEW x \in 0 .. Frames("to", c)' - 1
          PROVE  buff'["to"][c][x] = <<Source(c)', x + 1>>
      <4> DEFINE i == Last(args, "to", c)
      <4>1. Source(c)' = i /\ Frames("to", c)' \in Nat /\ x \in 0 .. Depth - 1
            /\ x + 1 \in 1 .. Frames("to", c)' /\ Depth \in Nat
        BY <1>1, <1>5, <1>7, <3>2, DepthAssumption DEF Source
      <4>2. i # 0
        BY <1>2, <1>5, <1>7, <4>1, EntryFacts
      <4>3. /\ Frames("to", c)' = args[i].beats
            /\ inst'.offsets["to"][c] = Offset(mode, args, i)
        BY <1>2, <1>5, <1>7, <4>2, EntryFacts
      <4>4. to_aie[Begin(mode, args, i) + (x + 1)] = <<i, x + 1>>
            /\ Begin(mode, args, i) + (x + 1) \in DOMAIN to_aie
        <5>1. x + 1 \in 1 .. args[i].beats /\ args[i].beats <= Depth
          BY <3>2, <4>1, <4>3
        <5> QED BY <1>2, <4>2, <5>1, InputBeat
      <4>5. LoadCfg.mode = "PERF" /\ x < LoadCfg.numFrames["to"][c]
        BY <1>1, <1>5, <4>1 DEF Frames
      <4>6. LoadBuff(LoadCfg, c)[x] =
              Read(to_aie, MemRatio * LoadCfg.offsets["to"][c] + x + 1)
        BY <4>1, <4>5 DEF LoadBuff
      <4>7. MemRatio * LoadCfg.offsets["to"][c] + x + 1 = Begin(mode, args, i) + (x + 1)
        <5>1. Begin(mode, args, i) = MemRatio * LoadCfg.offsets["to"][c]
          BY <1>1, <4>3 DEF Begin
        <5>2. Begin(mode, args, i) \in Nat
          BY <1>2, <1>7, <4>2, LastFacts, BeginFacts
        <5> QED BY <4>1, <5>1, <5>2
      <4> QED BY <1>7, <4>1, <4>4, <4>6, <4>7 DEF Read
    <3> HIDE DEF valid
    <3> QED BY <3>1, <3>2 DEF RepeatInv
  <2> QED BY <2>1, <2>2
<1>14. IdleInv' /\ EndInv' /\ ReturnInv'
  BY <1>1 DEF IdleInv, EndInv, ReturnInv, Returned
<1> QED BY <1>6, <1>8, <1>9, <1>11, <1>12, <1>13, <1>14 DEF MoverInv

-----------------------------------------------------------------------------
(* The steps inside of the kernel.                                         *)

(* What none of them touches.                                              *)
innerVars == <<callVars, status, cfg_ptr, perf_ptr, to_aie, outputVars, stalled, kernel, inst>>

LEMMA Inside ==
  ASSUME MoverInv, Running, UNCHANGED innerVars, DOMAIN from_aie' = DOMAIN from_aie
  PROVE  /\ CallInv' /\ IdleInv' /\ EndInv' /\ ReturnInv'
         /\ Held /\ Held' /\ kernel = "running" /\ kernel' = "running"
         /\ inst' = inst /\ inst.mode = mode /\ mode' = mode /\ mode \in {"FUNC", "PERF"}
         /\ args' = args /\ Beat' = Beat /\ MemoryWord' = MemoryWord
         /\ \A d \in Sides, c \in Channels :
              /\ Frames(d, c)' = Frames(d, c) /\ Frames(d, c) \in Nat
              /\ Total(d, c)' = Total(d, c)   /\ Total(d, c) \in Nat
         /\ \A c \in Channels : Source(c)' = Source(c)
         /\ \A c \in Channels, k \in Int : Echo(c, k)' = Echo(c, k)
<1> USE DEF innerVars, callVars, outputVars
<1>1. /\ status = "RUNNING" /\ kernel = "running" /\ Held
      /\ UNCHANGED <<mode, args, given, timeOut, result_valid, from_mem_word_offset, status,
                     cfg_ptr, perf_ptr, to_aie, user, perf_map, stalled, kernel, inst>>
  BY DEF Running, MoverInv, CallInv
<1>2. Held'
  BY <1>1 DEF Held
<1>3. CallInv'
  BY <1>1, <1>2 DEF MoverInv, CallInv, Held
<1>4. IdleInv' /\ EndInv'
  BY <1>1 DEF IdleInv, EndInv
<1>5. ReturnInv'
  BY <1>1 DEF ReturnInv, Returned
<1>6. inst.mode = mode /\ mode \in {"FUNC", "PERF"}
  BY <1>1 DEF MoverInv, CallInv, Rows
<1>7. ASSUME NEW d \in Sides, NEW c \in Channels
      PROVE  /\ Frames(d, c)' = Frames(d, c) /\ Frames(d, c) \in Nat
             /\ Total(d, c)' = Total(d, c)   /\ Total(d, c) \in Nat
  <2>1. Frames(d, c) \in Nat /\ Total(d, c) \in Nat
    BY <1>1, RowFacts DEF MoverInv
  <2> QED BY <1>1, <2>1 DEF Frames, Total
<1>8. Beat' = Beat /\ MemoryWord' = MemoryWord
  BY <1>1 DEF Beat, MemoryWord
<1>9. /\ \A c \in Channels : Source(c)' = Source(c)
      /\ \A c \in Channels, k \in Int : Echo(c, k)' = Echo(c, k)
  BY <1>1 DEF Source, Echo
<1> QED BY <1>1, <1>2, <1>3, <1>4, <1>5, <1>6, <1>7, <1>8, <1>9

(* A finished channel leaves the window; the others stay in it.            *)
LEMMA Shrunk ==
  ASSUME NEW regs \in [Turns -> Channels], NEW valid \in 1 .. NumChannels, NEW c \in Channels,
         InWindow(regs, valid, c), regs[valid] # c
  PROVE  InWindow(regs, valid - 1, c)
<1>1. NumChannels \in Nat
  BY ChannelsAssumption
<1>2. PICK i \in 1 .. valid : regs[i] = c
  BY DEF InWindow
<1>3. i \in 1 .. valid - 1
  BY <1>1, <1>2
<1> QED BY <1>2, <1>3 DEF InWindow

(* A turn only brings the channel that had it from the end to the front.   *)
LEMMA Rotated ==
  ASSUME NEW regs \in [Turns -> Channels], NEW valid \in 1 .. NumChannels
  PROVE  /\ Shift(regs, regs[valid]) \in [Turns -> Channels]
         /\ \A c \in Channels :
              InWindow(regs, valid, c) => InWindow(Shift(regs, regs[valid]), valid, c)
<1>1. NumChannels \in Nat /\ Turns = 1 .. NumChannels
  BY ChannelsAssumption DEF Turns
<1> DEFINE new == Shift(regs, regs[valid])
<1>2. \A i \in Turns : new[i] = IF i = 1 THEN regs[valid] ELSE regs[i - 1]
  BY DEF Shift
<1>3. new \in [Turns -> Channels]
  <2>1. \A i \in Turns : (IF i = 1 THEN regs[valid] ELSE regs[i - 1]) \in Channels
    BY <1>1
  <2> QED BY <2>1 DEF Shift
<1>4. ASSUME NEW c \in Channels, InWindow(regs, valid, c)
      PROVE  InWindow(new, valid, c)
  <2>1. PICK i \in 1 .. valid : regs[i] = c
    BY <1>4 DEF InWindow
  <2>2. CASE i = valid
    <3>1. 1 \in 1 .. valid /\ 1 \in Turns
      BY <1>1
    <3>2. new[1] = c
      BY <1>2, <2>1, <2>2, <3>1
    <3> HIDE DEF new
    <3> QED BY <3>1, <3>2 DEF InWindow
  <2>3. CASE i # valid
    <3>1. i + 1 \in 1 .. valid /\ i + 1 \in Turns /\ i + 1 # 1 /\ (i + 1) - 1 = i
      BY <1>1, <2>1, <2>3
    <3>2. new[i + 1] = c
      BY <1>2, <2>1, <3>1
    <3> HIDE DEF new
    <3> QED BY <3>1, <3>2 DEF InWindow
  <2> QED BY <2>2, <2>3
<1> QED BY <1>3, <1>4

(* In performance mode the movers have nothing to do.                      *)
LEMMA Moving ==
  ASSUME MoverInv, Running, loadValid # 0 \/ storeValid # 0
  PROVE  inst.mode = "FUNC"
BY DEF MoverInv, CallInv, Running, PerformanceInv, Rows

LEMMA LoadSkipStep ==
  ASSUME MoverInv, LoadSkip
  PROVE  MoverInv'
<1> USE DEF innerVars, callVars, bufferVars, layoutVars, outputVars, storeVars
<1>1. /\ Running /\ loadValid # 0
      /\ LoadLeft(loadRegs[loadValid]) = 0 /\ loadValid' = loadValid - 1
      /\ UNCHANGED innerVars
      /\ UNCHANGED <<from_aie, buff, loadRegs, loaded, storeRegs, storeValid, stored,
                     toStrm, fed, aie, gotten, fromStrm>>
  BY DEF LoadSkip, loadUnchanged
<1>2. ShapeInv /\ WindowInv /\ FunctionalInv /\ PlacedInv
  BY DEF MoverInv
<1>3. inst.mode = "FUNC"
  BY <1>1, Moving
<1>4. /\ CallInv' /\ IdleInv' /\ EndInv' /\ ReturnInv'
      /\ Held /\ Held' /\ kernel = "running" /\ kernel' = "running"
      /\ inst' = inst /\ inst.mode = mode /\ mode' = mode
      /\ args' = args /\ Beat' = Beat /\ MemoryWord' = MemoryWord
  BY <1>1, Inside
<1>5. loadValid \in 1 .. NumChannels /\ loadValid' \in 0 .. NumChannels
  BY <1>1, <1>2, ChannelsAssumption DEF ShapeInv
<1>6. ShapeInv'
  <2>1. stalled' = stalled
    BY <1>1
  <2> QED BY <1>1, <1>2, <1>4, <1>5, <2>1 DEF ShapeInv
<1>7. WindowInv'
  <2> SUFFICES ASSUME NEW c \in Channels
               PROVE  /\ LoadLeft(c)' # 0 => InWindow(loadRegs, loadValid, c)'
                      /\ StoreLeft(c)' # 0 => InWindow(storeRegs, storeValid, c)'
    BY DEF WindowInv
  <2>1. LoadLeft(c)' = LoadLeft(c) /\ StoreLeft(c)' = StoreLeft(c)
    BY <1>1, <1>4 DEF LoadLeft, StoreLeft, Frames
  <2>2. /\ LoadLeft(c) # 0 => InWindow(loadRegs, loadValid, c)
        /\ StoreLeft(c) # 0 => InWindow(storeRegs, storeValid, c)
    BY <1>2, <1>3, <1>4 DEF WindowInv
  <2>3. LoadLeft(c) # 0 => InWindow(loadRegs, loadValid - 1, c)
    BY <1>1, <1>2, <1>5, <2>2, Shrunk DEF ShapeInv
  <2> QED BY <1>1, <2>1, <2>2, <2>3 DEF InWindow
<1>8. FunctionalInv'
  BY <1>1, <1>2, <1>3, <1>4
     DEF FunctionalInv, LoadInv, GraphInv, StreamInv, Frames, Source, Into, OutOf
<1>9. PlacedInv'
  BY <1>1, <1>2, <1>4 DEF PlacedInv, Echo
<1>10. PerformanceInv'
  BY <1>3, <1>4 DEF PerformanceInv
<1> QED BY <1>4, <1>6, <1>7, <1>8, <1>9, <1>10 DEF MoverInv

(* Sequences: a whole appended, a part taken from the front.               *)
LEMMA Appended ==
  ASSUME NEW S, NEW s \in Seq(S), NEW t \in Seq(S)
  PROVE  /\ s \o t \in Seq(S) /\ Len(s \o t) = Len(s) + Len(t)
         /\ \A j \in 1 .. Len(s) : (s \o t)[j] = s[j]
         /\ \A j \in 1 .. Len(t) : (s \o t)[Len(s) + j] = t[j]
BY ConcatProperties

LEMMA Dropped ==
  ASSUME NEW S, NEW s \in Seq(S), NEW n \in 0 .. Len(s)
  PROVE  /\ SubSeq(s, n + 1, Len(s)) \in Seq(S)
         /\ Len(SubSeq(s, n + 1, Len(s))) = Len(s) - n
         /\ \A j \in 1 .. Len(s) - n : SubSeq(s, n + 1, Len(s))[j] = s[n + j]
<1>1. Len(s) \in Nat /\ n \in Nat
  OBVIOUS
<1>2. /\ SubSeq(s, n + 1, Len(s)) = [i \in 1 .. Len(s) - n |-> s[i + n]]
  <2>1. SubSeq(s, n + 1, Len(s)) = [i \in 1 .. (1 + Len(s) - (n + 1)) |-> s[i + (n + 1) - 1]]
    BY <1>1 DEF SubSeq
  <2>2. /\ 1 + Len(s) - (n + 1) = Len(s) - n
        /\ \A i \in 1 .. Len(s) - n : i + (n + 1) - 1 = i + n
    BY <1>1
  <2> QED BY <2>1, <2>2
<1>3. \A i \in 1 .. Len(s) - n : i + n \in 1 .. Len(s) /\ s[i + n] \in S /\ i + n = n + i
  BY <1>1
<1>4. Len(s) - n \in Nat
  BY <1>1
<1> QED BY <1>2, <1>3, <1>4

LEMMA Taken ==
  ASSUME NEW S, NEW s \in Seq(S), NEW n \in 0 .. Len(s)
  PROVE  /\ SubSeq(s, 1, n) \in Seq(S)
         /\ Len(SubSeq(s, 1, n)) = n
         /\ \A j \in 1 .. n : SubSeq(s, 1, n)[j] = s[j]
<1>1. Len(s) \in Nat /\ n \in Nat
  OBVIOUS
<1>2. SubSeq(s, 1, n) = [i \in 1 .. n |-> s[i]]
  <2>1. SubSeq(s, 1, n) = [i \in 1 .. (1 + n - 1) |-> s[i + 1 - 1]]
    BY <1>1 DEF SubSeq
  <2>2. /\ 1 + n - 1 = n
        /\ \A i \in 1 .. n : i + 1 - 1 = i
    BY <1>1
  <2> QED BY <2>1, <2>2
<1>3. \A i \in 1 .. n : i \in 1 .. Len(s) /\ s[i] \in S
  BY <1>1
<1> QED BY <1>1, <1>2, <1>3

(* What is written fits, and nothing of it is lost.                        *)
LEMMA LoadFits ==
  ASSUME NEW c \in Channels, toStrm \in [Channels -> Seq(MemoryWord)], loaded \in [Channels -> Nat],
         Len(toStrm[c]) <= Capacity, LoadLeft(c) \in Nat
  PROVE  /\ LoadAmount(c) \in Nat /\ LoadAmount(c) <= LoadLeft(c)
         /\ Len(toStrm[c]) + LoadAmount(c) <= Capacity
         /\ \A ws \in Seq(MemoryWord) :
              Len(ws) = LoadAmount(c) => WriteNB(toStrm[c], ws) = toStrm[c] \o ws
<1> DEFINE size == Len(toStrm[c])
           left == LoadLeft(c)
           n == LoadAmount(c)
<1>1. size \in Nat /\ BurstLen \in Nat \ {0} /\ Capacity \in Nat /\ toStrm[c] \in Seq(MemoryWord)
  BY BurstAssumption DEF Capacity
<1>2. n = IF left >= BurstLen /\ size + BurstLen <= Capacity THEN BurstLen
          ELSE IF size + left <= Capacity THEN left ELSE 0
  BY DEF LoadAmount
<1>3. n \in Nat /\ n <= left /\ size + n <= Capacity
  <2> HIDE DEF n
  <2> QED BY <1>1, <1>2
<1>4. ASSUME NEW ws \in Seq(MemoryWord), Len(ws) = n
      PROVE  WriteNB(toStrm[c], ws) = toStrm[c] \o ws
  <2> HIDE DEF n
  <2>1. Min({size + Len(ws), Capacity}) = size + Len(ws)
    BY <1>1, <1>3, <1>4, MinOfTwo
  <2>2. toStrm[c] \o ws \in Seq(MemoryWord) /\ Len(toStrm[c] \o ws) = size + Len(ws)
    BY <1>1, Appended
  <2>3. SubSeq(toStrm[c] \o ws, 1, Len(toStrm[c] \o ws)) = toStrm[c] \o ws
    BY <2>2
  <2> QED BY <2>1, <2>2, <2>3 DEF WriteNB
<1> QED BY <1>3, <1>4

LEMMA LoadTurnStep ==
  ASSUME MoverInv, LoadTurn
  PROVE  MoverInv'
<1> USE DEF innerVars, callVars, bufferVars, layoutVars, outputVars, storeVars
<1> DEFINE c0 == loadRegs[loadValid]
           n == LoadAmount(c0)
           ws == [j \in 1 .. n |->
                    MemWord(to_aie, inst.offsets["to"][c0] + loaded[c0] + j - 1)]
<1>1. /\ Running /\ loadValid # 0 /\ LoadLeft(c0) # 0
      /\ loadRegs' = Shift(loadRegs, c0)
      /\ toStrm' = [toStrm EXCEPT ![c0] = WriteNB(@, ws)]
      /\ loaded' = [loaded EXCEPT ![c0] = @ + n]
      /\ UNCHANGED innerVars
      /\ UNCHANGED <<from_aie, buff, loadValid, storeRegs, storeValid, stored,
                     fed, aie, gotten, fromStrm>>
  BY DEF LoadTurn, LoadWords, loadUnchanged
<1>2. ShapeInv /\ WindowInv /\ FunctionalInv /\ PlacedInv /\ CallInv
  BY DEF MoverInv
<1>3. inst.mode = "FUNC"
  BY <1>1, Moving
<1>4. /\ CallInv' /\ IdleInv' /\ EndInv' /\ ReturnInv'
      /\ Held /\ Held' /\ kernel = "running" /\ kernel' = "running"
      /\ inst' = inst /\ inst.mode = mode /\ mode' = mode
      /\ args' = args /\ Beat' = Beat /\ MemoryWord' = MemoryWord
      /\ \A d \in Sides, c \in Channels :
           /\ Frames(d, c)' = Frames(d, c) /\ Frames(d, c) \in Nat
      /\ \A c \in Channels : Source(c)' = Source(c)
  BY <1>1, Inside
<1>5. /\ loadValid \in 1 .. NumChannels /\ loadRegs \in [Turns -> Channels]
      /\ c0 \in Channels /\ "to" \in Sides /\ "from" \in Sides
      /\ toStrm \in [Channels -> Seq(MemoryWord)] /\ loaded \in [Channels -> Nat]
      /\ fed \in [Channels -> Nat] /\ MemRatio \in Nat \ {0} /\ Capacity \in Nat
  <2>1. /\ loadValid \in 0 .. NumChannels /\ loadRegs \in [Turns -> Channels]
        /\ toStrm \in [Channels -> Seq(MemoryWord)] /\ loaded \in [Channels -> Nat]
        /\ fed \in [Channels -> Nat]
    BY <1>2 DEF ShapeInv
  <2>2. "to" \in Sides /\ "from" \in Sides
    BY DEF Sides
  <2>3. NumChannels \in Nat /\ MemRatio \in Nat \ {0} /\ Capacity \in Nat
    BY ChannelsAssumption, DepthAssumption, BurstAssumption DEF Capacity
  <2>4. loadValid \in 1 .. NumChannels /\ loadValid # 0
    BY <1>1, <2>1, <2>3
  <2>5. c0 \in Channels
    BY <2>1, <2>3, <2>4 DEF Turns
  <2> QED BY <2>1, <2>2, <2>3, <2>4, <2>5
<1>6. \A c \in Channels : LoadInv(c) /\ GraphInv(c) /\ StreamInv(c)
  BY <1>2, <1>3, <1>4 DEF FunctionalInv
<1>7. \A f \in Nat : Words(f) \in Nat
  BY WordsFacts
<1>8. LoadLeft(c0) \in Nat /\ Len(toStrm[c0]) <= Capacity /\ loaded[c0] \in Nat
      /\ loaded[c0] + LoadLeft(c0) = Words(Frames("to", c0))
      /\ Len(toStrm[c0]) = loaded[c0] - fed[c0] /\ fed[c0] \in Nat /\ fed[c0] <= loaded[c0]
      /\ Len(toStrm[c0]) \in Nat
  <2>1. /\ fed[c0] <= loaded[c0] /\ loaded[c0] <= Words(Frames("to", c0))
        /\ Len(toStrm[c0]) = loaded[c0] - fed[c0] /\ Len(toStrm[c0]) <= Capacity
    BY <1>5, <1>6 DEF LoadInv
  <2>2. fed[c0] \in Nat /\ loaded[c0] \in Nat /\ Words(Frames("to", c0)) \in Nat
    BY <1>4, <1>5, <1>7
  <2> HIDE DEF c0
  <2> QED BY <2>1, <2>2 DEF LoadLeft
<1>9. /\ n \in Nat /\ n <= LoadLeft(c0) /\ Len(toStrm[c0]) + n <= Capacity
      /\ \A v \in Seq(MemoryWord) : Len(v) = n => WriteNB(toStrm[c0], v) = toStrm[c0] \o v
  BY <1>5, <1>8, LoadFits
<1> HIDE DEF c0, n
<1>10. ws \in Seq(MemoryWord) /\ Len(ws) = n
  <2>1. \A x : Read(to_aie, x) \in Beat
    <3>1. /\ mode \in {"FUNC", "PERF"} /\ args \in Seq(Argument) /\ ValidArguments(mode, args)
          /\ to_aie = InputBuffer(mode, args)
      BY <1>2, <1>4 DEF CallInv
    <3> QED BY <3>1, InputBeats DEF Beat
  <2>2. \A w : MemWord(to_aie, w) \in MemoryWord
    BY <2>1 DEF MemWord, MemoryWord
  <2> QED BY <1>9, <2>2
<1>11. /\ toStrm' = [toStrm EXCEPT ![c0] = toStrm[c0] \o ws]
       /\ toStrm[c0] \o ws \in Seq(MemoryWord)
       /\ Len(toStrm[c0] \o ws) = Len(toStrm[c0]) + n
       /\ \A j \in 1 .. Len(toStrm[c0]) : (toStrm[c0] \o ws)[j] = toStrm[c0][j]
       /\ \A j \in 1 .. n : (toStrm[c0] \o ws)[Len(toStrm[c0]) + j] = ws[j]
  <2> HIDE DEF ws
  <2>1. toStrm[c0] \in Seq(MemoryWord)
    BY <1>5
  <2>2. WriteNB(toStrm[c0], ws) = toStrm[c0] \o ws
    BY <1>9, <1>10
  <2>3. toStrm' = [toStrm EXCEPT ![c0] = toStrm[c0] \o ws]
    BY <1>1, <2>2
  <2>4. ws \in Seq(MemoryWord) /\ Len(ws) = n
    BY <1>10
  <2>5. /\ toStrm[c0] \o ws \in Seq(MemoryWord)
        /\ Len(toStrm[c0] \o ws) = Len(toStrm[c0]) + Len(ws)
        /\ \A j \in 1 .. Len(toStrm[c0]) : (toStrm[c0] \o ws)[j] = toStrm[c0][j]
        /\ \A j \in 1 .. Len(ws) : (toStrm[c0] \o ws)[Len(toStrm[c0]) + j] = ws[j]
    <3> DEFINE s == toStrm[c0]
               S == MemoryWord
    <3>1. s \in Seq(S) /\ ws \in Seq(S)
      BY <2>1, <2>4
    <3> HIDE DEF s, S
    <3>2. /\ s \o ws \in Seq(S) /\ Len(s \o ws) = Len(s) + Len(ws)
          /\ \A j \in 1 .. Len(s) : (s \o ws)[j] = s[j]
          /\ \A j \in 1 .. Len(ws) : (s \o ws)[Len(s) + j] = ws[j]
      BY <3>1, Appended
    <3> QED BY <3>2, Zenon DEF s, S
  <2> QED BY <2>3, <2>4, <2>5
<1>12. ShapeInv'
  <2>1. Shift(loadRegs, c0) \in [Turns -> Channels]
    BY <1>5, Rotated DEF c0
  <2>2. loaded' \in [Channels -> Nat] /\ toStrm' \in [Channels -> Seq(MemoryWord)]
    <3> HIDE DEF ws
    <3>1. loaded[c0] + n \in Nat
      BY <1>8, <1>9
    <3>2. loaded' = [loaded EXCEPT ![c0] = loaded[c0] + n]
      BY <1>1
    <3>3. loaded' \in [Channels -> Nat]
      BY <1>5, <3>1, <3>2
    <3>4. toStrm' \in [Channels -> Seq(MemoryWord)]
      BY <1>5, <1>11
    <3> QED BY <3>3, <3>4
  <2>3. stalled' = stalled
    BY <1>1
  <2> QED BY <1>1, <1>2, <1>4, <2>1, <2>2, <2>3 DEF ShapeInv
<1>13. WindowInv'
  <2> SUFFICES ASSUME NEW c \in Channels
               PROVE  /\ LoadLeft(c)' # 0 => InWindow(loadRegs, loadValid, c)'
                      /\ StoreLeft(c)' # 0 => InWindow(storeRegs, storeValid, c)'
    BY DEF WindowInv
  <2>1. StoreLeft(c)' = StoreLeft(c)
    BY <1>1, <1>4 DEF StoreLeft, Frames
  <2>2. /\ LoadLeft(c) # 0 => InWindow(loadRegs, loadValid, c)
        /\ StoreLeft(c) # 0 => InWindow(storeRegs, storeValid, c)
    BY <1>2, <1>3, <1>4 DEF WindowInv
  <2>3. LoadLeft(c)' # 0 => LoadLeft(c) # 0
    <3>1. CASE c = c0
      BY <1>1, <3>1
    <3>2. CASE c # c0
      <4>1. loaded'[c] = loaded[c]
        BY <1>1, <1>5, <3>2
      <4> QED BY <1>4, <1>5, <4>1 DEF LoadLeft
    <3> QED BY <3>1, <3>2
  <2>4. InWindow(loadRegs, loadValid, c) => InWindow(Shift(loadRegs, c0), loadValid, c)
    BY <1>5, Rotated DEF c0
  <2> QED BY <1>1, <2>1, <2>2, <2>3, <2>4 DEF InWindow
<1>14. FunctionalInv'
  <2> SUFFICES ASSUME NEW c \in Channels
               PROVE  LoadInv(c)' /\ GraphInv(c)' /\ StreamInv(c)'
    BY DEF FunctionalInv
  <2>1. /\ Frames("to", c)' = Frames("to", c) /\ Frames("from", c)' = Frames("from", c)
        /\ Source(c)' = Source(c) /\ Frames("to", c) \in Nat
    BY <1>4, <1>5
  <2>2. GraphInv(c)' /\ StreamInv(c)'
    <3>1. UNCHANGED <<fed, gotten, aie, stored, fromStrm>>
      BY <1>1
    <3>2. Into(c)' = Into(c) /\ OutOf(c)' = OutOf(c)
      BY <2>1, <3>1 DEF Into, OutOf
    <3>3. GraphInv(c) /\ StreamInv(c)
      BY <1>6
    <3>4. GraphInv(c)'
      BY <2>1, <3>1, <3>2, <3>3 DEF GraphInv
    <3>5. StreamInv(c)'
      BY <2>1, <3>1, <3>3 DEF StreamInv
    <3> QED BY <3>4, <3>5
  <2>3. CASE c # c0
    <3>1. toStrm'[c] = toStrm[c] /\ loaded'[c] = loaded[c]
      BY <1>1, <1>5, <2>3
    <3>2. LoadInv(c) /\ fed' = fed
      BY <1>1, <1>6
    <3>3. LoadInv(c)'
      BY <2>1, <3>1, <3>2 DEF LoadInv
    <3> QED BY <2>2, <3>3
  <2>4. CASE c = c0
    <3>1. toStrm'[c] = toStrm[c] \o ws /\ loaded'[c] = loaded[c] + n
      BY <1>1, <1>5, <1>11, <2>4
    <3>2. ASSUME NEW j \in 1 .. Len(toStrm[c]) + n, NEW b \in 1 .. MemRatio,
                 MemRatio * (fed[c] + j - 1) + b <= Frames("to", c)
          PROVE  toStrm'[c][j][b] = <<Source(c), MemRatio * (fed[c] + j - 1) + b>>
      <4> DEFINE k == MemRatio * (fed[c] + j - 1) + b
      <4>1. CASE j \in 1 .. Len(toStrm[c])
        <5>1. toStrm'[c][j] = toStrm[c][j]
          BY <1>11, <2>4, <3>1, <4>1
        <5> QED BY <1>6, <3>2, <4>1, <5>1 DEF LoadInv
      <4>2. CASE j \notin 1 .. Len(toStrm[c])
        <5> DEFINE i == j - Len(toStrm[c])
                   off == inst.offsets["to"][c]
                   x == fed[c] + j - 1
        <5>1. i \in 1 .. n /\ Len(toStrm[c]) + i = j /\ loaded[c] + i - 1 = x /\ x \in Nat
          <6> DEFINE l == Len(toStrm[c])
          <6>1. l \in Nat /\ n \in Nat /\ fed[c] \in Nat /\ loaded[c] = fed[c] + l
            BY <1>5, <1>8, <1>9, <2>4
          <6>2. j \in 1 .. l + n /\ j \notin 1 .. l
            BY <4>2
          <6> HIDE DEF l
          <6>3. j - l \in 1 .. n /\ l + (j - l) = j /\ loaded[c] + (j - l) - 1 = fed[c] + j - 1
                /\ fed[c] + j - 1 \in Nat
            BY <6>1, <6>2
          <6> QED BY <6>3 DEF l
        <5>2. toStrm'[c][j] = ws[i]
          <6> HIDE DEF ws, i
          <6>1. (toStrm[c0] \o ws)[Len(toStrm[c0]) + i] = ws[i]
            BY <1>11, <5>1
          <6>2. Len(toStrm[c0]) + i = j
            BY <2>4, <5>1
          <6> QED BY <2>4, <3>1, <6>1, <6>2
        <5>3. k \in 1 .. Frames("to", c)
          <6> HIDE DEF x
          <6>1. MemRatio * x \in Nat
            BY <1>5, <5>1
          <6>2. MemRatio * x + b <= Frames("to", c)
            BY <3>2 DEF x
          <6>3. MemRatio * x + b \in 1 .. Frames("to", c)
            BY <2>1, <6>1, <6>2
          <6> QED BY <6>3 DEF x
        <5>4. off \in Nat /\ Read(to_aie, MemRatio * off + k) = <<Source(c), k>>
          <6> HIDE DEF k
          <6>1. mode # "PERF"
            BY <1>3, <1>4
          <6> QED BY <1>2, <1>4, <5>3, <6>1, InputRead
        <5>5. ws[i] = MemWord(to_aie, off + x)
          <6>1. ws[i] = MemWord(to_aie, inst.offsets["to"][c0] + loaded[c0] + i - 1)
            <7> HIDE DEF i
            <7> QED BY <5>1
          <6>2. inst.offsets["to"][c0] + loaded[c0] + i - 1 = off + x
            <7> HIDE DEF i, x, off
            <7> DEFINE l == loaded[c]
            <7>1. l \in Nat /\ i \in Int /\ l + i - 1 = x /\ off \in Nat
              BY <1>8, <2>4, <5>1, <5>4
            <7> HIDE DEF l
            <7>2. off + l + i - 1 = off + x
              BY <7>1
            <7> QED BY <2>4, <7>2 DEF off, l
          <6> QED BY <6>1, <6>2
        <5>6. MemWord(to_aie, off + x)[b] = Read(to_aie, MemRatio * (off + x) + b)
          BY DEF MemWord
        <5>7. MemRatio * (off + x) + b = MemRatio * off + k
          <6> HIDE DEF off, x
          <6>1. MemRatio * (off + x) = MemRatio * off + MemRatio * x
                /\ MemRatio * off \in Nat /\ MemRatio * x \in Nat
            BY <1>5, <5>1, <5>4
          <6>2. k = MemRatio * x + b
            BY DEF x
          <6> HIDE DEF k
          <6> QED BY <6>1, <6>2
        <5> HIDE DEF i, off, x, k, ws
        <5>8. toStrm'[c][j][b] = <<Source(c), k>>
          BY <5>2, <5>4, <5>5, <5>6, <5>7
        <5> QED BY <5>8 DEF k
      <4> QED BY <4>1, <4>2
    <3>3. Len(toStrm'[c]) = Len(toStrm[c]) + n
      BY <1>11, <2>4, <3>1
    <3>4. fed'[c] <= loaded'[c] /\ loaded'[c] <= Words(Frames("to", c))
          /\ Len(toStrm'[c]) = loaded'[c] - fed'[c] /\ Len(toStrm'[c]) <= Capacity
      <4> HIDE DEF ws
      <4>1. loaded[c] + n <= Words(Frames("to", c))
        BY <1>4, <1>5, <1>7, <1>8, <1>9, <2>4
      <4>2. fed'[c] = fed[c] /\ fed[c] \in Nat /\ loaded[c] \in Nat /\ fed[c] <= loaded[c]
            /\ Len(toStrm[c]) = loaded[c] - fed[c] /\ Len(toStrm[c]) + n <= Capacity
            /\ n \in Nat
        BY <1>1, <1>8, <1>9, <2>4
      <4> QED BY <3>1, <3>3, <4>1, <4>2
    <3>5. LoadInv(c)'
      <4>1. fed' = fed
        BY <1>1
      <4> QED BY <2>1, <3>2, <3>3, <3>4, <4>1 DEF LoadInv
    <3> QED BY <2>2, <3>5
  <2> QED BY <2>3, <2>4
<1>15. PlacedInv'
  BY <1>1, <1>2, <1>4 DEF PlacedInv, Echo
<1>16. PerformanceInv'
  BY <1>3, <1>4 DEF PerformanceInv
<1> QED BY <1>4, <1>12, <1>13, <1>14, <1>15, <1>16 DEF MoverInv

(* The channels a step is not about keep their invariant.                  *)
LEMMA OneChannel ==
  ASSUME MoverInv, Running, UNCHANGED innerVars, DOMAIN from_aie' = DOMAIN from_aie,
         inst.mode = "FUNC", NEW c0 \in Channels,
         LoadInv(c0)', GraphInv(c0)', StreamInv(c0)',
         \A c \in Channels \ {c0} :
           /\ loaded'[c] = loaded[c] /\ fed'[c] = fed[c]
           /\ gotten'[c] = gotten[c] /\ stored'[c] = stored[c]
           /\ toStrm'[c] = toStrm[c] /\ aie'[c] = aie[c] /\ fromStrm'[c] = fromStrm[c]
  PROVE  FunctionalInv' /\ PerformanceInv'
<1>1. /\ kernel = "running" /\ inst' = inst
      /\ \A d \in Sides, c \in Channels : Frames(d, c)' = Frames(d, c)
      /\ \A c \in Channels : Source(c)' = Source(c)
  BY Inside
<1>2. ASSUME NEW c \in Channels \ {c0}
      PROVE  LoadInv(c)' /\ GraphInv(c)' /\ StreamInv(c)'
  <2>1. LoadInv(c) /\ GraphInv(c) /\ StreamInv(c)
    BY <1>1 DEF MoverInv, FunctionalInv
  <2>2. /\ Frames("to", c)' = Frames("to", c) /\ Frames("from", c)' = Frames("from", c)
        /\ Source(c)' = Source(c)
    BY <1>1 DEF Sides
  <2>3. LoadInv(c)'
    BY <2>1, <2>2 DEF LoadInv
  <2>4. GraphInv(c)'
    BY <2>1, <2>2 DEF GraphInv, Into, OutOf
  <2>5. StreamInv(c)'
    BY <2>1, <2>2 DEF StreamInv
  <2> QED BY <2>3, <2>4, <2>5
<1>3. FunctionalInv'
  BY <1>2 DEF FunctionalInv
<1>4. PerformanceInv'
  BY <1>1 DEF PerformanceInv
<1> QED BY <1>3, <1>4

LEMMA HeadTail ==
  ASSUME NEW S, NEW s \in Seq(S), s # <<>>
  PROVE  /\ Head(s) = s[1] /\ Head(s) \in S /\ Tail(s) \in Seq(S) /\ Len(Tail(s)) = Len(s) - 1
         /\ Len(s) \in Nat \ {0}
         /\ \A j \in 1 .. Len(s) - 1 : Tail(s)[j] = s[j + 1]
BY HeadTailProperties

LEMMA WordIsSeq ==
  ASSUME NEW w \in MemoryWord
  PROVE  w \in Seq(Beat) /\ Len(w) = MemRatio
<1>1. MemRatio \in Nat
  BY DepthAssumption
<1>2. w \in [1 .. MemRatio -> Beat]
  BY DEF MemoryWord
<1> HIDE DEF Beat
<1> QED BY <1>1, <1>2

(* A step of one channel that leaves the windows alone.                    *)
LEMMA WindowKept ==
  ASSUME WindowInv,
         UNCHANGED <<inst, kernel, loadRegs, loadValid, storeRegs, storeValid, loaded, stored>>
  PROVE  WindowInv'
BY DEF WindowInv, InWindow, LoadLeft, StoreLeft, Frames

LEMMA FeedStep ==
  ASSUME MoverInv, NEW c0 \in Channels, Feed(c0)
  PROVE  MoverInv'
<1> USE DEF innerVars, callVars, bufferVars, layoutVars, outputVars, storeVars, loadVars
<1> DEFINE n == FramesIn(Frames("to", c0), fed[c0] + 1)
           word == Head(toStrm[c0])
           beats == SubSeq(word, 1, n)
           F == Frames("to", c0)
<1>1. /\ Running /\ inst.mode = "FUNC" /\ toStrm[c0] # <<>> /\ fed[c0] < Total("to", c0)
      /\ aie' = [aie EXCEPT ![c0] = @ \o beats]
      /\ toStrm' = [toStrm EXCEPT ![c0] = Tail(@)]
      /\ fed' = [fed EXCEPT ![c0] = @ + 1]
      /\ UNCHANGED innerVars
      /\ UNCHANGED <<from_aie, buff, loadRegs, loadValid, loaded, storeRegs, storeValid, stored,
                     gotten, fromStrm>>
  BY DEF Feed, feedUnchanged
<1>2. ShapeInv /\ WindowInv /\ FunctionalInv /\ PlacedInv
  BY DEF MoverInv
<1>3. /\ CallInv' /\ IdleInv' /\ EndInv' /\ ReturnInv'
      /\ Held /\ Held' /\ kernel = "running" /\ kernel' = "running"
      /\ inst' = inst /\ args' = args /\ Beat' = Beat /\ MemoryWord' = MemoryWord
      /\ \A d \in Sides, c \in Channels :
           /\ Frames(d, c)' = Frames(d, c) /\ Frames(d, c) \in Nat
      /\ \A c \in Channels : Source(c)' = Source(c)
  BY <1>1, Inside
<1>4. /\ "to" \in Sides /\ "from" \in Sides /\ MemRatio \in Nat \ {0}
      /\ toStrm \in [Channels -> Seq(MemoryWord)] /\ toStrm[c0] \in Seq(MemoryWord)
      /\ aie \in [Channels -> Seq(Beat)] /\ aie[c0] \in Seq(Beat)
      /\ fed \in [Channels -> Nat] /\ fed[c0] \in Nat
  BY <1>2, DepthAssumption DEF ShapeInv, Sides
<1>5. LoadInv(c0) /\ GraphInv(c0) /\ StreamInv(c0)
  BY <1>1, <1>2, <1>3 DEF FunctionalInv
<1>6. F \in Nat /\ F' = F /\ Frames("from", c0)' = Frames("from", c0) /\ Source(c0)' = Source(c0)
  BY <1>3, <1>4
<1>7. fed[c0] < Words(F)
  BY <1>1 DEF Total
<1>8. /\ n \in 1 .. MemRatio
      /\ Into(c0) = MemRatio * fed[c0] /\ MemRatio * fed[c0] \in Nat
      /\ BeatsIn(F, fed[c0] + 1) = Into(c0) + n /\ Into(c0) + n <= F
      /\ Words(F) \in Nat
  <2> DEFINE x == fed[c0]
  <2> HIDE DEF F, x
  <2>1. F \in Nat /\ x \in Nat /\ x < Words(F) /\ Words(F) \in Nat /\ x + 1 \in Nat
        /\ x + 1 <= Words(F) /\ x <= Words(F)
    <3>1. x \in Nat /\ x < Words(F) /\ F \in Nat
      BY <1>4, <1>6, <1>7 DEF x
    <3>2. Words(F) \in Nat
      BY <3>1, WordsFacts
    <3> QED BY <3>1, <3>2
  <2>2. /\ BeatsIn(F, x) = MemRatio * x /\ FramesIn(F, x + 1) \in 1 .. MemRatio
        /\ BeatsIn(F, x + 1) = BeatsIn(F, x) + FramesIn(F, x + 1)
        /\ BeatsIn(F, x + 1) <= F
    BY <2>1, BeatsInFacts
  <2>3. MemRatio * x \in Nat
    BY <1>4, <2>1
  <2> QED BY <2>1, <2>2, <2>3 DEF F, x, Into
<1> HIDE DEF n, F
<1>9. /\ word = toStrm[c0][1] /\ word \in MemoryWord
      /\ Tail(toStrm[c0]) \in Seq(MemoryWord)
      /\ Len(Tail(toStrm[c0])) = Len(toStrm[c0]) - 1 /\ Len(toStrm[c0]) \in Nat \ {0}
      /\ \A j \in 1 .. Len(toStrm[c0]) - 1 : Tail(toStrm[c0])[j] = toStrm[c0][j + 1]
  <2> DEFINE s == toStrm[c0]
             S == MemoryWord
  <2>1. s \in Seq(S) /\ s # <<>>
    BY <1>1, <1>4
  <2> HIDE DEF s, S
  <2>2. /\ Head(s) = s[1] /\ Head(s) \in S /\ Tail(s) \in Seq(S) /\ Len(Tail(s)) = Len(s) - 1
        /\ Len(s) \in Nat \ {0}
        /\ \A j \in 1 .. Len(s) - 1 : Tail(s)[j] = s[j + 1]
    BY <2>1, HeadTail
  <2> QED BY <2>2, Zenon DEF s, S
<1> HIDE DEF word
<1>10. beats \in Seq(Beat) /\ Len(beats) = n /\ \A b \in 1 .. n : beats[b] = word[b]
  <2> DEFINE B == Beat
  <2>1. word \in Seq(B) /\ n \in 0 .. Len(word)
    <3>1. word \in Seq(Beat) /\ Len(word) = MemRatio
      BY <1>9, WordIsSeq
    <3> QED BY <1>4, <1>8, <3>1
  <2> HIDE DEF B
  <2>2. /\ SubSeq(word, 1, n) \in Seq(B) /\ Len(SubSeq(word, 1, n)) = n
        /\ \A j \in 1 .. n : SubSeq(word, 1, n)[j] = word[j]
    BY <2>1, Taken
  <2> QED BY <2>2, Zenon DEF B
<1>11. \A b \in 1 .. n : beats[b] = <<Source(c0), Into(c0) + b>>
  <2> SUFFICES ASSUME NEW b \in 1 .. n
               PROVE  word[b] = <<Source(c0), Into(c0) + b>>
    BY <1>10
  <2>1. b \in 1 .. MemRatio /\ 1 \in 1 .. Len(toStrm[c0]) /\ fed[c0] + 1 - 1 = fed[c0]
        /\ Into(c0) + b <= F
    BY <1>4, <1>6, <1>8, <1>9
  <2>2. MemRatio * (fed[c0] + 1 - 1) + b = Into(c0) + b
    BY <1>8, <2>1
  <2> QED BY <1>5, <1>9, <2>1, <2>2 DEF LoadInv, F
<1> HIDE DEF beats
<1>12. /\ aie'[c0] = aie[c0] \o beats /\ toStrm'[c0] = Tail(toStrm[c0])
       /\ fed'[c0] = fed[c0] + 1
       /\ \A c \in Channels \ {c0} : aie'[c] = aie[c] /\ toStrm'[c] = toStrm[c] /\ fed'[c] = fed[c]
  BY <1>1, <1>4
<1>13. /\ aie[c0] \o beats \in Seq(Beat) /\ Len(aie[c0] \o beats) = Len(aie[c0]) + n
       /\ \A j \in 1 .. Len(aie[c0]) : (aie[c0] \o beats)[j] = aie[c0][j]
       /\ \A j \in 1 .. n : (aie[c0] \o beats)[Len(aie[c0]) + j] = beats[j]
  <2> DEFINE s == aie[c0]
             B == Beat
  <2>0. Len(beats) = n
    BY <1>10
  <2>1. s \in Seq(B) /\ beats \in Seq(B)
    BY <1>4, <1>10
  <2> HIDE DEF s, B
  <2>2. /\ s \o beats \in Seq(B) /\ Len(s \o beats) = Len(s) + Len(beats)
        /\ \A j \in 1 .. Len(s) : (s \o beats)[j] = s[j]
        /\ \A j \in 1 .. Len(beats) : (s \o beats)[Len(s) + j] = beats[j]
    BY <2>1, Appended
  <2>3. /\ s \o beats \in Seq(B) /\ Len(s \o beats) = Len(s) + n
        /\ \A j \in 1 .. Len(s) : (s \o beats)[j] = s[j]
        /\ \A j \in 1 .. n : (s \o beats)[Len(s) + j] = beats[j]
    BY <2>0, <2>2
  <2> QED BY <2>3, Zenon DEF s, B
<1>14. ShapeInv'
  <2>1. aie' = [aie EXCEPT ![c0] = aie[c0] \o beats]
        /\ toStrm' = [toStrm EXCEPT ![c0] = Tail(toStrm[c0])]
        /\ fed' = [fed EXCEPT ![c0] = fed[c0] + 1] /\ fed[c0] + 1 \in Nat
    BY <1>1, <1>4
  <2>2. /\ aie' \in [Channels -> Seq(Beat)]
        /\ toStrm' \in [Channels -> Seq(MemoryWord)] /\ fed' \in [Channels -> Nat]
    BY <1>4, <1>9, <1>13, <2>1
  <2>3. stalled' = stalled
    BY <1>1
  <2> QED BY <1>1, <1>2, <1>3, <2>2, <2>3 DEF ShapeInv
<1>15. LoadInv(c0)'
  <2>1. /\ fed[c0] <= loaded[c0] /\ loaded[c0] <= Words(F)
        /\ Len(toStrm[c0]) = loaded[c0] - fed[c0] /\ Len(toStrm[c0]) <= Capacity
        /\ loaded[c0] \in Nat
    BY <1>2, <1>5 DEF LoadInv, F, ShapeInv
  <2>2. ASSUME NEW j \in 1 .. Len(toStrm[c0]) - 1, NEW b \in 1 .. MemRatio,
               MemRatio * (fed[c0] + 1 + j - 1) + b <= F
        PROVE  Tail(toStrm[c0])[j][b] = <<Source(c0), MemRatio * (fed[c0] + 1 + j - 1) + b>>
    <3>1. j + 1 \in 1 .. Len(toStrm[c0]) /\ fed[c0] + 1 + j - 1 = fed[c0] + (j + 1) - 1
      BY <1>4, <1>9
    <3> QED BY <1>5, <1>9, <2>2, <3>1 DEF LoadInv, F
  <2>3. Capacity \in Nat
    BY BurstAssumption DEF Capacity
  <2>4. /\ fed'[c0] <= loaded'[c0] /\ loaded'[c0] <= Words(F)
        /\ Len(toStrm'[c0]) = loaded'[c0] - fed'[c0] /\ Len(toStrm'[c0]) <= Capacity
    <3> DEFINE l == Len(toStrm[c0])
               f == fed[c0]
               g == loaded[c0]
    <3>1. /\ fed'[c0] = f + 1 /\ loaded'[c0] = g /\ Len(toStrm'[c0]) = l - 1
          /\ l \in Nat \ {0} /\ f \in Nat /\ g \in Nat
      BY <1>1, <1>4, <1>9, <1>12, <2>1
    <3>2. f <= g /\ g <= Words(F) /\ l = g - f /\ l <= Capacity
      BY <2>1
    <3> HIDE DEF l, f, g
    <3>3. f + 1 <= g /\ l - 1 = g - (f + 1) /\ l - 1 <= Capacity
      BY <2>3, <3>1, <3>2
    <3> QED BY <3>1, <3>2, <3>3
  <2>5. Len(toStrm'[c0]) = Len(toStrm[c0]) - 1
    BY <1>9, <1>12
  <2> QED BY <1>6, <1>12, <2>2, <2>4, <2>5 DEF LoadInv, F
<1>16. GraphInv(c0)'
  <2>1. Into(c0)' = Into(c0) + n /\ OutOf(c0)' = OutOf(c0) /\ gotten' = gotten
    BY <1>1, <1>6, <1>8, <1>12 DEF Into, OutOf, F
  <2>2. /\ gotten[c0] <= Words(Frames("from", c0))
        /\ OutOf(c0) <= Into(c0) /\ Len(aie[c0]) = Into(c0) - OutOf(c0)
        /\ \A j \in 1 .. Len(aie[c0]) : aie[c0][j] = <<Source(c0), OutOf(c0) + j>>
        /\ Len(aie[c0]) \in Nat
    BY <1>4, <1>5 DEF GraphInv
  <2>3. OutOf(c0) \in Nat
    <3>1. gotten[c0] \in Nat /\ Frames("from", c0) \in Nat
      BY <1>2, <1>3, <1>4 DEF ShapeInv
    <3> QED BY <2>2, <3>1, BeatsInFacts DEF OutOf
  <2>4. ASSUME NEW j \in 1 .. Len(aie[c0]) + n
        PROVE  (aie[c0] \o beats)[j] = <<Source(c0), OutOf(c0) + j>>
    <3>1. CASE j \in 1 .. Len(aie[c0])
      BY <1>13, <2>2, <3>1
    <3>2. CASE j \notin 1 .. Len(aie[c0])
      <4> DEFINE l == Len(aie[c0])
                 i == j - l
      <4>1. i \in 1 .. n /\ l + i = j /\ Into(c0) + i = OutOf(c0) + j
        <5> HIDE DEF l
        <5>1. l \in Nat /\ j \in 1 .. l + n /\ j \notin 1 .. l /\ n \in Nat /\ l = Into(c0) - OutOf(c0)
              /\ Into(c0) \in Nat
          BY <1>8, <2>2, <3>2 DEF l
        <5> QED BY <2>3, <5>1
      <4>2. (aie[c0] \o beats)[l + i] = beats[i]
        BY <1>13, <4>1
      <4> QED BY <1>11, <4>1, <4>2
    <3> QED BY <3>1, <3>2
  <2>5. OutOf(c0) <= Into(c0) + n /\ Len(aie'[c0]) = (Into(c0) + n) - OutOf(c0)
        /\ Len(aie'[c0]) = Len(aie[c0]) + n
    BY <1>8, <1>12, <1>13, <2>2, <2>3
  <2>6. ASSUME NEW j \in 1 .. Len(aie'[c0])
        PROVE  aie'[c0][j] = <<Source(c0), OutOf(c0) + j>>
    <3>1. j \in 1 .. Len(aie[c0]) + n
      BY <2>5
    <3> QED BY <1>12, <2>4, <3>1
  <2>7. Frames("from", c0)' = Frames("from", c0) /\ Source(c0)' = Source(c0)
    BY <1>6
  <2>8. Len(aie'[c0]) = Into(c0)' - OutOf(c0)' /\ OutOf(c0)' <= Into(c0)'
    BY <2>1, <2>5
  <2> QED BY <2>1, <2>2, <2>6, <2>7, <2>8 DEF GraphInv
<1>17. StreamInv(c0)'
  BY <1>1, <1>5, <1>6 DEF StreamInv
<1>18. FunctionalInv' /\ PerformanceInv'
  BY <1>1, <1>12, <1>15, <1>16, <1>17, OneChannel
<1>19. WindowInv'
  BY <1>1, <1>2, <1>3, WindowKept
<1>20. PlacedInv'
  BY <1>1, <1>2, <1>3 DEF PlacedInv, Echo
<1> QED BY <1>3, <1>14, <1>18, <1>19, <1>20 DEF MoverInv

LEMMA AppendFacts ==
  ASSUME NEW S, NEW s \in Seq(S), NEW e \in S
  PROVE  /\ Append(s, e) \in Seq(S) /\ Len(Append(s, e)) = Len(s) + 1
         /\ \A j \in 1 .. Len(s) : Append(s, e)[j] = s[j]
         /\ Append(s, e)[Len(s) + 1] = e
BY AppendProperties

LEMMA GetStep ==
  ASSUME MoverInv, NEW c0 \in Channels, Get(c0)
  PROVE  MoverInv'
<1> USE DEF innerVars, callVars, bufferVars, layoutVars, outputVars, storeVars, loadVars
<1> DEFINE n == FramesIn(Frames("from", c0), gotten[c0] + 1)
           beats == SubSeq(aie[c0], 1, n)
           word == Padded(beats)
           rest == SubSeq(aie[c0], n + 1, Len(aie[c0]))
           F == Frames("from", c0)
<1>1. /\ Running /\ inst.mode = "FUNC" /\ gotten[c0] < Total("from", c0)
      /\ Len(fromStrm[c0]) < Capacity /\ Len(aie[c0]) >= n
      /\ fromStrm' = [fromStrm EXCEPT ![c0] = Append(@, word)]
      /\ aie' = [aie EXCEPT ![c0] = rest]
      /\ gotten' = [gotten EXCEPT ![c0] = @ + 1]
      /\ UNCHANGED innerVars
      /\ UNCHANGED <<from_aie, buff, loadRegs, loadValid, loaded, storeRegs, storeValid, stored,
                     fed, toStrm>>
  BY DEF Get, getUnchanged
<1>2. ShapeInv /\ WindowInv /\ FunctionalInv /\ PlacedInv
  BY DEF MoverInv
<1>3. /\ CallInv' /\ IdleInv' /\ EndInv' /\ ReturnInv'
      /\ Held /\ Held' /\ kernel = "running" /\ kernel' = "running"
      /\ inst' = inst /\ args' = args /\ Beat' = Beat /\ MemoryWord' = MemoryWord
      /\ \A d \in Sides, c \in Channels :
           /\ Frames(d, c)' = Frames(d, c) /\ Frames(d, c) \in Nat
      /\ \A c \in Channels : Source(c)' = Source(c)
  BY <1>1, Inside
<1>4. /\ "to" \in Sides /\ "from" \in Sides /\ MemRatio \in Nat \ {0}
      /\ fromStrm \in [Channels -> Seq(MemoryWord)] /\ fromStrm[c0] \in Seq(MemoryWord)
      /\ aie \in [Channels -> Seq(Beat)] /\ aie[c0] \in Seq(Beat) /\ Len(aie[c0]) \in Nat
      /\ Len(fromStrm[c0]) \in Nat
      /\ gotten \in [Channels -> Nat] /\ gotten[c0] \in Nat /\ stored[c0] \in Nat
  BY <1>2, DepthAssumption DEF ShapeInv, Sides
<1>5. LoadInv(c0) /\ GraphInv(c0) /\ StreamInv(c0)
  BY <1>1, <1>2, <1>3 DEF FunctionalInv
<1>6. F \in Nat /\ F' = F /\ Frames("to", c0)' = Frames("to", c0) /\ Source(c0)' = Source(c0)
  BY <1>3, <1>4
<1>7. gotten[c0] < Words(F)
  BY <1>1 DEF Total
<1>8. /\ n \in 1 .. MemRatio
      /\ OutOf(c0) = MemRatio * gotten[c0] /\ MemRatio * gotten[c0] \in Nat
      /\ BeatsIn(F, gotten[c0] + 1) = OutOf(c0) + n /\ OutOf(c0) + n <= F
      /\ Words(F) \in Nat
      /\ n # MemRatio => OutOf(c0) + n = F
  <2> DEFINE x == gotten[c0]
  <2> HIDE DEF F, x
  <2>1. F \in Nat /\ x \in Nat /\ x < Words(F) /\ Words(F) \in Nat /\ x + 1 \in Nat
        /\ x + 1 <= Words(F) /\ x <= Words(F)
    <3>1. x \in Nat /\ x < Words(F) /\ F \in Nat
      BY <1>4, <1>6, <1>7 DEF x
    <3>2. Words(F) \in Nat
      BY <3>1, WordsFacts
    <3> QED BY <3>1, <3>2
  <2>2. /\ BeatsIn(F, x) = MemRatio * x /\ FramesIn(F, x + 1) \in 1 .. MemRatio
        /\ BeatsIn(F, x + 1) = BeatsIn(F, x) + FramesIn(F, x + 1)
        /\ BeatsIn(F, x + 1) <= F
        /\ x + 1 = Words(F) => BeatsIn(F, x + 1) = F
        /\ x + 1 < Words(F) => BeatsIn(F, x + 1) = MemRatio * (x + 1)
    BY <2>1, BeatsInFacts
  <2>3. MemRatio * x \in Nat /\ MemRatio * (x + 1) = MemRatio * x + MemRatio
    BY <1>4, <2>1
  <2>4. x + 1 < Words(F) => FramesIn(F, x + 1) = MemRatio
    BY <1>4, <2>2, <2>3
  <2>5. FramesIn(F, x + 1) # MemRatio => BeatsIn(F, x + 1) = F
    BY <2>1, <2>2, <2>4
  <2> QED BY <2>1, <2>2, <2>3, <2>5 DEF F, x, OutOf
<1> HIDE DEF n, F
<1>9. /\ beats \in Seq(Beat) /\ Len(beats) = n /\ \A b \in 1 .. n : beats[b] = aie[c0][b]
      /\ rest \in Seq(Beat) /\ Len(rest) = Len(aie[c0]) - n
      /\ \A j \in 1 .. Len(aie[c0]) - n : rest[j] = aie[c0][n + j]
  <2> DEFINE B == Beat
             s == aie[c0]
  <2>1. s \in Seq(B) /\ n \in 0 .. Len(s)
    BY <1>1, <1>4, <1>8
  <2> HIDE DEF B, s
  <2>2. /\ SubSeq(s, 1, n) \in Seq(B) /\ Len(SubSeq(s, 1, n)) = n
        /\ \A j \in 1 .. n : SubSeq(s, 1, n)[j] = s[j]
    BY <2>1, Taken
  <2>3. /\ SubSeq(s, n + 1, Len(s)) \in Seq(B)
        /\ Len(SubSeq(s, n + 1, Len(s))) = Len(s) - n
        /\ \A j \in 1 .. Len(s) - n : SubSeq(s, n + 1, Len(s))[j] = s[n + j]
    BY <2>1, Dropped
  <2> QED BY <2>2, <2>3, Zenon DEF B, s
<1> HIDE DEF beats, rest
<1>10. /\ \A b \in 1 .. MemRatio : word[b] = IF b <= n THEN aie[c0][b] ELSE Blank
       /\ word \in MemoryWord
  <2>1. \A b \in 1 .. MemRatio : word[b] = IF b <= n THEN beats[b] ELSE Blank
    BY <1>9 DEF Padded
  <2>2. \A b \in 1 .. MemRatio : b <= n => b \in 1 .. n /\ b \in 1 .. Len(aie[c0])
    BY <1>1, <1>4, <1>8
  <2>3. \A b \in 1 .. Len(aie[c0]) : aie[c0][b] \in Beat
    <3> HIDE DEF n
    <3> QED BY <1>4
  <2>4. Blank \in Beat
    BY ThreeBeats DEF Beat
  <2>5. \A b \in 1 .. MemRatio : word[b] = IF b <= n THEN aie[c0][b] ELSE Blank
    BY <1>9, <2>1, <2>2
  <2>6. \A b \in 1 .. MemRatio : word[b] \in Beat
    BY <2>2, <2>3, <2>4, <2>5
  <2>7. word = [b \in 1 .. MemRatio |-> word[b]]
    BY DEF Padded
  <2> HIDE DEF word
  <2>8. word \in [1 .. MemRatio -> Beat]
    BY <2>6, <2>7
  <2> QED BY <2>5, <2>8 DEF MemoryWord
<1> HIDE DEF word
<1>11. /\ aie'[c0] = rest /\ fromStrm'[c0] = Append(fromStrm[c0], word)
       /\ gotten'[c0] = gotten[c0] + 1
       /\ \A c \in Channels \ {c0} :
            aie'[c] = aie[c] /\ fromStrm'[c] = fromStrm[c] /\ gotten'[c] = gotten[c]
  BY <1>1, <1>4
<1>12. /\ Append(fromStrm[c0], word) \in Seq(MemoryWord)
       /\ Len(Append(fromStrm[c0], word)) = Len(fromStrm[c0]) + 1
       /\ \A j \in 1 .. Len(fromStrm[c0]) : Append(fromStrm[c0], word)[j] = fromStrm[c0][j]
       /\ Append(fromStrm[c0], word)[Len(fromStrm[c0]) + 1] = word
  <2> DEFINE s == fromStrm[c0]
             S == MemoryWord
  <2>1. s \in Seq(S) /\ word \in S
    BY <1>4, <1>10
  <2> HIDE DEF s, S
  <2>2. /\ Append(s, word) \in Seq(S) /\ Len(Append(s, word)) = Len(s) + 1
        /\ \A j \in 1 .. Len(s) : Append(s, word)[j] = s[j]
        /\ Append(s, word)[Len(s) + 1] = word
    BY <2>1, AppendFacts
  <2> QED BY <2>2, Zenon DEF s, S
<1>13. ShapeInv'
  <2>1. /\ aie' = [aie EXCEPT ![c0] = rest]
        /\ fromStrm' = [fromStrm EXCEPT ![c0] = Append(fromStrm[c0], word)]
        /\ gotten' = [gotten EXCEPT ![c0] = gotten[c0] + 1] /\ gotten[c0] + 1 \in Nat
    BY <1>1, <1>4
  <2>2. /\ aie' \in [Channels -> Seq(Beat)]
        /\ fromStrm' \in [Channels -> Seq(MemoryWord)] /\ gotten' \in [Channels -> Nat]
    BY <1>4, <1>9, <1>12, <2>1
  <2>3. stalled' = stalled
    BY <1>1
  <2> QED BY <1>1, <1>2, <1>3, <2>2, <2>3 DEF ShapeInv
<1>14. LoadInv(c0)'
  BY <1>1, <1>5, <1>6 DEF LoadInv
<1>15. /\ OutOf(c0) <= Into(c0) /\ Len(aie[c0]) = Into(c0) - OutOf(c0)
       /\ \A j \in 1 .. Len(aie[c0]) : aie[c0][j] = <<Source(c0), OutOf(c0) + j>>
       /\ OutOf(c0) \in Nat /\ Into(c0) \in Int
  <2>1. Into(c0) \in Nat
    <3>1. fed[c0] \in Nat /\ Frames("to", c0) \in Nat /\ fed[c0] <= Words(Frames("to", c0))
      <4>1. Frames("to", c0) \in Nat /\ fed[c0] \in Nat /\ loaded[c0] \in Nat
        BY <1>2, <1>3, <1>4 DEF ShapeInv
      <4>2. Words(Frames("to", c0)) \in Nat
        BY <4>1, WordsFacts
      <4> QED BY <1>5, <4>1, <4>2 DEF LoadInv
    <3> QED BY <3>1, BeatsInFacts DEF Into
  <2> QED BY <1>5, <1>8, <2>1 DEF GraphInv
<1>16. GraphInv(c0)'
  <2>0. /\ n \in Nat /\ n <= Len(aie[c0]) /\ Len(aie[c0]) \in Nat
        /\ OutOf(c0) \in Nat /\ Into(c0) \in Int /\ Len(aie[c0]) = Into(c0) - OutOf(c0)
    BY <1>1, <1>4, <1>8, <1>15
  <2>1. Into(c0)' = Into(c0) /\ OutOf(c0)' = OutOf(c0) + n
    BY <1>1, <1>6, <1>8, <1>11 DEF Into, OutOf, F
  <2>2. /\ gotten'[c0] <= Words(Frames("from", c0))
    BY <1>4, <1>7, <1>8, <1>11 DEF F
  <2>3. Len(aie'[c0]) = Len(aie[c0]) - n
    BY <1>9, <1>11
  <2>4. OutOf(c0)' <= Into(c0)' /\ Len(aie'[c0]) = Into(c0)' - OutOf(c0)'
    <3> DEFINE l == Len(aie[c0])
    <3>1. l \in Nat /\ l = Into(c0) - OutOf(c0) /\ n <= l /\ Len(aie'[c0]) = l - n
      BY <2>0, <2>3
    <3> HIDE DEF l
    <3> QED BY <2>0, <2>1, <3>1
  <2>5. ASSUME NEW j \in 1 .. Len(aie'[c0])
        PROVE  aie'[c0][j] = <<Source(c0), OutOf(c0)' + j>>
    <3>1. n + j \in 1 .. Len(aie[c0]) /\ OutOf(c0) + (n + j) = (OutOf(c0) + n) + j
          /\ j \in 1 .. Len(aie[c0]) - n
      <4> DEFINE l == Len(aie[c0])
      <4>1. j \in 1 .. l - n
        BY <2>3
      <4> HIDE DEF l
      <4>2. l \in Nat /\ n \in Nat /\ OutOf(c0) \in Nat
        BY <2>0 DEF l
      <4>3. n + j \in 1 .. l /\ OutOf(c0) + (n + j) = (OutOf(c0) + n) + j
        BY <4>1, <4>2
      <4> QED BY <4>1, <4>3 DEF l
    <3>2. rest[j] = aie[c0][n + j]
      BY <1>9, <3>1
    <3>3. aie[c0][n + j] = <<Source(c0), OutOf(c0) + (n + j)>>
      BY <1>15, <3>1
    <3> QED BY <1>11, <2>1, <3>1, <3>2, <3>3
  <2>6. Frames("from", c0)' = Frames("from", c0) /\ Source(c0)' = Source(c0)
    BY <1>6 DEF F
  <2> QED BY <2>2, <2>4, <2>5, <2>6 DEF GraphInv
<1>17. StreamInv(c0)'
  <2>1. /\ stored[c0] <= gotten[c0] /\ Len(fromStrm[c0]) = gotten[c0] - stored[c0]
        /\ \A j \in 1 .. Len(fromStrm[c0]), b \in 1 .. MemRatio :
             fromStrm[c0][j][b] = IF MemRatio * (stored[c0] + j - 1) + b <= F
                                    THEN <<Source(c0), MemRatio * (stored[c0] + j - 1) + b>>
                                    ELSE Blank
    BY <1>5 DEF StreamInv, F
  <2>2. ASSUME NEW j \in 1 .. Len(fromStrm[c0]) + 1, NEW b \in 1 .. MemRatio
        PROVE  fromStrm'[c0][j][b] = IF MemRatio * (stored[c0] + j - 1) + b <= F
                                       THEN <<Source(c0), MemRatio * (stored[c0] + j - 1) + b>>
                                       ELSE Blank
    <3>1. CASE j \in 1 .. Len(fromStrm[c0])
      BY <1>11, <1>12, <2>1, <3>1
    <3>2. CASE j \notin 1 .. Len(fromStrm[c0])
      <4>1. j = Len(fromStrm[c0]) + 1 /\ stored[c0] + j - 1 = gotten[c0]
        <5> DEFINE l == Len(fromStrm[c0])
        <5>1. l \in Nat /\ l = gotten[c0] - stored[c0] /\ stored[c0] \in Nat /\ gotten[c0] \in Nat
          BY <1>4, <2>1
        <5>2. j \in 1 .. l + 1 /\ j \notin 1 .. l
          BY <3>2
        <5> HIDE DEF l
        <5>3. j = l + 1 /\ stored[c0] + j - 1 = gotten[c0]
          BY <5>1, <5>2
        <5> QED BY <5>3 DEF l
      <4>2. fromStrm'[c0][j] = word
        BY <1>11, <1>12, <4>1
      <4>3. MemRatio * (stored[c0] + j - 1) + b = OutOf(c0) + b
        BY <1>8, <4>1
      <4>4. b <= n <=> OutOf(c0) + b <= F
        <5> DEFINE o == OutOf(c0)
        <5>1. /\ o \in Nat /\ n \in 1 .. MemRatio /\ o + n <= F
              /\ n # MemRatio => o + n = F
          BY <1>8
        <5> HIDE DEF o
        <5>2. b <= n <=> o + b <= F
          BY <1>4, <1>6, <5>1
        <5> QED BY <5>2 DEF o
      <4>5. b <= n => aie[c0][b] = <<Source(c0), OutOf(c0) + b>>
        <5>1. b <= n => b \in 1 .. Len(aie[c0])
          BY <1>1, <1>4, <1>8
        <5> QED BY <1>15, <5>1
      <4> QED BY <1>10, <4>2, <4>3, <4>4, <4>5
    <3> QED BY <3>1, <3>2
  <2>3. Capacity \in Nat
    BY BurstAssumption DEF Capacity
  <2>4. Len(fromStrm'[c0]) = Len(fromStrm[c0]) + 1
    BY <1>11, <1>12
  <2>5. stored' = stored /\ Len(fromStrm'[c0]) <= Capacity
        /\ stored[c0] <= gotten'[c0] /\ Len(fromStrm'[c0]) = gotten'[c0] - stored[c0]
    BY <1>1, <1>4, <1>11, <2>1, <2>3, <2>4
  <2>6. Frames("from", c0)' = F /\ Source(c0)' = Source(c0)
    BY <1>6 DEF F
  <2> QED BY <2>2, <2>4, <2>5, <2>6 DEF StreamInv
<1>18. FunctionalInv' /\ PerformanceInv'
  BY <1>1, <1>11, <1>14, <1>16, <1>17, OneChannel
<1>19. WindowInv'
  BY <1>1, <1>2, <1>3, WindowKept
<1>20. PlacedInv'
  BY <1>1, <1>2, <1>3 DEF PlacedInv, Echo
<1> QED BY <1>3, <1>13, <1>18, <1>19, <1>20 DEF MoverInv

LEMMA StoreSkipStep ==
  ASSUME MoverInv, StoreSkip
  PROVE  MoverInv'
<1> USE DEF innerVars, callVars, outputVars, loadVars
<1>1. /\ Running /\ storeValid # 0
      /\ StoreLeft(storeRegs[storeValid]) = 0 /\ storeValid' = storeValid - 1
      /\ UNCHANGED innerVars
      /\ UNCHANGED <<from_aie, buff, loadRegs, loadValid, loaded, storeRegs, stored,
                     toStrm, fed, aie, gotten, fromStrm>>
  BY DEF StoreSkip, storeUnchanged
<1>2. ShapeInv /\ WindowInv /\ FunctionalInv /\ PlacedInv
  BY DEF MoverInv
<1>3. inst.mode = "FUNC"
  BY <1>1, Moving
<1>4. /\ CallInv' /\ IdleInv' /\ EndInv' /\ ReturnInv'
      /\ Held /\ Held' /\ kernel = "running" /\ kernel' = "running"
      /\ inst' = inst /\ inst.mode = mode /\ mode' = mode
      /\ args' = args /\ Beat' = Beat /\ MemoryWord' = MemoryWord
  BY <1>1, Inside
<1>5. storeValid \in 1 .. NumChannels /\ storeValid' \in 0 .. NumChannels
  BY <1>1, <1>2, ChannelsAssumption DEF ShapeInv
<1>6. ShapeInv'
  <2>1. stalled' = stalled
    BY <1>1
  <2> QED BY <1>1, <1>2, <1>4, <1>5, <2>1 DEF ShapeInv
<1>7. WindowInv'
  <2> SUFFICES ASSUME NEW c \in Channels
               PROVE  /\ LoadLeft(c)' # 0 => InWindow(loadRegs, loadValid, c)'
                      /\ StoreLeft(c)' # 0 => InWindow(storeRegs, storeValid, c)'
    BY DEF WindowInv
  <2>1. LoadLeft(c)' = LoadLeft(c) /\ StoreLeft(c)' = StoreLeft(c)
    BY <1>1, <1>4 DEF LoadLeft, StoreLeft, Frames
  <2>2. /\ LoadLeft(c) # 0 => InWindow(loadRegs, loadValid, c)
        /\ StoreLeft(c) # 0 => InWindow(storeRegs, storeValid, c)
    BY <1>2, <1>3, <1>4 DEF WindowInv
  <2>3. StoreLeft(c) # 0 => InWindow(storeRegs, storeValid - 1, c)
    BY <1>1, <1>2, <1>5, <2>2, Shrunk DEF ShapeInv
  <2> QED BY <1>1, <2>1, <2>2, <2>3 DEF InWindow
<1>8. FunctionalInv'
  BY <1>1, <1>2, <1>3, <1>4
     DEF FunctionalInv, LoadInv, GraphInv, StreamInv, Frames, Source, Into, OutOf
<1>9. PlacedInv'
  BY <1>1, <1>2, <1>4 DEF PlacedInv, Echo
<1>10. PerformanceInv'
  BY <1>3, <1>4 DEF PerformanceInv
<1> QED BY <1>4, <1>6, <1>7, <1>8, <1>9, <1>10 DEF MoverInv

(* Which word a beat is in.                                                *)
LEMMA WithinWords ==
  ASSUME NEW k \in Int, NEW q \in Int, NEW r \in 0 .. MemRatio - 1, k - 1 = MemRatio * q + r,
         NEW s \in Int
  PROVE  k <= MemRatio * s <=> q < s
<1>1. MemRatio \in Nat \ {0}
  BY DepthAssumption
<1>2. ASSUME q + 1 <= s PROVE k <= MemRatio * s
  <2>1. MemRatio * (q + 1) <= MemRatio * s /\ MemRatio * (q + 1) = MemRatio * q + MemRatio
        /\ MemRatio * q \in Int /\ MemRatio * s \in Int
    BY <1>1, <1>2, Multiple
  <2> QED BY <1>1, <2>1
<1>3. ASSUME s <= q PROVE ~(k <= MemRatio * s)
  <2>1. MemRatio * s <= MemRatio * q /\ MemRatio * q \in Int /\ MemRatio * s \in Int
    BY <1>1, <1>3, Multiple
  <2> QED BY <1>1, <2>1
<1> QED BY <1>2, <1>3

LEMMA BeatsReached ==
  ASSUME NEW f \in Nat, NEW g \in Nat, g <= Words(f), NEW k \in Nat, k <= f, k <= MemRatio * g
  PROVE  k <= BeatsIn(f, g)
<1>1. Words(f) \in Nat
  BY WordsFacts
<1>2. CASE g < Words(f)
  BY <1>2, BeatsInFacts
<1>3. CASE g = Words(f)
  BY <1>3, BeatsInFacts
<1> QED BY <1>1, <1>2, <1>3

(* A beat that has come back is the one that went in.                      *)
LEMMA EchoReached ==
  ASSUME MoverInv, kernel # "idle", inst.mode = "FUNC", NEW c \in Channels,
         NEW k \in 1 .. Frames("from", c), k <= MemRatio * gotten[c]
  PROVE  Echo(c, k) = <<Source(c), k>>
<1>1. "to" \in Sides /\ "from" \in Sides
  BY DEF Sides
<1>2. CallInv /\ ShapeInv /\ LoadInv(c) /\ GraphInv(c)
  BY DEF MoverInv, FunctionalInv
<1>3. /\ Frames("to", c) \in Nat /\ Frames("from", c) \in Nat /\ k \in Nat /\ k >= 1
      /\ gotten[c] \in Nat /\ fed[c] \in Nat /\ loaded[c] \in Nat
  BY <1>1, <1>2, RowFacts DEF ShapeInv
<1>4. Words(Frames("to", c)) \in Nat
  BY <1>3, WordsFacts
<1>5. fed[c] <= Words(Frames("to", c)) /\ gotten[c] <= Words(Frames("from", c))
  BY <1>2, <1>3, <1>4 DEF LoadInv, GraphInv
<1>6. k <= OutOf(c)
  BY <1>3, <1>5, BeatsReached DEF OutOf
<1>7. OutOf(c) <= Into(c) /\ Into(c) <= Frames("to", c) /\ Into(c) \in Nat /\ OutOf(c) \in Nat
  BY <1>2, <1>3, <1>5, BeatsInFacts DEF GraphInv, Into, OutOf
<1>8. k <= Frames("to", c)
  BY <1>3, <1>6, <1>7
<1>9. Last(args, "to", c) # 0
  BY <1>1, <1>2, <1>3, <1>8, RowFacts
<1>10. args[Last(args, "to", c)].beats = Frames("to", c)
  BY <1>1, <1>2, <1>9, RowFacts
<1>11. (k - 1) % Frames("to", c) = k - 1
  <2> DEFINE f == Frames("to", c)
  <2>1. f \in Nat \ {0} /\ k - 1 \in 0 .. f - 1
    BY <1>3, <1>8
  <2> HIDE DEF f
  <2>2. k - 1 = f * 0 + (k - 1) /\ k - 1 \in Int
    BY <2>1
  <2>3. (k - 1) % f = k - 1
    BY <2>1, <2>2, DivisionUnique
  <2> QED BY <2>3 DEF f
<1>12. (k - 1) + 1 = k
  BY <1>3
<1> QED BY <1>10, <1>11, <1>12 DEF Echo, Source

(* Whole words arrive: the FIFO holds all that a turn takes out of it.     *)
LEMMA StoreHeld ==
  ASSUME NEW c \in Channels, Len(fromStrm[c]) \in Nat, StoreLeft(c) \in Nat
  PROVE  /\ StoreAmount(c) \in Nat /\ StoreAmount(c) <= StoreLeft(c)
         /\ StoreAmount(c) <= Len(fromStrm[c])
<1> DEFINE size == Len(fromStrm[c])
           left == StoreLeft(c)
           n == StoreAmount(c)
<1>1. n = IF left >= BurstLen /\ size >= BurstLen THEN BurstLen
          ELSE IF size = left THEN left ELSE 0
  BY DEF StoreAmount
<1> HIDE DEF n
<1> QED BY <1>1, BurstAssumption DEF n

LEMMA InWords ==
  ASSUME NEW a \in Nat, NEW x \in Nat, NEW w \in Nat, x < w, NEW r \in 0 .. MemRatio - 1
  PROVE  /\ MemRatio * (a + x) + r \in Nat
         /\ MemRatio * a <= MemRatio * (a + x) + r
         /\ MemRatio * (a + x) + r < MemRatio * a + MemRatio * w
<1>1. MemRatio \in Nat \ {0} /\ x + 1 <= w /\ 0 <= x /\ x + 1 \in Int
  BY DepthAssumption
<1>2. /\ MemRatio * (a + x) = MemRatio * a + MemRatio * x
      /\ MemRatio * (x + 1) = MemRatio * x + MemRatio
      /\ MemRatio * a \in Nat /\ MemRatio * x \in Nat /\ MemRatio * w \in Nat
  BY <1>1
<1>3. MemRatio * (x + 1) <= MemRatio * w
  BY <1>1, Multiple
<1> DEFINE A == MemRatio * a
           X == MemRatio * x
           W == MemRatio * w
           P == MemRatio * (a + x)
<1>4. A \in Nat /\ X \in Nat /\ W \in Nat /\ P = A + X /\ X + MemRatio <= W
  BY <1>2, <1>3
<1> HIDE DEF A, X, W, P
<1>5. P + r \in Nat /\ A <= P + r /\ P + r < A + W
  BY <1>1, <1>4
<1> QED BY <1>5 DEF A, W, P

LEMMA StoreTurnStep ==
  ASSUME MoverInv, StoreTurn
  PROVE  MoverInv'
<1> USE DEF innerVars, callVars, outputVars, loadVars
<1>0. storeValid \in 1 .. NumChannels /\ storeRegs \in [Turns -> Channels]
      /\ storeRegs[storeValid] \in Channels
  BY ChannelsAssumption DEF MoverInv, ShapeInv, StoreTurn, Turns
<1> PICK c0 \in Channels : c0 = storeRegs[storeValid]
  BY <1>0
<1> DEFINE n == StoreAmount(c0)
           strm == fromStrm[c0]
           ws == [j \in 1 .. n |-> ReadNB(strm, j)]
           base == inst.offsets["from"][c0] + stored[c0]
           rest == SubSeq(strm, n + 1, Len(strm))
           F == Frames("from", c0)
           l == Last(args, "from", c0)
<1>1. /\ Running /\ storeValid # 0 /\ StoreLeft(c0) # 0
      /\ storeRegs' = Shift(storeRegs, c0)
      /\ from_aie' = WriteWords(from_aie, base, ws)
      /\ fromStrm' = [fromStrm EXCEPT ![c0] = rest]
      /\ stored' = [stored EXCEPT ![c0] = @ + n]
      /\ UNCHANGED innerVars
      /\ UNCHANGED <<buff, loadRegs, loadValid, loaded, storeValid, toStrm, fed, aie, gotten>>
  BY DEF StoreTurn, storeUnchanged
<1>2. ShapeInv /\ WindowInv /\ FunctionalInv /\ PlacedInv /\ CallInv
  BY DEF MoverInv
<1>3. inst.mode = "FUNC"
  BY <1>1, Moving
<1>4. DOMAIN from_aie' = DOMAIN from_aie
  BY <1>1 DEF WriteWords
<1>5. /\ CallInv' /\ IdleInv' /\ EndInv' /\ ReturnInv'
      /\ Held /\ Held' /\ kernel = "running" /\ kernel' = "running"
      /\ inst' = inst /\ mode = "FUNC" /\ mode' = mode
      /\ args' = args /\ Beat' = Beat /\ MemoryWord' = MemoryWord
      /\ \A d \in Sides, c \in Channels :
           /\ Frames(d, c)' = Frames(d, c) /\ Frames(d, c) \in Nat
      /\ \A c \in Channels : Source(c)' = Source(c)
      /\ \A c \in Channels, k \in Int : Echo(c, k)' = Echo(c, k)
  BY <1>1, <1>3, <1>4, Inside
<1>6. /\ "to" \in Sides /\ "from" \in Sides
      /\ fromStrm \in [Channels -> Seq(MemoryWord)] /\ strm \in Seq(MemoryWord)
      /\ stored \in [Channels -> Nat] /\ stored[c0] \in Nat /\ gotten[c0] \in Nat
      /\ Len(strm) \in Nat
      /\ MemRatio \in Nat \ {0} /\ Capacity \in Nat
  <2>1. /\ "to" \in Sides /\ "from" \in Sides /\ MemRatio \in Nat \ {0} /\ Capacity \in Nat
    BY DepthAssumption, BurstAssumption DEF Sides, Capacity
  <2>2. /\ fromStrm \in [Channels -> Seq(MemoryWord)]
        /\ stored \in [Channels -> Nat] /\ gotten \in [Channels -> Nat]
    BY <1>2 DEF ShapeInv
  <2>3. strm \in Seq(MemoryWord)
    BY <2>2
  <2> HIDE DEF strm
  <2> QED BY <2>1, <2>2, <2>3
<1>7. \A c \in Channels : LoadInv(c) /\ GraphInv(c) /\ StreamInv(c)
  BY <1>2, <1>3, <1>5 DEF FunctionalInv
<1>8. /\ F \in Nat /\ F' = F /\ Frames("to", c0)' = Frames("to", c0) /\ Source(c0)' = Source(c0)
      /\ Words(F) \in Nat
  BY <1>5, <1>6, WordsFacts
<1>9. /\ stored[c0] <= gotten[c0] /\ gotten[c0] <= Words(F)
      /\ Len(strm) = gotten[c0] - stored[c0] /\ Len(strm) <= Capacity
      /\ \A j \in 1 .. Len(strm), b \in 1 .. MemRatio :
           strm[j][b] = IF MemRatio * (stored[c0] + j - 1) + b <= F
                          THEN <<Source(c0), MemRatio * (stored[c0] + j - 1) + b>> ELSE Blank
  BY <1>6, <1>7 DEF StreamInv, GraphInv
<1>10. StoreLeft(c0) \in Nat /\ stored[c0] + StoreLeft(c0) = Words(F)
  <2> HIDE DEF strm
  <2>1. StoreLeft(c0) = Words(F) - stored[c0]
    BY DEF StoreLeft
  <2> HIDE DEF F
  <2> QED BY <1>6, <1>8, <1>9, <2>1
<1>11. n \in Nat /\ n <= Len(strm) /\ stored[c0] + n <= gotten[c0] /\ stored[c0] + n <= Words(F)
  <2>1. n \in Nat /\ n <= StoreLeft(c0) /\ n <= Len(strm)
    BY <1>6, <1>10, StoreHeld
  <2> HIDE DEF n, F
  <2> DEFINE m == Len(strm)
  <2>2. m \in Nat /\ n <= m /\ m = gotten[c0] - stored[c0]
    BY <1>6, <1>9, <2>1
  <2> HIDE DEF m
  <2> QED BY <1>6, <1>8, <1>10, <2>1, <2>2 DEF m
<1> HIDE DEF n, F
<1>12. /\ DOMAIN ws = 1 .. n
       /\ \A j \in 1 .. n : j \in 1 .. Len(strm) /\ ws[j] = strm[j] /\ strm[j] \in MemoryWord
  <2> DEFINE m == Len(strm)
  <2>1. m \in Nat /\ n <= m /\ n \in Nat
    BY <1>6, <1>11
  <2>2. \A j \in 1 .. m : strm[j] \in MemoryWord
    BY <1>6
  <2>3. \A j \in 1 .. n : j \in 1 .. m /\ j <= m
    <3> HIDE DEF m
    <3> QED BY <2>1
  <2> QED BY <2>2, <2>3 DEF ReadNB
<1>13. /\ rest \in Seq(MemoryWord) /\ Len(rest) = Len(strm) - n
       /\ \A j \in 1 .. Len(strm) - n : rest[j] = strm[n + j]
  <2> DEFINE S == MemoryWord
             s == strm
  <2>1. s \in Seq(S) /\ n \in 0 .. Len(s)
    BY <1>6, <1>11
  <2> HIDE DEF S, s
  <2>2. /\ SubSeq(s, n + 1, Len(s)) \in Seq(S)
        /\ Len(SubSeq(s, n + 1, Len(s))) = Len(s) - n
        /\ \A j \in 1 .. Len(s) - n : SubSeq(s, n + 1, Len(s))[j] = s[n + j]
    BY <2>1, Dropped
  <2> QED BY <2>2, Zenon DEF S, s
<1> HIDE DEF ws, rest, strm
<1>14. /\ fromStrm'[c0] = rest /\ stored'[c0] = stored[c0] + n
       /\ \A c \in Channels \ {c0} : fromStrm'[c] = fromStrm[c] /\ stored'[c] = stored[c]
  BY <1>1, <1>6
(* What a place in the buffer holds now.                                   *)
<1>15. ASSUME NEW p \in DOMAIN from_aie
       PROVE  from_aie'[p] = LET w == (p - 1) \div MemRatio IN
                             IF w - base + 1 \in 1 .. n
                               THEN strm[w - base + 1][((p - 1) % MemRatio) + 1]
                               ELSE from_aie[p]
  <2> DEFINE w == (p - 1) \div MemRatio
             j == w - base + 1
  <2>1. from_aie'[p] = IF j \in DOMAIN ws THEN ws[j][((p - 1) % MemRatio) + 1] ELSE from_aie[p]
    BY <1>1 DEF WriteWords
  <2> HIDE DEF j
  <2>2. from_aie'[p] = IF j \in 1 .. n THEN strm[j][((p - 1) % MemRatio) + 1] ELSE from_aie[p]
    BY <1>12, <2>1
  <2> QED BY <2>2 DEF j
<1>16. ShapeInv'
  <2>1. Shift(storeRegs, c0) \in [Turns -> Channels]
    BY <1>0, Rotated
  <2>2. stored' \in [Channels -> Nat] /\ fromStrm' \in [Channels -> Seq(MemoryWord)]
    <3>1. stored[c0] + n \in Nat /\ stored' = [stored EXCEPT ![c0] = stored[c0] + n]
      BY <1>1, <1>6, <1>11
    <3> QED BY <1>1, <1>6, <1>13, <3>1
  <2>3. ASSUME NEW p \in DOMAIN from_aie PROVE from_aie'[p] \in Beat
    <3> DEFINE j == ((p - 1) \div MemRatio) - base + 1
               b == ((p - 1) % MemRatio) + 1
    <3>1. from_aie'[p] = IF j \in 1 .. n THEN strm[j][b] ELSE from_aie[p]
      BY <1>15, <2>3
    <3>2. from_aie[p] \in Beat
      BY <1>2, <2>3 DEF ShapeInv
    <3>3. p \in Int
      BY <1>2, <1>5, <2>3 DEF CallInv
    <3>4. b \in 1 .. MemRatio
      <4>1. (p - 1) % MemRatio \in 0 .. MemRatio - 1
        <5> DEFINE x == p - 1
        <5>1. x \in Int
          BY <3>3
        <5> HIDE DEF x
        <5>2. x % MemRatio \in 0 .. MemRatio - 1
          BY <1>6, <5>1, Division
        <5> QED BY <5>2 DEF x
      <4> QED BY <1>6, <4>1
    <3> HIDE DEF b, j
    <3>5. j \in 1 .. n => strm[j][b] \in Beat
      BY <1>12, <3>4 DEF MemoryWord
    <3> QED BY <3>1, <3>2, <3>5
  <2>4. stalled' = stalled
    BY <1>1
  <2> QED BY <1>1, <1>2, <1>4, <1>5, <2>1, <2>2, <2>3, <2>4 DEF ShapeInv
<1>17. WindowInv'
  <2> SUFFICES ASSUME NEW c \in Channels
               PROVE  /\ LoadLeft(c)' # 0 => InWindow(loadRegs, loadValid, c)'
                      /\ StoreLeft(c)' # 0 => InWindow(storeRegs, storeValid, c)'
    BY DEF WindowInv
  <2>1. LoadLeft(c)' = LoadLeft(c)
    BY <1>1, <1>5 DEF LoadLeft, Frames
  <2>2. /\ LoadLeft(c) # 0 => InWindow(loadRegs, loadValid, c)
        /\ StoreLeft(c) # 0 => InWindow(storeRegs, storeValid, c)
    BY <1>2, <1>3, <1>5 DEF WindowInv
  <2>3. StoreLeft(c)' # 0 => StoreLeft(c) # 0
    <3>1. CASE c = c0
      BY <1>1, <3>1
    <3>2. CASE c # c0
      <4>1. stored'[c] = stored[c]
        BY <1>14, <3>2
      <4> QED BY <1>5, <1>6, <4>1 DEF StoreLeft
    <3> QED BY <3>1, <3>2
  <2>4. InWindow(storeRegs, storeValid, c) => InWindow(Shift(storeRegs, c0), storeValid, c)
    BY <1>0, Rotated
  <2> QED BY <1>1, <2>1, <2>2, <2>3, <2>4 DEF InWindow
<1>18. LoadInv(c0)' /\ GraphInv(c0)'
  <2>1. /\ Frames("from", c0)' = Frames("from", c0) /\ Frames("to", c0)' = Frames("to", c0)
        /\ Source(c0)' = Source(c0)
        /\ UNCHANGED <<loaded, toStrm, fed, aie, gotten>>
    BY <1>1, <1>5, <1>6
  <2>2. LoadInv(c0) /\ GraphInv(c0)
    BY <1>7
  <2>3. Into(c0)' = Into(c0) /\ OutOf(c0)' = OutOf(c0)
    BY <2>1 DEF Into, OutOf
  <2>4. LoadInv(c0)'
    BY <2>1, <2>2 DEF LoadInv
  <2>5. GraphInv(c0)'
    BY <2>1, <2>2, <2>3 DEF GraphInv
  <2> QED BY <2>4, <2>5
<1>19. StreamInv(c0)'
  <2> DEFINE m == Len(strm)
  <2>1. /\ m \in Nat /\ n \in Nat /\ n <= m /\ m = gotten[c0] - stored[c0] /\ m <= Capacity
        /\ stored[c0] \in Nat /\ gotten[c0] \in Nat /\ Capacity \in Nat
        /\ gotten' = gotten /\ stored'[c0] = stored[c0] + n /\ Len(fromStrm'[c0]) = m - n
    BY <1>1, <1>6, <1>9, <1>11, <1>13, <1>14
  <2>2. ASSUME NEW j \in 1 .. m - n, NEW b \in 1 .. MemRatio
        PROVE  fromStrm'[c0][j][b] =
                 IF MemRatio * (stored'[c0] + j - 1) + b <= F
                   THEN <<Source(c0), MemRatio * (stored'[c0] + j - 1) + b>> ELSE Blank
    <3>1. fromStrm'[c0][j] = strm[n + j]
      BY <1>13, <1>14
    <3>2. n + j \in 1 .. m /\ stored'[c0] + j - 1 = stored[c0] + (n + j) - 1
      <4> DEFINE f == stored[c0]
      <4>1. m \in Nat /\ n \in Nat /\ n <= m /\ f \in Nat /\ stored'[c0] = f + n
        BY <2>1
      <4> HIDE DEF m, f
      <4>2. n + j \in 1 .. m /\ (f + n) + j - 1 = f + (n + j) - 1
        BY <4>1
      <4> QED BY <4>1, <4>2 DEF f
    <3>3. strm[n + j][b] = IF MemRatio * (stored[c0] + (n + j) - 1) + b <= F
                          THEN <<Source(c0), MemRatio * (stored[c0] + (n + j) - 1) + b>> ELSE Blank
      BY <1>9, <3>2
    <3> QED BY <3>1, <3>2, <3>3
  <2>3. /\ stored'[c0] <= gotten'[c0] /\ Len(fromStrm'[c0]) = gotten'[c0] - stored'[c0]
        /\ Len(fromStrm'[c0]) <= Capacity
    <3> HIDE DEF m
    <3> QED BY <2>1
  <2> HIDE DEF m
  <2>4. Frames("from", c0)' = F /\ Source(c0)' = Source(c0)
    BY <1>8 DEF F
  <2>5. ASSUME NEW j \in 1 .. Len(fromStrm'[c0]), NEW b \in 1 .. MemRatio
        PROVE  fromStrm'[c0][j][b] =
                 IF MemRatio * (stored'[c0] + j - 1) + b <= Frames("from", c0)'
                   THEN <<Source(c0)', MemRatio * (stored'[c0] + j - 1) + b>> ELSE Blank
    BY <2>1, <2>2, <2>4
  <2> QED BY <2>3, <2>5 DEF StreamInv
<1>20. FunctionalInv' /\ PerformanceInv'
  BY <1>1, <1>3, <1>4, <1>6, <1>14, <1>18, <1>19, OneChannel
<1>21. PlacedInv'
  <2> SUFFICES ASSUME NEW i \in Towards(args, "from"),
                      NEW k \in 1 .. MemRatio * Words(args[i].beats)
               PROVE  from_aie'[MemRatio * Offset("FUNC", args, i) + k] =
                        IF /\ i = Last(args, "from", args[i].chn)
                           /\ k <= MemRatio * stored'[args[i].chn] /\ k <= args[i].beats
                          THEN Echo(args[i].chn, k) ELSE Blank
    <3>1. \A i \in Towards(args, "from") : args[i].chn \in Channels /\ args[i].beats \in Nat
      BY <1>2, <1>5, ArgumentFacts DEF CallInv, Towards, ValidArguments
    <3>2. \A i \in Towards(args, "from") : \A k \in 1 .. MemRatio * Words(args[i].beats) : k \in Int
      OBVIOUS
    <3> QED BY <1>5, <3>1, <3>2 DEF PlacedInv
  <2> DEFINE c == args[i].chn
             f == args[i].beats
             off == Offset("FUNC", args, i)
             p == MemRatio * off + k
             q == (k - 1) \div MemRatio
             r == (k - 1) % MemRatio
             own == inst.offsets["from"][c0]
  <2>1. /\ args \in Seq(Argument) /\ i \in DOMAIN args /\ c \in Channels /\ f \in Nat
        /\ Words(f) \in Nat /\ off \in Nat /\ k \in Int /\ k >= 1 /\ k <= MemRatio * Words(f)
        /\ MemRatio * Words(f) \in Nat
    <3>1. args \in Seq(Argument) /\ i \in DOMAIN args /\ c \in Channels /\ f \in Nat
      BY <1>2, <1>5, ArgumentFacts DEF CallInv, Towards, ValidArguments
    <3>2. Words(f) \in Nat /\ off \in Nat /\ MemRatio * Words(f) \in Nat
      BY <1>6, <3>1, WordsFacts, Behind
    <3> QED BY <3>1, <3>2
  <2>2. p \in DOMAIN from_aie /\ MemRatio * off \in Nat
    <3>1. MemRatio * off + k \in 1 .. BufferSize("FUNC", args, "from") /\ MemRatio * off \in Nat
      BY <1>6, <2>1, WordsInside
    <3> QED BY <1>2, <1>5, <3>1 DEF CallInv
  <2>3. q \in Int /\ r \in 0 .. MemRatio - 1 /\ k - 1 = MemRatio * q + r
    <3> DEFINE x == k - 1
    <3>1. x \in Int
      BY <2>1
    <3> HIDE DEF x
    <3>2. /\ x \div MemRatio \in Int /\ x % MemRatio \in 0 .. MemRatio - 1
          /\ x = MemRatio * (x \div MemRatio) + (x % MemRatio)
      BY <1>6, <3>1, Division
    <3> QED BY <3>2 DEF x
  <2> HIDE DEF q, r
  <2>4. (p - 1) \div MemRatio = off + q /\ (p - 1) % MemRatio = r
        /\ p - 1 = MemRatio * (off + q) + r /\ p - 1 \in Int
    <3> HIDE DEF off
    <3>1. /\ MemRatio * (off + q) = MemRatio * off + MemRatio * q
          /\ MemRatio * off \in Int /\ MemRatio * q \in Int
      BY <1>6, <2>1, <2>3
    <3>2. p - 1 = MemRatio * (off + q) + r /\ p - 1 \in Int /\ off + q \in Int
      <4> DEFINE A == MemRatio * off
                 Q == MemRatio * q
                 P == MemRatio * (off + q)
      <4>1. A \in Int /\ Q \in Int /\ P = A + Q /\ k - 1 = Q + r /\ p = A + k
            /\ k \in Int /\ r \in Int /\ off + q \in Int
        <5>1. r \in Int
          BY <1>6, <2>3
        <5> QED BY <2>1, <2>3, <3>1, <5>1
      <4> HIDE DEF A, Q, P, p
      <4>2. p - 1 = P + r /\ p - 1 \in Int
        BY <4>1
      <4> QED BY <4>1, <4>2 DEF P
    <3> DEFINE x == p - 1
    <3>3. x \in Int /\ x = MemRatio * (off + q) + r /\ off + q \in Int
      BY <3>2
    <3> HIDE DEF x
    <3>4. PICK y \in Int : y = off + q
      BY <3>3
    <3>5. x \in Int /\ x = MemRatio * y + r
      BY ONLY <3>3, <3>4
    <3>6. r \in 0 .. MemRatio - 1 /\ MemRatio \in Nat \ {0}
      BY <1>6, <2>3
    <3>7. x \div MemRatio = y /\ x % MemRatio = r
      BY ONLY <3>5, <3>6, DivisionUnique, SMTT(40)
    <3> QED BY <3>2, <3>4, <3>7 DEF x
  <2>5. /\ q < Words(f) /\ 0 <= q
        /\ \A s \in Int : k <= MemRatio * s <=> q < s
    <3>1. \A s \in Int : k <= MemRatio * s <=> q < s
      BY <2>1, <2>3, WithinWords
    <3>2. MemRatio * 0 = 0 /\ ~(k <= MemRatio * 0)
      BY <1>6, <2>1
    <3> HIDE DEF f
    <3> QED BY <2>1, <2>3, <3>1, <3>2
  <2>6. from_aie'[p] = IF (off + q) - base + 1 \in 1 .. n
                         THEN strm[(off + q) - base + 1][r + 1] ELSE from_aie[p]
    <3> HIDE DEF p, off, base
    <3> QED BY <1>15, <2>2, <2>4
  <2>7. from_aie[p] = IF i = Last(args, "from", c) /\ k <= MemRatio * stored[c] /\ k <= f
                        THEN Echo(c, k) ELSE Blank
    BY <1>2, <1>3, <1>5 DEF PlacedInv
  <2>8. l # 0 => /\ l \in Towards(args, "from") /\ args[l].chn = c0 /\ F = args[l].beats
                 /\ own = Offset("FUNC", args, l) /\ own \in Nat
    <3>1. l # 0 => /\ l \in Towards(args, "from") /\ args[l].chn = c0
                   /\ Frames("from", c0) = args[l].beats
                   /\ inst.offsets["from"][c0] = Offset(mode, args, l)
      BY <1>2, <1>5, <1>6, RowFacts
    <3>2. l # 0 => Offset("FUNC", args, l) \in Nat
      BY <1>6, <2>1, <3>1, Behind
    <3> QED BY <1>5, <3>1, <3>2 DEF F
  <2>9. l = 0 => F = 0
    BY <1>2, <1>5, <1>6, RowFacts DEF F
  (* A word written now is the next of the channel that has its turn.      *)
  <2>10. ASSUME n # 0 PROVE l # 0
    <3> SUFFICES ASSUME l = 0 PROVE FALSE
      OBVIOUS
    <3>1. F = 0
      BY <2>9
    <3>2. Words(F) = 0
      BY <1>8, <3>1, WordsFacts
    <3> QED BY <1>6, <1>11, <2>10, <3>2
  <2> HIDE DEF l
  <2>11. ASSUME i = l, l # 0
         PROVE  /\ c = c0 /\ f = F /\ off = own /\ i = Last(args, "from", c)
                /\ (off + q) - base + 1 = q - stored[c0] + 1
    <3>1. c = c0 /\ f = F /\ off = own
      BY <2>8, <2>11
    <3>2. i = Last(args, "from", c)
      BY <2>11, <3>1 DEF l
    <3>3. (off + q) - base + 1 = q - stored[c0] + 1
      <4> HIDE DEF off, own
      <4>1. base = own + stored[c0]
        BY DEF own
      <4> HIDE DEF base
      <4> QED BY <1>6, <2>3, <2>8, <2>11, <3>1, <4>1
    <3> QED BY <3>1, <3>2, <3>3
  <2>12. ASSUME i = Last(args, "from", c), c = c0, i # 0
         PROVE  i = l /\ l # 0
    BY <2>12 DEF l
  <2>13. CASE (off + q) - base + 1 \in 1 .. n
    <3>1. n # 0 /\ l # 0
      BY <1>11, <2>10, <2>13
    <3>2. i = l
      <4> DEFINE x == q + off - own
      <4>1. /\ own \in Nat /\ off \in Nat /\ q \in Int /\ q >= 0 /\ stored[c0] \in Nat /\ n \in Nat
            /\ stored[c0] + n <= Words(F) /\ base = own + stored[c0] /\ Words(F) \in Nat
        <5>1. own \in Nat
          BY <2>8, <3>1
        <5> QED BY <1>6, <1>8, <1>11, <2>1, <2>3, <2>5, <5>1
      <4>2. x \in Int /\ 0 <= x /\ x < Words(F) /\ off + q = own + x
        <5> HIDE DEF own, off, base
        <5> QED BY <2>13, <4>1
      <4> HIDE DEF x
      <4>3. /\ MemRatio * (own + x) + r \in Nat
            /\ MemRatio * own <= MemRatio * (own + x) + r
            /\ MemRatio * (own + x) + r < MemRatio * own + MemRatio * Words(F)
        <5> HIDE DEF own
        <5>1. x \in Nat /\ Words(F) \in Nat /\ own \in Nat
          BY <4>1, <4>2
        <5> QED BY <2>3, <4>2, <5>1, InWords
      <4>4. p - 1 = MemRatio * (own + x) + r /\ p \in Int
        <5>1. p \in Int
          BY <1>2, <1>5, <2>2 DEF CallInv
        <5> QED BY <2>4, <4>2, <5>1
      <4>5. MemRatio * own < p /\ p <= MemRatio * own + MemRatio * Words(F) /\ p \in Int
        <5> DEFINE A == MemRatio * own
                   B == MemRatio * own + MemRatio * Words(F)
                   P == MemRatio * (own + x) + r
        <5>1. P \in Nat /\ A <= P /\ P < B /\ p - 1 = P /\ p \in Int /\ A \in Int /\ B \in Int
          <6> HIDE DEF own, p
          <6>1. MemRatio * own \in Nat /\ MemRatio * Words(F) \in Nat
            BY <1>6, <1>8, <4>1, MultipleNat
          <6>2. MemRatio * own + MemRatio * Words(F) \in Int
            BY <6>1
          <6> QED BY <4>3, <4>4, <6>1, <6>2
        <5> HIDE DEF A, B, P, p
        <5>2. A < p /\ p <= B
          BY <5>1
        <5> QED BY <4>4, <5>2 DEF A, B
      <4>6. MemRatio * off < p /\ p <= MemRatio * off + MemRatio * Words(f)
        <5> HIDE DEF off, f
        <5> QED BY <2>1, <2>2
      <4>7. /\ MemRatio * Offset("FUNC", args, l) < p
            /\ p <= MemRatio * Offset("FUNC", args, l) + MemRatio * Words(args[l].beats)
            /\ l \in Towards(args, "from")
        BY <2>8, <3>1, <4>5
      <4> HIDE DEF p
      <4> QED BY <1>6, <2>1, <4>5, <4>6, <4>7, OwnWords
    <3>3. /\ c = c0 /\ f = F /\ i = Last(args, "from", c)
          /\ (off + q) - base + 1 = q - stored[c0] + 1
      BY <2>11, <3>1, <3>2
    <3> DEFINE j == q - stored[c0] + 1
    <3>4. j \in 1 .. n /\ stored[c0] + j - 1 = q /\ q < stored[c0] + n
      <4>1. j \in 1 .. n
        BY <2>13, <3>3
      <4> QED BY <1>6, <1>11, <2>3, <4>1
    <3>5. from_aie'[p] = strm[j][r + 1]
      BY <2>6, <2>13, <3>3
    <3>6. r + 1 \in 1 .. MemRatio /\ MemRatio * (stored[c0] + j - 1) + (r + 1) = k
      <4>1. MemRatio * q \in Int
        BY <1>6, <2>3
      <4>2. MemRatio * (stored[c0] + j - 1) = MemRatio * q
        BY <3>4
      <4> DEFINE Q == MemRatio * q
      <4>3. Q \in Int /\ k - 1 = Q + r /\ r \in 0 .. MemRatio - 1 /\ k \in Int
        BY <2>1, <2>3, <4>1
      <4> HIDE DEF Q
      <4>4. r + 1 \in 1 .. MemRatio /\ Q + (r + 1) = k
        BY <1>6, <4>3
      <4> QED BY <4>2, <4>4 DEF Q
    <3>7. strm[j][r + 1] = IF k <= F THEN <<Source(c0), k>> ELSE Blank
      <4>1. j \in 1 .. Len(strm)
        BY <1>12, <3>4
      <4> HIDE DEF j
      <4> QED BY <1>9, <3>6, <4>1
    <3>8. k <= MemRatio * stored'[c] /\ k <= MemRatio * gotten[c0]
      <4>1. stored[c0] + n \in Int /\ q < gotten[c0] /\ gotten[c0] \in Int
        <5> HIDE DEF j
        <5>1. /\ q \in Int /\ q < stored[c0] + n /\ stored[c0] \in Nat /\ gotten[c0] \in Nat
              /\ n \in Nat /\ stored[c0] + n <= gotten[c0]
          BY <1>6, <1>11, <2>3, <3>4
        <5> HIDE DEF c, f, off, p, own
        <5> QED BY <5>1
      <4> QED BY <1>14, <2>5, <3>3, <3>4, <4>1
    <3>9. k <= F => Echo(c, k) = <<Source(c0), k>>
      <4> SUFFICES ASSUME k <= F PROVE Echo(c0, k) = <<Source(c0), k>>
        BY <3>3
      <4>1. k \in 1 .. Frames("from", c0)
        BY <1>8, <2>1 DEF F
      <4> QED BY <1>3, <1>5, <1>6, <3>8, <4>1, EchoReached
    <3> HIDE DEF p
    <3> QED BY <3>3, <3>5, <3>7, <3>8, <3>9 DEF p
  <2>14. CASE (off + q) - base + 1 \notin 1 .. n
    <3>1. from_aie'[p] = from_aie[p]
      BY <2>6, <2>14
    <3>2. i = Last(args, "from", c) =>
            (k <= MemRatio * stored'[c] <=> k <= MemRatio * stored[c])
      <4> SUFFICES ASSUME i = Last(args, "from", c)
                   PROVE  k <= MemRatio * stored'[c] <=> k <= MemRatio * stored[c]
        OBVIOUS
      <4>1. CASE c # c0
        BY <1>14, <2>1, <4>1
      <4>2. CASE c = c0
        <5>1. i # 0
          BY <2>1, ArgumentFacts
        <5>2. i = l /\ l # 0
          BY <2>12, <4>2, <5>1
        <5>3. (off + q) - base + 1 = q - stored[c0] + 1
          BY <2>11, <5>2
        <5>4. ~(q - stored[c0] + 1 \in 1 .. n)
          BY <2>14, <5>3
        <5>5. q < stored[c0] + n <=> q < stored[c0]
          BY <1>6, <1>11, <2>3, <5>4
        <5>6. stored'[c] = stored[c0] + n /\ stored[c] = stored[c0]
          BY <1>14, <4>2
        <5>7. stored[c0] + n \in Int /\ stored[c0] \in Int
          BY <1>6, <1>11
        <5> HIDE DEF c
        <5> QED BY <2>5, <5>5, <5>6, <5>7
      <4> QED BY <4>1, <4>2
    <3> HIDE DEF p, c, f
    <3> QED BY <2>7, <3>1, <3>2 DEF p, c, f
  <2> QED BY <2>13, <2>14
<1> QED BY <1>5, <1>16, <1>17, <1>20, <1>21 DEF MoverInv

-----------------------------------------------------------------------------
(* Performance mode.                                                       *)

(* Two numbers less than f apart do not share a place in a ring of f.      *)
LEMMA ApartInRing ==
  ASSUME NEW a \in Int, NEW b \in Int, NEW f \in Nat \ {0}, a < b, b < a + f
  PROVE  a % f # b % f
<1> DEFINE x == a \div f
           y == b \div f
           r == a % f
           s == b % f
<1>1. /\ x \in Int /\ r \in 0 .. f - 1 /\ a = f * x + r
      /\ y \in Int /\ s \in 0 .. f - 1 /\ b = f * y + s
  BY Division
<1> HIDE DEF x, y, r, s
<1> SUFFICES ASSUME r = s PROVE FALSE
  BY DEF r, s
<1>2. f * x \in Int /\ f * y \in Int /\ f * (x + 1) = f * x + f
  BY <1>1
<1>3. ~(x < y)
  <2> SUFFICES ASSUME x + 1 <= y PROVE FALSE
    BY <1>1
  <2>1. f * (x + 1) <= f * y
    BY <1>1, Multiple
  <2> QED BY <1>1, <1>2, <2>1
<1>4. ~(y <= x)
  <2> SUFFICES ASSUME y <= x PROVE FALSE
    OBVIOUS
  <2>1. f * y <= f * x
    BY <1>1, Multiple
  <2> QED BY <1>1, <1>2, <2>1
<1> QED BY <1>1, <1>3, <1>4

LEMMA Remainder ==
  ASSUME NEW n \in Int, NEW d \in Nat \ {0}
  PROVE  n % d \in 0 .. d - 1 /\ (n \in 0 .. d - 1 => n % d = n)
<1>1. n % d \in 0 .. d - 1
  BY Division
<1>2. ASSUME n \in 0 .. d - 1 PROVE n % d = n
  <2>1. PICK q \in Int : q = 0
    OBVIOUS
  <2>2. n = d * q + n /\ n \in 0 .. d - 1
    BY <1>2, <2>1
  <2> QED BY <2>2, DivisionUnique, SMTT(40)
<1> QED BY <1>1, <1>2

LEMMA OneChannelPerf ==
  ASSUME MoverInv, Running, UNCHANGED innerVars, UNCHANGED <<from_aie, loadValid, storeValid>>,
         inst.mode = "PERF", NEW c0 \in Channels,
         RepeatInv(c0)',
         \A c \in Channels \ {c0} :
           /\ loaded'[c] = loaded[c] /\ fed'[c] = fed[c]
           /\ gotten'[c] = gotten[c] /\ stored'[c] = stored[c]
           /\ toStrm'[c] = toStrm[c] /\ aie'[c] = aie[c] /\ fromStrm'[c] = fromStrm[c]
           /\ \A d \in Sides : buff'[d][c] = buff[d][c]
  PROVE  PerformanceInv' /\ FunctionalInv' /\ WindowInv' /\ PlacedInv'
<1>1. /\ kernel = "running" /\ inst' = inst
      /\ \A d \in Sides, c \in Channels :
           Frames(d, c)' = Frames(d, c) /\ Total(d, c)' = Total(d, c)
      /\ \A c \in Channels : Source(c)' = Source(c)
      /\ \A c \in Channels, k \in Int : Echo(c, k)' = Echo(c, k)
  BY Inside
<1>2. ASSUME NEW c \in Channels \ {c0}
      PROVE  RepeatInv(c)'
  <2>1. RepeatInv(c)
    BY <1>1 DEF MoverInv, PerformanceInv
  <2>2. /\ Frames("to", c)' = Frames("to", c) /\ Frames("from", c)' = Frames("from", c)
        /\ Total("to", c)' = Total("to", c) /\ Total("from", c)' = Total("from", c)
        /\ Source(c)' = Source(c)
        /\ \A k \in Int : Echo(c, k)' = Echo(c, k)
        /\ buff'["to"][c] = buff["to"][c] /\ buff'["from"][c] = buff["from"][c]
        /\ gotten[c] \in Nat /\ Len(aie[c]) \in Nat
    BY <1>1 DEF Sides, MoverInv, ShapeInv
  <2>3. \A j \in 1 .. Len(aie[c]) : gotten[c] + j \in Int
    BY <2>2
  <2>4. /\ loaded'[c] = loaded[c] /\ fed'[c] = fed[c]
        /\ gotten'[c] = gotten[c] /\ stored'[c] = stored[c]
        /\ toStrm'[c] = toStrm[c] /\ aie'[c] = aie[c] /\ fromStrm'[c] = fromStrm[c]
    OBVIOUS
  <2> QED BY <2>1, <2>2, <2>3, <2>4 DEF RepeatInv
<1>3. PerformanceInv'
  <2>1. loadValid' = 0 /\ storeValid' = 0
    BY <1>1 DEF MoverInv, PerformanceInv
  <2> QED BY <1>2, <2>1 DEF PerformanceInv
<1>4. FunctionalInv' /\ WindowInv' /\ PlacedInv'
  BY <1>1 DEF FunctionalInv, WindowInv, PlacedInv
<1> QED BY <1>3, <1>4

LEMMA FeedPerfStep ==
  ASSUME MoverInv, NEW c0 \in Channels, FeedPerf(c0)
  PROVE  MoverInv'
<1> USE DEF innerVars, callVars, bufferVars, layoutVars, outputVars, storeVars, loadVars
<1> DEFINE F == Frames("to", c0)
           idx == fed[c0] % F
           beat == IF idx < Depth THEN buff["to"][c0][idx] ELSE Noise
<1>1. /\ Running /\ inst.mode = "PERF" /\ fed[c0] < Total("to", c0)
      /\ aie' = [aie EXCEPT ![c0] = Append(@, beat)]
      /\ fed' = [fed EXCEPT ![c0] = @ + 1]
      /\ UNCHANGED innerVars
      /\ UNCHANGED <<from_aie, buff, loadRegs, loadValid, loaded, storeRegs, storeValid, stored,
                     toStrm, gotten, fromStrm>>
  BY DEF FeedPerf, feedUnchanged
<1>2. ShapeInv /\ CallInv
  BY DEF MoverInv
<1>3. /\ CallInv' /\ IdleInv' /\ EndInv' /\ ReturnInv' /\ kernel = "running"
      /\ inst' = inst /\ args' = args /\ Beat' = Beat /\ MemoryWord' = MemoryWord
      /\ \A d \in Sides, c \in Channels :
           /\ Frames(d, c)' = Frames(d, c) /\ Frames(d, c) \in Nat
           /\ Total(d, c)' = Total(d, c) /\ Total(d, c) \in Nat
      /\ \A c \in Channels : Source(c)' = Source(c)
      /\ \A c \in Channels, k \in Int : Echo(c, k)' = Echo(c, k)
  BY <1>1, Inside
<1>4. /\ "to" \in Sides /\ "from" \in Sides /\ Depth \in Nat \ {0}
      /\ aie \in [Channels -> Seq(Beat)] /\ aie[c0] \in Seq(Beat) /\ Len(aie[c0]) \in Nat
      /\ fed \in [Channels -> Nat] /\ fed[c0] \in Nat /\ gotten[c0] \in Nat
      /\ \A x \in 0 .. Depth - 1 : buff["to"][c0][x] \in Beat
  <2>1. "to" \in Sides /\ "from" \in Sides /\ Depth \in Nat \ {0}
    BY DepthAssumption DEF Sides
  <2>2. /\ aie \in [Channels -> Seq(Beat)] /\ fed \in [Channels -> Nat]
        /\ gotten \in [Channels -> Nat]
        /\ buff \in [Sides -> [Channels -> [0 .. Depth - 1 -> Beat]]]
    BY <1>2 DEF ShapeInv
  <2> QED BY <2>1, <2>2
<1>5. RepeatInv(c0)
  BY <1>1, <1>3 DEF MoverInv, PerformanceInv
<1>6. F \in Nat \ {0} /\ inst.numRep["to"][c0] \in Nat
  <2>1. F \in Nat /\ inst.numRep["to"][c0] \in Nat
    BY <1>2, <1>3, <1>4, RowFacts
  <2>2. F = 0 => Total("to", c0) = 0
    <3>1. Total("to", c0) = inst.numRep["to"][c0] * F
      BY <1>1 DEF Total
    <3> HIDE DEF F
    <3> QED BY <2>1, <3>1
  <2> QED BY <1>1, <1>3, <1>4, <2>1, <2>2
<1> HIDE DEF F
<1>7. idx \in 0 .. F - 1
  <2> DEFINE x == fed[c0]
  <2>1. x \in Int
    BY <1>4
  <2> HIDE DEF x
  <2>2. x % F \in 0 .. F - 1
    BY <1>6, <2>1, Remainder
  <2> QED BY <2>2 DEF x
<1> HIDE DEF idx
<1>8. beat \in Beat
  <2>1. Noise \in Beat
    BY ThreeBeats DEF Beat
  <2>2. idx < Depth => idx \in 0 .. Depth - 1
    BY <1>4, <1>6, <1>7
  <2> QED BY <1>4, <2>1, <2>2
<1>9. F <= Depth => beat = Echo(c0, fed[c0] + 1)
  <2> SUFFICES ASSUME F <= Depth PROVE beat = Echo(c0, fed[c0] + 1)
    OBVIOUS
  <2>1. beat = <<Source(c0), idx + 1>>
    <3>1. idx < Depth
      BY <1>4, <1>6, <1>7
    <3> QED BY <1>5, <1>7, <3>1 DEF RepeatInv, F
  <2>2. Last(args, "to", c0) # 0
    BY <1>2, <1>3, <1>4, <1>6, RowFacts DEF F
  <2>3. args[Last(args, "to", c0)].beats = F
    BY <1>2, <1>3, <1>4, <2>2, RowFacts DEF F
  <2>4. (fed[c0] + 1) - 1 = fed[c0]
    BY <1>4
  <2>5. Echo(c0, fed[c0] + 1) = <<Source(c0), idx + 1>>
    BY <2>3, <2>4 DEF Echo, Source, idx
  <2> QED BY <2>1, <2>5
<1> HIDE DEF beat
<1>10. /\ aie'[c0] = Append(aie[c0], beat) /\ fed'[c0] = fed[c0] + 1
       /\ \A c \in Channels \ {c0} : aie'[c] = aie[c] /\ fed'[c] = fed[c]
  BY <1>1, <1>4
<1>11. /\ Append(aie[c0], beat) \in Seq(Beat)
       /\ Len(Append(aie[c0], beat)) = Len(aie[c0]) + 1
       /\ \A j \in 1 .. Len(aie[c0]) : Append(aie[c0], beat)[j] = aie[c0][j]
       /\ Append(aie[c0], beat)[Len(aie[c0]) + 1] = beat
  <2> DEFINE s == aie[c0]
             S == Beat
  <2>1. s \in Seq(S) /\ beat \in S
    BY <1>4, <1>8
  <2> HIDE DEF s, S
  <2>2. /\ Append(s, beat) \in Seq(S) /\ Len(Append(s, beat)) = Len(s) + 1
        /\ \A j \in 1 .. Len(s) : Append(s, beat)[j] = s[j]
        /\ Append(s, beat)[Len(s) + 1] = beat
    BY <2>1, AppendFacts
  <2> QED BY <2>2, Zenon DEF s, S
<1>12. ShapeInv'
  <2>1. /\ aie' = [aie EXCEPT ![c0] = Append(aie[c0], beat)]
        /\ fed' = [fed EXCEPT ![c0] = fed[c0] + 1] /\ fed[c0] + 1 \in Nat
    BY <1>1, <1>4
  <2>2. aie' \in [Channels -> Seq(Beat)] /\ fed' \in [Channels -> Nat]
    BY <1>4, <1>11, <2>1
  <2>3. stalled' = stalled
    BY <1>1
  <2> QED BY <1>1, <1>2, <1>3, <2>2, <2>3 DEF ShapeInv
<1>13. RepeatInv(c0)'
  <2>1. /\ fed[c0] < Total("to", c0) /\ gotten[c0] <= fed[c0] /\ Len(aie[c0]) = fed[c0] - gotten[c0]
        /\ fed[c0] \in Nat /\ gotten[c0] \in Nat /\ Total("to", c0) \in Nat
        /\ fed'[c0] = fed[c0] + 1 /\ gotten' = gotten /\ Len(aie'[c0]) = Len(aie[c0]) + 1
    BY <1>1, <1>3, <1>4, <1>5, <1>10, <1>11 DEF RepeatInv
  <2>2. /\ fed'[c0] <= Total("to", c0) /\ gotten'[c0] <= fed'[c0]
        /\ Len(aie'[c0]) = fed'[c0] - gotten'[c0]
    BY <2>1
  <2>3. ASSUME F <= Depth, NEW j \in 1 .. Len(aie'[c0])
        PROVE  aie'[c0][j] = Echo(c0, gotten[c0] + j)
    <3>1. CASE j \in 1 .. Len(aie[c0])
      BY <1>5, <1>10, <1>11, <2>3, <3>1 DEF RepeatInv, F
    <3>2. CASE j \notin 1 .. Len(aie[c0])
      <4> DEFINE m == Len(aie[c0])
      <4>1. m \in Nat /\ m = fed[c0] - gotten[c0] /\ j \in 1 .. m + 1 /\ j \notin 1 .. m
        BY <1>4, <2>1, <3>2
      <4> HIDE DEF m
      <4>2. j = m + 1 /\ gotten[c0] + j = fed[c0] + 1
        BY <2>1, <4>1
      <4> QED BY <1>9, <1>10, <1>11, <2>3, <4>2 DEF m
    <3> QED BY <3>1, <3>2
  <2>4. \A j \in 1 .. Len(aie'[c0]) : gotten[c0] + j \in Int
    BY <2>1
  <2>5. /\ Frames("to", c0)' = F /\ Frames("from", c0)' = Frames("from", c0)
        /\ Total("to", c0)' = Total("to", c0) /\ Total("from", c0)' = Total("from", c0)
        /\ Source(c0)' = Source(c0)
        /\ \A k \in Int : Echo(c0, k)' = Echo(c0, k)
    BY <1>3, <1>4 DEF F
  <2>6. UNCHANGED <<buff, loaded, stored, toStrm, fromStrm, gotten>>
    BY <1>1
  <2>7. ASSUME F <= Depth, NEW j \in 1 .. Len(aie'[c0])
        PROVE  aie'[c0][j] = Echo(c0, gotten[c0] + j)'
    BY <2>3, <2>4, <2>5, <2>6, <2>7
  <2> QED BY <1>5, <2>2, <2>5, <2>6, <2>7 DEF RepeatInv, F
<1>14. PerformanceInv' /\ FunctionalInv' /\ WindowInv' /\ PlacedInv'
  BY <1>1, <1>10, <1>13, OneChannelPerf
<1> QED BY <1>3, <1>12, <1>14 DEF MoverInv

LEMMA GetPerfStep ==
  ASSUME MoverInv, NEW c0 \in Channels, GetPerf(c0)
  PROVE  MoverInv'
<1> USE DEF innerVars, callVars, bufferVars, layoutVars, outputVars, storeVars, loadVars
<1> DEFINE F == Frames("to", c0)
           G == Frames("from", c0)
           idx == gotten[c0] % G
           place == idx % Depth
           s == aie[c0]
<1>1. /\ Running /\ inst.mode = "PERF" /\ gotten[c0] < Total("from", c0) /\ s # <<>>
      /\ buff' = [buff EXCEPT !["from"][c0][place] = Head(s)]
      /\ aie' = [aie EXCEPT ![c0] = Tail(@)]
      /\ gotten' = [gotten EXCEPT ![c0] = @ + 1]
      /\ UNCHANGED innerVars
      /\ UNCHANGED <<from_aie, loadRegs, loadValid, loaded, storeRegs, storeValid, stored,
                     toStrm, fed, fromStrm>>
  BY DEF GetPerf, getUnchanged
<1>2. ShapeInv /\ CallInv
  BY DEF MoverInv
<1>3. /\ CallInv' /\ IdleInv' /\ EndInv' /\ ReturnInv' /\ kernel = "running"
      /\ inst' = inst /\ args' = args /\ Beat' = Beat /\ MemoryWord' = MemoryWord
      /\ \A d \in Sides, c \in Channels :
           /\ Frames(d, c)' = Frames(d, c) /\ Frames(d, c) \in Nat
           /\ Total(d, c)' = Total(d, c) /\ Total(d, c) \in Nat
      /\ \A c \in Channels : Source(c)' = Source(c)
      /\ \A c \in Channels, k \in Int : Echo(c, k)' = Echo(c, k)
  BY <1>1, Inside
<1>4. /\ "to" \in Sides /\ "from" \in Sides /\ Depth \in Nat \ {0} /\ "to" # "from"
      /\ aie \in [Channels -> Seq(Beat)] /\ s \in Seq(Beat) /\ Len(s) \in Nat
      /\ gotten \in [Channels -> Nat] /\ gotten[c0] \in Nat /\ fed[c0] \in Nat
      /\ buff \in [Sides -> [Channels -> [0 .. Depth - 1 -> Beat]]]
  <2>1. "to" \in Sides /\ "from" \in Sides /\ Depth \in Nat \ {0} /\ "to" # "from"
    BY DepthAssumption DEF Sides
  <2>2. /\ aie \in [Channels -> Seq(Beat)] /\ fed \in [Channels -> Nat]
        /\ gotten \in [Channels -> Nat]
        /\ buff \in [Sides -> [Channels -> [0 .. Depth - 1 -> Beat]]]
    BY <1>2 DEF ShapeInv
  <2>3. s \in Seq(Beat)
    BY <2>2
  <2> HIDE DEF s
  <2> QED BY <2>1, <2>2, <2>3
<1>5. RepeatInv(c0)
  BY <1>1, <1>3 DEF MoverInv, PerformanceInv
<1>6. G \in Nat \ {0} /\ F \in Nat
  <2>1. G \in Nat /\ inst.numRep["from"][c0] \in Nat /\ F \in Nat
    BY <1>2, <1>3, <1>4, RowFacts
  <2>2. G = 0 => Total("from", c0) = 0
    <3>1. Total("from", c0) = inst.numRep["from"][c0] * G
      BY <1>1 DEF Total
    <3> HIDE DEF G
    <3> QED BY <2>1, <3>1
  <2> QED BY <1>1, <1>3, <1>4, <2>1, <2>2
<1> HIDE DEF F, G
<1>7. idx \in 0 .. G - 1
  <2> DEFINE x == gotten[c0]
  <2>1. x \in Int
    BY <1>4
  <2> HIDE DEF x
  <2>2. x % G \in 0 .. G - 1
    BY <1>6, <2>1, Remainder
  <2> QED BY <2>2 DEF x
<1>8. place \in 0 .. Depth - 1 /\ (G <= Depth => place = idx)
  <2> HIDE DEF idx
  <2>1. idx \in Int /\ (G <= Depth => idx \in 0 .. Depth - 1)
    BY <1>4, <1>6, <1>7
  <2> QED BY <1>4, <2>1, Remainder
<1> HIDE DEF place
<1>9. /\ Head(s) = s[1] /\ Head(s) \in Beat /\ Tail(s) \in Seq(Beat) /\ Len(Tail(s)) = Len(s) - 1
      /\ Len(s) \in Nat \ {0}
      /\ \A j \in 1 .. Len(s) - 1 : Tail(s)[j] = s[j + 1]
  <2> DEFINE S == Beat
             t == s
  <2>1. t \in Seq(S) /\ t # <<>>
    BY <1>1, <1>4
  <2> HIDE DEF S, t
  <2>2. /\ Head(t) = t[1] /\ Head(t) \in S /\ Tail(t) \in Seq(S) /\ Len(Tail(t)) = Len(t) - 1
        /\ Len(t) \in Nat \ {0}
        /\ \A j \in 1 .. Len(t) - 1 : Tail(t)[j] = t[j + 1]
    BY <2>1, HeadTail
  <2> QED BY <2>2, Zenon DEF S, t
<1>10. /\ aie'[c0] = Tail(s) /\ gotten'[c0] = gotten[c0] + 1
       /\ \A c \in Channels \ {c0} : aie'[c] = aie[c] /\ gotten'[c] = gotten[c]
  BY <1>1, <1>4
<1> DEFINE e == Head(s)
<1> HIDE DEF s, e
<1>11. /\ buff'["to"] = buff["to"]
       /\ buff'["from"] = [buff["from"] EXCEPT ![c0][place] = e]
  BY <1>1, <1>4 DEF e
<1>12. /\ \A d \in Sides, c \in Channels \ {c0} : buff'[d][c] = buff[d][c]
       /\ buff'["from"][c0][place] = e
       /\ \A x \in 0 .. Depth - 1 : x # place => buff'["from"][c0][x] = buff["from"][c0][x]
       /\ buff' \in [Sides -> [Channels -> [0 .. Depth - 1 -> Beat]]]
  <2> DEFINE R == 0 .. Depth - 1
             B == Beat
             g == buff["from"]
  <2>1. g \in [Channels -> [R -> B]] /\ place \in R /\ e \in B
    BY <1>4, <1>8, <1>9 DEF e
  <2>2. buff'["from"] = [g EXCEPT ![c0][place] = e]
    BY <1>11
  <2>3. buff \in [Sides -> [Channels -> [R -> B]]]
    BY <1>4
  <2>4. buff' = [buff EXCEPT !["from"] = [g EXCEPT ![c0][place] = e]]
    BY <1>1, <1>4 DEF e
  <2> HIDE DEF R, B, g
  <2> DEFINE h == [g EXCEPT ![c0][place] = e]
  <2>5. /\ h \in [Channels -> [R -> B]]
        /\ \A c \in Channels \ {c0} : h[c] = g[c]
        /\ h[c0][place] = e
        /\ \A x \in R : x # place => h[c0][x] = g[c0][x]
    BY <2>1
  <2> HIDE DEF h
  <2>6. buff' \in [Sides -> [Channels -> [R -> B]]]
    BY <2>3, <2>4, <2>5 DEF h
  <2>7. buff'["from"] = h
    BY <2>2 DEF h
  <2>8. \A d \in Sides, c \in Channels \ {c0} : buff'[d][c] = buff[d][c]
    BY <1>11, <2>5, <2>7 DEF Sides, g
  <2> QED BY <2>5, <2>6, <2>7, <2>8 DEF R, B, g
<1>13. ShapeInv'
  <2>1. /\ aie' = [aie EXCEPT ![c0] = Tail(s)]
        /\ gotten' = [gotten EXCEPT ![c0] = gotten[c0] + 1] /\ gotten[c0] + 1 \in Nat
    BY <1>1, <1>4 DEF s
  <2>2. aie' \in [Channels -> Seq(Beat)] /\ gotten' \in [Channels -> Nat]
    BY <1>4, <1>9, <2>1
  <2>3. stalled' = stalled
    BY <1>1
  <2> QED BY <1>1, <1>2, <1>3, <1>12, <2>2, <2>3 DEF ShapeInv
<1>14. RepeatInv(c0)'
  <2>1. /\ gotten[c0] < Total("from", c0) /\ gotten[c0] <= fed[c0] /\ Len(s) = fed[c0] - gotten[c0]
        /\ fed[c0] \in Nat /\ gotten[c0] \in Nat /\ Total("from", c0) \in Nat
        /\ fed' = fed /\ gotten'[c0] = gotten[c0] + 1 /\ Len(aie'[c0]) = Len(s) - 1
        /\ Len(s) \in Nat \ {0}
    BY <1>1, <1>3, <1>4, <1>5, <1>9, <1>10 DEF RepeatInv, s
  <2>2. /\ gotten'[c0] <= Total("from", c0) /\ gotten'[c0] <= fed'[c0]
        /\ Len(aie'[c0]) = fed'[c0] - gotten'[c0] /\ Len(aie'[c0]) \in Nat
    <3> DEFINE l == Len(s)
               f == fed[c0]
               g == gotten[c0]
               T == Total("from", c0)
    <3>1. /\ g < T /\ g <= f /\ l = f - g /\ f \in Nat /\ g \in Nat /\ T \in Nat
          /\ l \in Nat \ {0}
      BY <2>1
    <3>2. fed'[c0] = f /\ gotten'[c0] = g + 1 /\ Len(aie'[c0]) = l - 1
      BY <2>1
    <3> HIDE DEF l, f, g, T
    <3>3. g + 1 <= T /\ g + 1 <= f /\ l - 1 = f - (g + 1) /\ l - 1 \in Nat
      BY <3>1
    <3> QED BY <3>2, <3>3 DEF T
  <2>3. ASSUME F <= Depth, NEW j \in 1 .. Len(aie'[c0])
        PROVE  aie'[c0][j] = Echo(c0, gotten'[c0] + j)
    <3>1. j \in 1 .. Len(s) - 1 /\ j + 1 \in 1 .. Len(s)
          /\ gotten[c0] + (j + 1) = gotten'[c0] + j
      BY <2>1
    <3>2. Tail(s)[j] = s[j + 1]
      BY <1>9, <3>1
    <3>3. s[j + 1] = Echo(c0, gotten[c0] + (j + 1))
      BY <1>5, <2>3, <3>1 DEF RepeatInv, F, s
    <3> QED BY <1>10, <3>1, <3>2, <3>3
  <2>4. F <= Depth => e = Echo(c0, gotten[c0] + 1)
    <3>1. 1 \in 1 .. Len(s)
      BY <1>9
    <3> QED BY <1>5, <1>9, <3>1 DEF RepeatInv, F, s, e
  <2>5. ASSUME F <= Depth, G <= Depth, NEW k \in 1 .. gotten'[c0], gotten'[c0] - k < G
        PROVE  buff'["from"][c0][(k - 1) % G] = Echo(c0, k)
    <3>1. CASE k = gotten[c0] + 1
      <4>1. k - 1 = gotten[c0]
        BY <2>1, <3>1
      <4>2. (k - 1) % G = place
        BY <1>8, <2>5, <4>1 DEF idx
      <4> QED BY <1>12, <2>4, <2>5, <3>1, <4>2
    <3>2. CASE k # gotten[c0] + 1
      <4>1. k \in 1 .. gotten[c0] /\ gotten[c0] - k < G /\ k - 1 \in Int
            /\ k - 1 < gotten[c0] /\ gotten[c0] < (k - 1) + G
        <5> DEFINE g == gotten[c0]
        <5>1. g \in Nat /\ gotten'[c0] = g + 1
          BY <2>1
        <5>2. k \in 1 .. g + 1 /\ g + 1 - k < G /\ k # g + 1 /\ G \in Nat
          BY <1>6, <2>5, <3>2, <5>1
        <5> HIDE DEF g
        <5>3. k \in 1 .. g /\ g - k < G /\ k - 1 \in Int /\ k - 1 < g /\ g < (k - 1) + G
          BY <5>1, <5>2
        <5> QED BY <5>3 DEF g
      <4>2. (k - 1) % G # idx /\ (k - 1) % G \in 0 .. G - 1
        <5> DEFINE a == k - 1
                   b == gotten[c0]
        <5>1. a \in Int /\ b \in Int /\ a < b /\ b < a + G
          BY <2>1, <4>1
        <5> HIDE DEF a, b
        <5>2. a % G # b % G /\ a % G \in 0 .. G - 1
          BY <1>6, <5>1, ApartInRing, Remainder
        <5> QED BY <5>2 DEF a, b, idx
      <4>3. (k - 1) % G # place /\ (k - 1) % G \in 0 .. Depth - 1
        <5> HIDE DEF idx
        <5> DEFINE z == (k - 1) % G
        <5>1. z # idx /\ z \in 0 .. G - 1 /\ place = idx
          BY <1>8, <2>5, <4>2
        <5> HIDE DEF z
        <5>2. z # place /\ z \in 0 .. Depth - 1
          BY <1>4, <1>6, <2>5, <5>1
        <5> QED BY <5>2 DEF z
      <4>4. buff["from"][c0][(k - 1) % G] = Echo(c0, k)
        BY <1>5, <2>5, <4>1 DEF RepeatInv, F, G
      <4> QED BY <1>12, <4>3, <4>4
    <3> QED BY <3>1, <3>2
  <2>6. /\ Frames("to", c0)' = F /\ Frames("from", c0)' = G
        /\ Total("to", c0)' = Total("to", c0) /\ Total("from", c0)' = Total("from", c0)
        /\ Source(c0)' = Source(c0)
        /\ \A k \in Int : Echo(c0, k)' = Echo(c0, k)
    BY <1>3, <1>4 DEF F, G
  <2>7. UNCHANGED <<loaded, stored, toStrm, fromStrm, fed>>
    BY <1>1
  <2>8. ASSUME F <= Depth, NEW j \in 1 .. Len(aie'[c0])
        PROVE  aie'[c0][j] = Echo(c0, gotten[c0] + j)'
    <3>1. gotten'[c0] + j \in Int
      BY <2>1, <2>2
    <3> QED BY <2>3, <2>6, <2>8, <3>1
  <2>9. ASSUME F <= Depth, G <= Depth, NEW k \in 1 .. gotten'[c0], gotten'[c0] - k < G
        PROVE  buff'["from"][c0][(k - 1) % G] = Echo(c0, k)'
    BY <2>5, <2>6, <2>9
  <2>10. \A x \in 0 .. F - 1 : buff'["to"][c0][x] = buff["to"][c0][x]
    BY <1>11
  <2>11. /\ toStrm'[c0] = <<>> /\ fromStrm'[c0] = <<>> /\ loaded'[c0] = 0 /\ stored'[c0] = 0
         /\ fed'[c0] <= Total("to", c0)'
         /\ F <= Depth => \A x \in 0 .. F - 1 : buff'["to"][c0][x] = <<Source(c0), x + 1>>
    BY <1>5, <2>6, <2>7, <2>10 DEF RepeatInv, F
  <2> QED BY <2>2, <2>6, <2>8, <2>9, <2>11 DEF RepeatInv
<1>15. PerformanceInv' /\ FunctionalInv' /\ WindowInv' /\ PlacedInv'
  BY <1>1, <1>10, <1>12, <1>14, OneChannelPerf
<1> QED BY <1>3, <1>13, <1>15 DEF MoverInv

-----------------------------------------------------------------------------
(* The end of the kernel.                                                  *)

(* A beat of a word that store_buff packs.                                 *)
LEMMA PackedBeat ==
  ASSUME NEW c \in Channels, NEW G \in Nat, Min({Frames("from", c), Depth}) = G, G <= Depth,
         NEW y \in 0 .. MemRatio * Words(G) - 1
  PROVE  BuffWord(c, (y \div MemRatio) + 1)[(y % MemRatio) + 1] =
           IF y < G THEN buff["from"][c][y] ELSE Blank
<1> DEFINE q == y \div MemRatio
           r == y % MemRatio
           n == FramesIn(G, q + 1)
           beats == [b \in 1 .. n |-> buff["from"][c][((q + 1) - 1) * MemRatio + b - 1]]
<1>1. MemRatio \in Nat \ {0} /\ Words(G) \in Nat /\ MemRatio * Words(G) \in Nat
  BY DepthAssumption, WordsFacts
<1>2. q \in Int /\ r \in 0 .. MemRatio - 1 /\ y = MemRatio * q + r /\ y \in Nat
      /\ y < MemRatio * Words(G)
  <2>1. y \in Int /\ y \in Nat /\ y < MemRatio * Words(G)
    BY <1>1
  <2> QED BY <1>1, <2>1, Division
<1>3. BuffWord(c, q + 1) = Padded(beats)
  BY DEF BuffWord
<1> HIDE DEF q, r
<1>4. q \in Nat /\ q < Words(G) /\ y + 1 <= MemRatio * (q + 1) /\ q + 1 \in Nat
  <2>1. (y + 1) - 1 = MemRatio * q + r /\ y + 1 \in Int
    BY <1>2
  <2>2. \A s \in Int : y + 1 <= MemRatio * s <=> q < s
    BY <1>2, <2>1, WithinWords
  <2>3. MemRatio * 0 = 0 /\ ~(y + 1 <= 0)
    BY <1>1, <1>2
  <2>4. ~(q < 0)
    BY <2>2, <2>3
  <2>5. y + 1 <= MemRatio * Words(G)
    BY <1>1, <1>2
  <2>6. q < Words(G)
    BY <1>1, <2>2, <2>5
  <2>7. q < q + 1 /\ q + 1 \in Int
    BY <1>2
  <2> QED BY <1>2, <2>2, <2>4, <2>6, <2>7
<1>5. /\ n \in 1 .. MemRatio /\ MemRatio * q \in Nat
      /\ BeatsIn(G, q + 1) = MemRatio * q + n /\ BeatsIn(G, q + 1) <= G
      /\ n # MemRatio => BeatsIn(G, q + 1) = G
  <2>1. q <= Words(G) /\ q + 1 <= Words(G)
    BY <1>1, <1>4
  <2>2. /\ BeatsIn(G, q) = MemRatio * q /\ FramesIn(G, q + 1) \in 1 .. MemRatio
        /\ BeatsIn(G, q + 1) = BeatsIn(G, q) + FramesIn(G, q + 1)
        /\ BeatsIn(G, q + 1) <= G
        /\ q + 1 = Words(G) => BeatsIn(G, q + 1) = G
        /\ q + 1 < Words(G) => BeatsIn(G, q + 1) = MemRatio * (q + 1)
    BY <1>4, <2>1, BeatsInFacts
  <2>3. MemRatio * q \in Nat /\ MemRatio * (q + 1) = MemRatio * q + MemRatio
    BY <1>1, <1>4
  <2>4. q + 1 < Words(G) => n = MemRatio
    BY <1>1, <2>2, <2>3
  <2> QED BY <1>1, <1>4, <2>1, <2>2, <2>3, <2>4
<1> HIDE DEF n
<1>6. Len(beats) = n
  <2>1. n \in Nat
    BY <1>1, <1>5
  <2> QED BY <2>1
<1>7. r + 1 \in 1 .. MemRatio /\ (r + 1 <= n <=> y < G)
  <2> DEFINE Q == MemRatio * q
             B == BeatsIn(G, q + 1)
  <2>1. /\ Q \in Nat /\ y = Q + r /\ r \in 0 .. MemRatio - 1 /\ n \in 1 .. MemRatio
        /\ B = Q + n /\ B <= G /\ (n # MemRatio => B = G)
    BY <1>2, <1>5
  <2> HIDE DEF Q, B
  <2> QED BY <1>1, <2>1
<1>8. Padded(beats)[r + 1] = IF r + 1 <= n THEN beats[r + 1] ELSE Blank
  <2> HIDE DEF beats
  <2> QED BY <1>6, <1>7 DEF Padded
<1>9. r + 1 <= n => beats[r + 1] = buff["from"][c][y]
  <2> SUFFICES ASSUME r + 1 <= n PROVE beats[r + 1] = buff["from"][c][y]
    OBVIOUS
  <2>1. r + 1 \in 1 .. n
    BY <1>1, <1>2, <1>5
  <2>2. ((q + 1) - 1) * MemRatio + (r + 1) - 1 = y
    <3>1. (q + 1) - 1 = q
      BY <1>2
    <3>2. q * MemRatio = MemRatio * q
      BY <1>1, <1>2
    <3> DEFINE Q == MemRatio * q
    <3>3. Q \in Nat /\ y = Q + r /\ r \in Int
      BY <1>1, <1>2, <1>5
    <3> HIDE DEF Q
    <3>4. Q + (r + 1) - 1 = y
      BY <3>3
    <3> QED BY <3>1, <3>2, <3>4 DEF Q
  <2> QED BY <2>1, <2>2
<1> HIDE DEF beats
<1>10. BuffWord(c, q + 1)[r + 1] = IF y < G THEN buff["from"][c][y] ELSE Blank
  BY <1>3, <1>7, <1>8, <1>9
<1> QED BY <1>10 DEF q, r

(* Each channel's buffer is written back to the channel's own place.       *)
LEMMA StoredBack ==
  ASSUME CallInv, Held, kernel # "idle", mode = "PERF", NEW p \in DOMAIN from_aie
  PROVE  \/ /\ StoreBuffs[p] = from_aie[p]
            /\ \A c \in Channels : ~(/\ MemRatio * inst.offsets["from"][c] < p
                                     /\ p <= MemRatio * inst.offsets["from"][c]
                                           + MemRatio * Words(Min({Frames("from", c), Depth})))
         \/ \E c \in Channels :
              LET G == Min({Frames("from", c), Depth})
                  y == p - MemRatio * inst.offsets["from"][c] - 1
              IN /\ y \in 0 .. MemRatio * Words(G) - 1
                 /\ StoreBuffs[p] = BuffWord(c, (y \div MemRatio) + 1)[(y % MemRatio) + 1]
                 /\ Last(args, "from", c) # 0
                 /\ \A d \in Channels :
                      (/\ MemRatio * inst.offsets["from"][d] < p
                       /\ p <= MemRatio * inst.offsets["from"][d]
                             + MemRatio * Words(Min({Frames("from", d), Depth}))) => d = c
<1> DEFINE Place(c) == MemRatio * inst.offsets["from"][c]
           Size(c) == Min({Frames("from", c), Depth})
           writers == {c \in Channels : Place(c) < p /\ p <= Place(c) + MemRatio * Words(Size(c))}
           x == p - Place(Max(writers)) - 1
<1>1. /\ "from" \in Sides /\ Depth \in Nat \ {0} /\ MemRatio \in Nat \ {0} /\ p \in Int
      /\ inst.mode = "PERF" /\ args \in Seq(Argument)
  BY DepthAssumption, RowFacts DEF Sides, CallInv, Rows
<1>2. ASSUME NEW c \in writers
      PROVE  /\ Last(args, "from", c) # 0 /\ c \in Nat
             /\ Place(c) = Depth * c /\ Depth * c < p /\ p <= Depth * c + Depth
             /\ Place(c) \in Nat
             /\ MemRatio * Words(Size(c)) \in Nat
  <2> DEFINE f == Frames("from", c)
             l == Last(args, "from", c)
  <2>1. f \in Nat /\ c \in Channels /\ c \in Nat
    BY <1>1, RowFacts DEF Channels
  <2>2. Size(c) = IF f <= Depth THEN f ELSE Depth
    BY <1>1, <2>1, MinOfTwo
  <2>3. Size(c) \in Nat /\ Size(c) <= Depth /\ (f = 0 => Size(c) = 0)
    <3> HIDE DEF f
    <3> QED BY <1>1, <2>1, <2>2
  <2>4. /\ MemRatio * Words(Size(c)) \in Nat
        /\ Words(Size(c)) \in Nat
        /\ Size(c) = 0 => Words(Size(c)) = 0
        /\ \A g \in Nat : Size(c) <= MemRatio * g => Words(Size(c)) <= g
    <3> HIDE DEF Size
    <3> QED BY <2>3, WordsFacts
  <2>5. Place(c) < p /\ p <= Place(c) + MemRatio * Words(Size(c))
    OBVIOUS
  <2>6. l # 0
    <3> SUFFICES ASSUME l = 0 PROVE FALSE
      OBVIOUS
    <3>1. Words(Size(c)) = 0
      BY <1>1, <2>3, <2>4, RowFacts
    <3>2. inst.offsets["from"][c] = 0
      <4>1. inst = Rows(mode, args)
        BY DEF CallInv
      <4>2. inst.offsets["from"][c] = Entry(mode, args, "from", 3, c)
        BY <1>1, <2>1, <4>1 DEF Rows
      <4> QED BY <1>1, <4>2, EntryFacts
    <3>3. MemRatio * 0 = 0
      BY <1>1
    <3>4. Place(c) = 0 /\ MemRatio * Words(Size(c)) = 0
      BY <3>1, <3>2, <3>3
    <3> HIDE DEF Place, Size, writers
    <3> QED BY <1>1, <2>5, <3>4
  <2>7. /\ l \in DOMAIN args /\ args[l].chn = c /\ inst.offsets["from"][c] = Offset("PERF", args, l)
    BY <1>1, <2>1, <2>6, RowFacts
  <2>8. Place(c) = Depth * c
    BY <1>1, <2>7, PerfOffset
  <2>9. MemRatio * Words(Size(c)) <= Depth
    <3> DEFINE q == Depth \div MemRatio
               w == Words(Size(c))
    <3>1. q \in Int /\ Depth = MemRatio * q + (Depth % MemRatio) /\ Depth % MemRatio = 0
      BY <1>1, Division, DepthAssumption
    <3>2. q \in Nat /\ Depth = MemRatio * q
      <4> HIDE DEF q
      <4>1. MemRatio * q \in Int
        BY <1>1, <3>1
      <4>2. Depth = MemRatio * q
        BY <1>1, <3>1, <4>1
      <4>3. q \in Nat
        <5> SUFFICES ASSUME q + 1 <= 0 PROVE FALSE
          BY <3>1
        <5>1. MemRatio * (q + 1) <= MemRatio * 0 /\ MemRatio * (q + 1) = MemRatio * q + MemRatio
              /\ MemRatio * 0 = 0
          BY <1>1, <3>1, Multiple
        <5> QED BY <1>1, <4>1, <4>2, <5>1
      <4> QED BY <4>2, <4>3
    <3> HIDE DEF q
    <3>3. w <= q /\ w \in Nat
      BY <2>3, <2>4, <3>2
    <3> HIDE DEF w
    <3>4. MemRatio * w <= MemRatio * q
      BY <1>1, <3>2, <3>3, Multiple
    <3> QED BY <3>2, <3>4 DEF w
  <2>10. Depth * c \in Nat
    BY <1>1, <2>1, MultipleNat
  <2>11. Depth * c < p /\ p <= Depth * c + Depth
    <3> DEFINE A == Depth * c
               W == MemRatio * Words(Size(c))
    <3>1. A \in Nat /\ W \in Nat /\ W <= Depth /\ A < p /\ p <= A + W
      BY <2>4, <2>5, <2>8, <2>9, <2>10
    <3> HIDE DEF A, W, Place, Size, writers
    <3>2. A < p /\ p <= A + Depth
      BY <1>1, <3>1
    <3> QED BY <3>2 DEF A
  <2> QED BY <2>1, <2>4, <2>6, <2>8, <2>10, <2>11
<1>3. StoreBuffs[p] = IF writers = {} THEN from_aie[p]
                      ELSE BuffWord(Max(writers), x \div MemRatio + 1)[(x % MemRatio) + 1]
  BY <1>1 DEF StoreBuffs
<1>4. ASSUME NEW c \in writers PROVE \A d \in writers : d = c
  <2> SUFFICES ASSUME NEW d \in writers PROVE d = c
    OBVIOUS
  <2>1. /\ c \in Nat /\ Depth * c < p /\ p <= Depth * c + Depth
        /\ d \in Nat /\ Depth * d < p /\ p <= Depth * d + Depth
    BY <1>2
  <2> QED BY <1>1, <2>1, Apart
<1>5. CASE writers = {}
  <2>1. \A c \in Channels : ~(Place(c) < p /\ p <= Place(c) + MemRatio * Words(Size(c)))
    BY <1>5
  <2> QED BY <1>3, <1>5, <2>1
<1>6. CASE writers # {}
  <2>1. PICK c \in writers : TRUE
    BY <1>6
  <2>2. writers = {c}
    BY <1>4, <2>1
  <2>3. Max(writers) = c
    <3> HIDE DEF writers
    <3>1. {c} \in SUBSET Nat /\ {c} # {} /\ IsFiniteSet({c})
      BY <1>2, <2>1, FS_Singleton
    <3>2. Max({c}) \in {c}
      BY <3>1, MaxOfNats
    <3> QED BY <2>2, <3>2
  <2>4. c \in Channels /\ Place(c) < p /\ p <= Place(c) + MemRatio * Words(Size(c))
    OBVIOUS
  <2>5. p - Place(c) - 1 \in 0 .. MemRatio * Words(Size(c)) - 1
    <3> DEFINE A == Place(c)
               W == MemRatio * Words(Size(c))
    <3>1. A \in Nat /\ W \in Nat /\ A < p /\ p <= A + W
      BY <1>2, <2>1, <2>4
    <3> HIDE DEF A, W
    <3>2. p - A - 1 \in 0 .. W - 1
      BY <1>1, <3>1
    <3> QED BY <3>2 DEF A, W
  <2>6. StoreBuffs[p] = BuffWord(c, ((p - Place(c) - 1) \div MemRatio) + 1)
                                [((p - Place(c) - 1) % MemRatio) + 1]
    <3> HIDE DEF writers
    <3> QED BY <1>3, <1>6, <2>3
  <2>7. Last(args, "from", c) # 0
    BY <1>2, <2>1
  <2>8. \A d \in Channels : Place(d) < p /\ p <= Place(d) + MemRatio * Words(Size(d)) => d = c
    <3>1. \A d \in Channels : Place(d) < p /\ p <= Place(d) + MemRatio * Words(Size(d))
                                => d \in writers
      OBVIOUS
    <3> HIDE DEF writers
    <3> QED BY <2>2, <3>1
  <2> QED BY <2>4, <2>5, <2>6, <2>7, <2>8
<1> QED BY <1>5, <1>6

(* Every word of a channel has been written when store_memories ends.      *)
LEMMA AllStored ==
  ASSUME MoverInv, kernel # "idle", inst.mode = "FUNC", storeValid = 0
  PROVE  \A c \in Channels : StoreLeft(c) = 0
<1> SUFFICES ASSUME NEW c \in Channels, StoreLeft(c) # 0 PROVE FALSE
  OBVIOUS
<1>1. InWindow(storeRegs, storeValid, c)
  BY DEF MoverInv, WindowInv
<1>2. \A i : i \notin 1 .. 0
  OBVIOUS
<1> QED BY <1>1, <1>2 DEF InWindow

(* What the kernel leaves in the result buffer, in functional mode ...     *)
LEMMA EndedFunctional ==
  ASSUME MoverInv, Running, ProcessesEnded, mode = "FUNC",
         NEW i \in DOMAIN args, Due(i), NEW k \in 1 .. args[i].beats
  PROVE  from_aie[MemRatio * Offset(mode, args, i) + k] = Result(i, k)
<1> DEFINE c == args[i].chn
           f == args[i].beats
<1>1. /\ CallInv /\ ShapeInv /\ PlacedInv /\ kernel = "running" /\ Held /\ "from" \in Sides
      /\ args \in Seq(Argument) /\ ValidArguments(mode, args) /\ inst.mode = "FUNC"
      /\ MemRatio \in Nat \ {0}
  BY DepthAssumption DEF MoverInv, CallInv, Running, Sides, Rows
<1>2. /\ c \in Channels /\ f \in Nat /\ args[i].rep = 1 /\ i \in Nat /\ i >= 1
      /\ i \in Towards(args, "from") /\ i = Last(args, "from", c)
  BY <1>1, ArgumentFacts DEF ValidArguments, Due
<1>3. Frames("from", c) = f /\ stored[c] \in Nat
  BY <1>1, <1>2, RowFacts DEF ShapeInv
<1>4. StoreLeft(c) = 0
  BY <1>1, <1>2, AllStored DEF ProcessesEnded
<1>5. /\ Words(f) \in Nat /\ f <= MemRatio * Words(f) /\ MemRatio * Words(f) \in Nat
  BY <1>2, WordsFacts
<1>6. stored[c] = Words(f)
  BY <1>3, <1>4, <1>5 DEF StoreLeft
<1>7. k \in 1 .. MemRatio * Words(f) /\ k <= MemRatio * stored[c] /\ k <= f /\ k \in Nat
  <2> DEFINE W == MemRatio * Words(f)
  <2>1. W \in Nat /\ f <= W /\ W = MemRatio * stored[c]
    BY <1>5, <1>6
  <2> HIDE DEF W
  <2>2. k \in 1 .. W /\ k <= W /\ k <= f /\ k \in Nat
    BY <1>2, <2>1
  <2> QED BY <2>1, <2>2 DEF W
<1>8. from_aie[MemRatio * Offset("FUNC", args, i) + k] = Echo(c, k)
  BY <1>1, <1>2, <1>7 DEF PlacedInv
<1>9. (args[i].rep - 1) * f + k = k
  <2>1. args[i].rep - 1 = 0 /\ 0 * f = 0
    BY <1>2
  <2> HIDE DEF f
  <2> QED BY <1>7, <2>1
<1> QED BY <1>8, <1>9 DEF Result

(* ... and in performance mode.                                            *)
LEMMA EndedPerformance ==
  ASSUME MoverInv, Running, ProcessesEnded, mode = "PERF",
         NEW i \in DOMAIN args, Due(i), NEW k \in 1 .. args[i].beats
  PROVE  StoreBuffs[MemRatio * Offset(mode, args, i) + k] = Result(i, k)
<1> DEFINE c == args[i].chn
           G == args[i].beats
           rep == args[i].rep
           base == MemRatio * Offset(mode, args, i)
           p == base + k
           K == (rep - 1) * G + k
<1>1. /\ CallInv /\ ShapeInv /\ kernel = "running" /\ kernel # "idle" /\ Held
      /\ "from" \in Sides /\ "to" \in Sides
      /\ args \in Seq(Argument) /\ ValidArguments(mode, args) /\ inst.mode = "PERF"
      /\ MemRatio \in Nat \ {0} /\ Depth \in Nat \ {0}
      /\ DOMAIN from_aie = 1 .. BufferSize(mode, args, "from")
  BY DepthAssumption DEF MoverInv, CallInv, Running, Sides, Rows
<1>2. /\ c \in Channels /\ G \in Nat /\ rep \in Nat \ {0} /\ i \in Nat /\ i >= 1
      /\ i \in Towards(args, "from") /\ i = Last(args, "from", c)
      /\ G <= Depth /\ FitsBuffers(mode, args)
  BY <1>1, ArgumentFacts DEF ValidArguments, Due
<1>3. /\ Frames("from", c) = G /\ inst.numRep["from"][c] = rep
      /\ inst.offsets["from"][c] = Offset(mode, args, i)
  BY <1>1, <1>2, RowFacts
<1>4. Frames("to", c) <= Depth
  <2> DEFINE l == Last(args, "to", c)
  <2>1. CASE l = 0
    BY <1>1, <1>2, <2>1, RowFacts
  <2>2. CASE l # 0
    <3>1. Frames("to", c) = args[l].beats /\ l \in Towards(args, "to")
      BY <1>1, <1>2, <2>2, RowFacts
    <3> QED BY <1>2, <3>1 DEF FitsBuffers
  <2> QED BY <2>1, <2>2
<1>5. Min({Frames("from", c), Depth}) = G
  BY <1>1, <1>2, <1>3, MinOfTwo
<1>6. /\ Words(G) \in Nat /\ G <= MemRatio * Words(G) /\ MemRatio * Words(G) \in Nat
  BY <1>2, WordsFacts
<1>7. base \in Nat /\ p \in DOMAIN from_aie
  <2>1. /\ base \in Nat /\ base + Copied(mode, args, i) <= BufferSize(mode, args, "from")
        /\ BufferSize(mode, args, "from") \in Nat
    BY <1>1, <1>2, BeginFacts DEF Begin
  <2>2. Copied(mode, args, i) = G
    BY <1>1, <1>2, MinOfTwo DEF Copied
  <2>3. k \in 1 .. G /\ G \in Nat
    BY <1>2
  <2> HIDE DEF base, G
  <2>4. p \in 1 .. BufferSize(mode, args, "from")
    BY <2>1, <2>2, <2>3
  <2> QED BY <1>1, <2>1, <2>4
<1> HIDE DEF G
<1>8. k \in 1 .. G /\ k \in Nat
  BY <1>2 DEF G
<1>9. /\ base < p /\ p <= base + MemRatio * Words(G)
      /\ p - base - 1 = k - 1 /\ k - 1 \in 0 .. MemRatio * Words(G) - 1 /\ k - 1 < G
  <2> DEFINE W == MemRatio * Words(G)
  <2>1. W \in Nat /\ G <= W
    BY <1>6
  <2> HIDE DEF base, W
  <2>2. /\ base < p /\ p <= base + W
        /\ p - base - 1 = k - 1 /\ k - 1 \in 0 .. W - 1 /\ k - 1 < G
    BY <1>2, <1>7, <1>8, <2>1
  <2> QED BY <2>2 DEF W
<1>10. /\ MemRatio * inst.offsets["from"][c] < p
       /\ p <= MemRatio * inst.offsets["from"][c]
             + MemRatio * Words(Min({Frames("from", c), Depth}))
       /\ MemRatio * inst.offsets["from"][c] = base
  BY <1>3, <1>5, <1>9
<1> HIDE DEF base, p
<1>11. StoreBuffs[p] = BuffWord(c, ((k - 1) \div MemRatio) + 1)[((k - 1) % MemRatio) + 1]
  <2>1. PICK e \in Channels :
          LET g == Min({Frames("from", e), Depth})
              y == p - MemRatio * inst.offsets["from"][e] - 1
          IN /\ StoreBuffs[p] = BuffWord(e, (y \div MemRatio) + 1)[(y % MemRatio) + 1]
             /\ \A d \in Channels :
                  (/\ MemRatio * inst.offsets["from"][d] < p
                   /\ p <= MemRatio * inst.offsets["from"][d]
                         + MemRatio * Words(Min({Frames("from", d), Depth}))) => d = e
    BY <1>1, <1>2, <1>7, <1>10, StoredBack
  <2>2. c = e
    BY <1>2, <1>10, <2>1
  <2>3. p - MemRatio * inst.offsets["from"][e] - 1 = k - 1
    BY <1>9, <1>10, <2>2
  <2> QED BY <2>1, <2>2, <2>3
<1>12. StoreBuffs[p] = buff["from"][c][k - 1]
  BY <1>1, <1>2, <1>5, <1>9, <1>11, PackedBeat
<1>13. /\ RepeatInv(c) /\ gotten[c] = rep * G
  <2>1. RepeatInv(c) /\ gotten[c] = Total("from", c)
    BY <1>1, <1>2 DEF MoverInv, PerformanceInv, ProcessesEnded
  <2>2. Total("from", c) = inst.numRep["from"][c] * Frames("from", c)
    BY <1>1 DEF Total
  <2> QED BY <1>3, <2>1, <2>2
<1>14. /\ K \in 1 .. rep * G /\ rep * G - K < G /\ (K - 1) % G = k - 1
  <2> DEFINE A == (rep - 1) * G
  <2>1. A \in Nat /\ rep * G = A + G /\ A = G * (rep - 1)
    BY <1>2
  <2>2. K = A + k
    OBVIOUS
  <2> HIDE DEF A, K
  <2>3. G \in Nat \ {0} /\ k - 1 \in 0 .. G - 1 /\ rep - 1 \in Int /\ K - 1 \in Int
        /\ K - 1 = A + (k - 1) /\ K \in 1 .. A + G /\ A + G - K < G
    BY <1>2, <1>8, <2>1, <2>2
  <2>4. K - 1 = G * (rep - 1) + (k - 1)
    BY <2>1, <2>3
  <2>5. (K - 1) % G = k - 1
    <3> DEFINE n == K - 1
               r == k - 1
               q == rep - 1
    <3> HIDE DEF n, r, q
    <3>1. n \in Int /\ q \in Int /\ r \in 0 .. G - 1 /\ n = G * q + r
      BY <2>3, <2>4 DEF n, r, q
    <3>2. n % G = r
      BY <2>3, <3>1, DivisionUnique
    <3> QED BY <3>2 DEF n, r
  <2> QED BY <2>1, <2>3, <2>5
<1> HIDE DEF K
<1>15. buff["from"][c][(K - 1) % G] = Echo(c, K)
  BY <1>1, <1>2, <1>3, <1>4, <1>13, <1>14 DEF RepeatInv
<1>16. Result(i, k) = Echo(c, K)
  BY DEF Result, K, G
<1> QED BY <1>12, <1>14, <1>15, <1>16 DEF p, base

(* Functional mode has no buffers to write back.                           *)
LEMMA NothingBack ==
  ASSUME inst.mode = "FUNC"
  PROVE  /\ DOMAIN StoreBuffs = DOMAIN from_aie
         /\ \A p \in DOMAIN from_aie : StoreBuffs[p] = from_aie[p]
BY DEF StoreBuffs

LEMMA BeatsBack ==
  ASSUME MoverInv, Running, NEW p \in DOMAIN from_aie
  PROVE  StoreBuffs[p] \in Beat
<1>1. /\ CallInv /\ ShapeInv /\ kernel = "running" /\ kernel # "idle" /\ Held
      /\ "from" \in Sides /\ Depth \in Nat \ {0} /\ inst.mode = mode
      /\ mode \in {"FUNC", "PERF"} /\ from_aie[p] \in Beat
  BY DepthAssumption DEF MoverInv, CallInv, ShapeInv, Running, Sides, Rows
<1>2. CASE mode = "FUNC"
  BY <1>1, <1>2, NothingBack
<1>3. CASE mode = "PERF"
  <2>1. CASE StoreBuffs[p] = from_aie[p]
    BY <1>1, <2>1
  <2>2. CASE ~(StoreBuffs[p] = from_aie[p])
    <3> DEFINE G(c) == Min({Frames("from", c), Depth})
               y(c) == p - MemRatio * inst.offsets["from"][c] - 1
    <3>1. PICK e \in Channels :
            /\ y(e) \in 0 .. MemRatio * Words(G(e)) - 1
            /\ StoreBuffs[p] = BuffWord(e, (y(e) \div MemRatio) + 1)[(y(e) % MemRatio) + 1]
      BY <1>1, <1>3, <2>2, StoredBack
    <3>2. Frames("from", e) \in Nat
      BY <1>1, RowFacts
    <3>3. G(e) \in Nat /\ G(e) <= Depth
      BY <1>1, <3>2, MinOfTwo
    <3>4. StoreBuffs[p] = IF y(e) < G(e) THEN buff["from"][e][y(e)] ELSE Blank
      <4> DEFINE g == G(e)
                 z == y(e)
      <4>1. Min({Frames("from", e), Depth}) = g /\ g \in Nat /\ g <= Depth
            /\ z \in 0 .. MemRatio * Words(g) - 1
            /\ StoreBuffs[p] = BuffWord(e, (z \div MemRatio) + 1)[(z % MemRatio) + 1]
        BY <3>1, <3>3
      <4> HIDE DEF G, y, g, z
      <4>2. StoreBuffs[p] = IF z < g THEN buff["from"][e][z] ELSE Blank
        BY <4>1, PackedBeat
      <4> QED BY <4>2 DEF g, z
    <3>5. y(e) \in 0 .. G(e) - 1 => buff["from"][e][y(e)] \in Beat
      <4>1. buff \in [Sides -> [Channels -> [0 .. Depth - 1 -> Beat]]]
        BY <1>1 DEF ShapeInv
      <4>2. buff["from"][e] \in [0 .. Depth - 1 -> Beat]
        BY <1>1, <4>1
      <4>3. \A z : z \in 0 .. G(e) - 1 => z \in 0 .. Depth - 1
        <5> HIDE DEF G
        <5> QED BY <1>1, <3>3
      <4> HIDE DEF G, y, Beat
      <4> QED BY <4>2, <4>3
    <3>6. y(e) < G(e) => y(e) \in 0 .. G(e) - 1
      <4> DEFINE W == MemRatio * Words(G(e))
      <4>1. y(e) \in 0 .. W - 1 /\ W \in Int
        <5>1. Words(G(e)) \in Nat /\ MemRatio * Words(G(e)) \in Nat
          <6> HIDE DEF G
          <6> QED BY <3>3, WordsFacts
        <5> QED BY <3>1, <5>1
      <4> HIDE DEF G, y, W
      <4> QED BY <3>3, <4>1
    <3>7. Blank \in Beat
      BY ThreeBeats DEF Beat
    <3> HIDE DEF G, y, Beat
    <3> QED BY <3>4, <3>5, <3>6, <3>7
  <2> QED BY <2>1, <2>2
<1> QED BY <1>1, <1>2, <1>3

LEMMA KernelEndStep ==
  ASSUME MoverInv, KernelEnd
  PROVE  MoverInv'
<1> USE DEF callVars, outputVars, loadVars, storeVars, streamVars
<1>1. /\ Running /\ ProcessesEnded
      /\ kernel' = "ended" /\ from_aie' = StoreBuffs /\ perf_ptr' = StorePerf
      /\ UNCHANGED <<mode, args, given, timeOut, result_valid, from_mem_word_offset, status,
                     cfg_ptr, to_aie, user, perf_map, stalled, inst, buff, loadRegs, loadValid,
                     loaded, storeRegs, storeValid, stored, toStrm, fed, aie, gotten, fromStrm>>
  BY DEF KernelEnd
<1>2. /\ CallInv /\ ShapeInv /\ WindowInv /\ FunctionalInv /\ PlacedInv /\ PerformanceInv
      /\ kernel = "running" /\ status = "RUNNING" /\ Held /\ inst.mode = mode
      /\ mode \in {"FUNC", "PERF"} /\ args \in Seq(Argument)
  BY <1>1 DEF MoverInv, CallInv, Running, Rows
<1>3. Held' /\ DOMAIN from_aie' = DOMAIN from_aie
  BY <1>1, <1>2 DEF Held, StoreBuffs
<1>4. CallInv'
  BY <1>1, <1>2, <1>3 DEF CallInv, Held
<1>5. ShapeInv'
  <2>1. \A p \in DOMAIN from_aie' : from_aie'[p] \in Beat
    BY <1>1, <1>3, BeatsBack
  <2>2. Beat' = Beat /\ MemoryWord' = MemoryWord
    BY <1>1 DEF Beat, MemoryWord
  <2> QED BY <1>1, <1>2, <2>1, <2>2 DEF ShapeInv
<1>6. IdleInv' /\ ReturnInv'
  BY <1>1, <1>2 DEF IdleInv, ReturnInv, Returned
<1>7. WindowInv'
  BY <1>1, <1>2 DEF WindowInv, InWindow, LoadLeft, StoreLeft, Frames
<1>8. FunctionalInv'
  BY <1>1, <1>2 DEF FunctionalInv, LoadInv, GraphInv, StreamInv, Frames, Source, Into, OutOf
<1>9. PerformanceInv'
  BY <1>1, <1>2 DEF PerformanceInv, RepeatInv, Frames, Total, Source, Echo
<1>10. PlacedInv'
  <2> SUFFICES ASSUME inst.mode = "FUNC", NEW i \in Towards(args, "from"),
                      NEW k \in 1 .. MemRatio * Words(args[i].beats)
               PROVE  from_aie'[MemRatio * Offset("FUNC", args, i) + k] =
                        from_aie[MemRatio * Offset("FUNC", args, i) + k]
    BY <1>1, <1>2 DEF PlacedInv, Echo
  <2>1. MemRatio * Offset("FUNC", args, i) + k \in DOMAIN from_aie
    <3>1. "from" \in Sides
      BY DEF Sides
    <3> QED BY <1>2, <3>1, WordsInside DEF CallInv
  <2> QED BY <1>1, <2>1, NothingBack
<1>11. EndInv'
  <2>1. perf_ptr' = StorePerf'
    BY <1>1 DEF StorePerf
  <2>2. mode' = "FUNC" => \A c \in Channels : StoreLeft(c)' = 0
    <3>1. mode = "FUNC" => \A c \in Channels : StoreLeft(c) = 0
      BY <1>1, <1>2, AllStored DEF ProcessesEnded
    <3>2. \A c \in Channels : StoreLeft(c)' = StoreLeft(c)
      BY <1>1 DEF StoreLeft, Frames
    <3> QED BY <1>1, <3>1, <3>2
  <2>3. ASSUME NEW i \in DOMAIN args, Due(i), NEW k \in 1 .. args[i].beats
        PROVE  from_aie'[MemRatio * Offset(mode, args, i) + k] = Result(i, k)
    <3> DEFINE p == MemRatio * Offset(mode, args, i) + k
    <3>1. CASE mode = "FUNC"
      <4>1. from_aie[p] = Result(i, k)
        BY <1>1, <2>3, <3>1, EndedFunctional
      <4>2. p \in DOMAIN from_aie
        <5>1. /\ "from" \in Sides /\ i \in Towards(args, "from") /\ ValidArguments(mode, args)
              /\ DOMAIN from_aie = 1 .. BufferSize(mode, args, "from")
          BY <1>2, <2>3 DEF Due, CallInv, Sides
        <5>2. /\ MemRatio * Offset(mode, args, i) \in Nat
              /\ MemRatio * Offset(mode, args, i) + args[i].beats <= BufferSize(mode, args, "from")
              /\ BufferSize(mode, args, "from") \in Nat
          BY <1>2, <3>1, <5>1, BeginFacts DEF Begin, Copied
        <5>3. k \in 1 .. args[i].beats /\ args[i].beats \in Nat
          BY <1>2, <2>3, ArgumentFacts
        <5> DEFINE b == MemRatio * Offset(mode, args, i)
                   f == args[i].beats
                   s == BufferSize(mode, args, "from")
        <5>4. b \in Nat /\ b + f <= s /\ s \in Nat /\ k \in 1 .. f /\ f \in Nat
          BY <5>2, <5>3
        <5> HIDE DEF b, f, s
        <5>5. b + k \in 1 .. s
          BY <5>4
        <5> QED BY <5>1, <5>5 DEF b, s
      <4> QED BY <1>1, <1>2, <3>1, <4>1, <4>2, NothingBack
    <3>2. CASE mode = "PERF"
      BY <1>1, <2>3, <3>2, EndedPerformance
    <3> QED BY <1>2, <3>1, <3>2
  <2>4. /\ \A i : Due(i)' <=> Due(i)
        /\ \A i, k : Result(i, k)' = Result(i, k)
    BY <1>1 DEF Due, Result, Echo
  <2>5. \A i \in DOMAIN args' : Due(i)' =>
          \A k \in 1 .. args'[i].beats :
            from_aie'[MemRatio * Offset(mode', args', i) + k] = Result(i, k)'
    BY <1>1, <2>3, <2>4
  <2> QED BY <2>1, <2>2, <2>5 DEF EndInv
<1> QED BY <1>4, <1>5, <1>6, <1>7, <1>8, <1>9, <1>10, <1>11 DEF MoverInv

(* The places at which store_perf leaves the cycles of a channel.          *)
LEMMA CyclePlaces ==
  ASSUME NEW c \in Channels, NEW j \in 0 .. 3
  PROVE  StorePerf[c + j * NumChannels] =
           [dir |-> IF j < 2 THEN "to" ELSE "from", chn |-> c,
            cc |-> IF j % 2 = 0 THEN "first" ELSE "last"]
<1> DEFINE x == c + j * NumChannels
<1>1. NumChannels \in Nat \ {0} /\ c \in 0 .. NumChannels - 1
  BY ChannelsAssumption DEF Channels
<1>2. x \in 0 .. 4 * NumChannels - 1 /\ (x < 2 * NumChannels <=> j < 2) /\ x = NumChannels * j + c
      /\ x \in Int
  BY <1>1
<1> HIDE DEF x
<1>3. x \div NumChannels = j /\ x % NumChannels = c
  BY <1>1, <1>2, DivisionUnique
<1>4. StorePerf[x] = [dir |-> IF j < 2 THEN "to" ELSE "from", chn |-> c,
                      cc |-> IF j % 2 = 0 THEN "first" ELSE "last"]
  BY <1>2, <1>3 DEF StorePerf
<1> QED BY <1>4 DEF x

LEMMA OwnCycles ==
  ASSUME perf_ptr = StorePerf, NEW c \in Channels, NEW d \in Sides
  PROVE  PerfOf(d, c) = <<[dir |-> d, chn |-> c, cc |-> "first"],
                          [dir |-> d, chn |-> c, cc |-> "last"]>>
<1>1. NumChannels \in Nat /\ c \in Nat /\ d \in {"to", "from"}
  BY ChannelsAssumption DEF Channels, Sides
<1>2. c + 0 * NumChannels = c /\ c + 1 * NumChannels = c + NumChannels
  BY <1>1
<1>3. /\ StorePerf[c] = [dir |-> "to", chn |-> c, cc |-> "first"]
      /\ StorePerf[c + NumChannels] = [dir |-> "to", chn |-> c, cc |-> "last"]
  <2>1. /\ StorePerf[c + 0 * NumChannels] =
             [dir |-> IF 0 < 2 THEN "to" ELSE "from", chn |-> c,
              cc |-> IF 0 % 2 = 0 THEN "first" ELSE "last"]
        /\ StorePerf[c + 1 * NumChannels] =
             [dir |-> IF 1 < 2 THEN "to" ELSE "from", chn |-> c,
              cc |-> IF 1 % 2 = 0 THEN "first" ELSE "last"]
    <3>1. 0 \in 0 .. 3 /\ 1 \in 0 .. 3
      OBVIOUS
    <3> QED BY <3>1, CyclePlaces
  <2>2. 0 < 2 /\ 1 < 2 /\ 0 % 2 = 0 /\ 1 % 2 # 0
    OBVIOUS
  <2> QED BY <1>2, <2>1, <2>2
<1>4. /\ StorePerf[c + 2 * NumChannels] = [dir |-> "from", chn |-> c, cc |-> "first"]
      /\ StorePerf[c + 3 * NumChannels] = [dir |-> "from", chn |-> c, cc |-> "last"]
  <2>1. /\ StorePerf[c + 2 * NumChannels] =
             [dir |-> IF 2 < 2 THEN "to" ELSE "from", chn |-> c,
              cc |-> IF 2 % 2 = 0 THEN "first" ELSE "last"]
        /\ StorePerf[c + 3 * NumChannels] =
             [dir |-> IF 3 < 2 THEN "to" ELSE "from", chn |-> c,
              cc |-> IF 3 % 2 = 0 THEN "first" ELSE "last"]
    <3>1. 2 \in 0 .. 3 /\ 3 \in 0 .. 3
      OBVIOUS
    <3> QED BY <3>1, CyclePlaces
  <2>2. ~(2 < 2) /\ ~(3 < 2) /\ 2 % 2 = 0 /\ 3 % 2 # 0
    OBVIOUS
  <2> QED BY <2>1, <2>2
<1> QED BY <1>1, <1>3, <1>4 DEF PerfOf

LEMMA FinishStep ==
  ASSUME MoverInv, Finish
  PROVE  MoverInv'
<1> USE DEF loadVars, storeVars, streamVars
<1>1. /\ status \in {"DONE", "TIMEOUT"} /\ Held
      /\ user' = [i \in Towards(args, "from") |->
                    [k \in 1 .. args[i].beats |->
                       IF k <= Copied(mode, args, i)
                         THEN Read(from_aie, MemRatio * from_mem_word_offset[args[i].chn] + k)
                         ELSE Blank]]
      /\ perf_map' = [i \in DOMAIN args |-> PerfOf(args[i].dir, args[i].chn)]
      /\ cfg_ptr' = <<>> /\ from_aie' = <<>>
      /\ UNCHANGED <<mode, args, given, timeOut, result_valid, status, stalled, kernel, inst,
                     buff, loadRegs, loadValid, loaded, storeRegs, storeValid, stored,
                     toStrm, fed, aie, gotten, fromStrm>>
  BY DEF Finish, HandleOutputs, Held
<1>2. /\ CallInv /\ ShapeInv /\ WindowInv /\ FunctionalInv /\ PerformanceInv /\ EndInv
      /\ kernel # "idle" /\ (status = "DONE" => kernel = "ended")
      /\ args \in Seq(Argument) /\ mode \in {"FUNC", "PERF"} /\ ValidArguments(mode, args)
      /\ DOMAIN from_aie = 1 .. BufferSize(mode, args, "from")
      /\ from_mem_word_offset = [c \in Channels |-> Entry(mode, args, "from", 3, c)]
  BY <1>1 DEF MoverInv, CallInv
<1>3. ~Held' /\ DOMAIN from_aie' = {}
  BY <1>1 DEF Held
<1>4. CallInv'
  BY <1>1, <1>2, <1>3 DEF CallInv
<1>5. ShapeInv'
  BY <1>1, <1>2, <1>3 DEF ShapeInv, Beat, MemoryWord
<1>6. IdleInv' /\ PlacedInv'
  BY <1>1, <1>2, <1>3 DEF IdleInv, PlacedInv
<1>7. WindowInv'
  BY <1>1, <1>2 DEF WindowInv, InWindow, LoadLeft, StoreLeft, Frames
<1>8. FunctionalInv'
  BY <1>1, <1>2 DEF FunctionalInv, LoadInv, GraphInv, StreamInv, Frames, Source, Into, OutOf
<1>9. PerformanceInv'
  BY <1>1, <1>2 DEF PerformanceInv, RepeatInv, Frames, Total, Source, Echo
<1>10. EndInv'
  <2>1. \A c \in Channels : StoreLeft(c)' = StoreLeft(c)
    BY <1>1 DEF StoreLeft, Frames
  <2> QED BY <1>1, <1>2, <1>3, <2>1 DEF EndInv
<1>11. ReturnInv'
  <2> SUFFICES ASSUME status = "DONE" PROVE ReturnInv'
    BY <1>1 DEF ReturnInv, Returned
  <2>1. /\ kernel = "ended" /\ perf_ptr = StorePerf
        /\ \A i \in DOMAIN args : Due(i) =>
             \A k \in 1 .. args[i].beats :
               from_aie[MemRatio * Offset(mode, args, i) + k] = Result(i, k)
    BY <1>1, <1>2 DEF EndInv
  <2>2. ASSUME NEW i \in DOMAIN args
        PROVE  perf_map'[i] = <<[dir |-> args[i].dir, chn |-> args[i].chn, cc |-> "first"],
                                [dir |-> args[i].dir, chn |-> args[i].chn, cc |-> "last"]>>
    <3>1. args[i].dir \in Sides /\ args[i].chn \in Channels
      BY <1>2, ArgumentFacts DEF ValidArguments
    <3>2. perf_map'[i] = PerfOf(args[i].dir, args[i].chn)
      BY <1>1
    <3> QED BY <2>1, <3>1, <3>2, OwnCycles
  <2>3. ASSUME NEW i \in DOMAIN args, Due(i), NEW k \in 1 .. args[i].beats
        PROVE  user'[i][k] = Result(i, k)
    <3> DEFINE c == args[i].chn
               f == args[i].beats
               b == MemRatio * Offset(mode, args, i)
               s == BufferSize(mode, args, "from")
    <3>1. /\ i \in Towards(args, "from") /\ i = Last(args, "from", c) /\ "from" \in Sides
          /\ (mode = "PERF" => f <= Depth) /\ c \in Channels /\ f \in Nat /\ i \in Nat /\ i >= 1
          /\ Depth \in Nat
      BY <1>2, <2>3, ArgumentFacts, DepthAssumption DEF Due, Sides, ValidArguments
    <3>2. from_mem_word_offset[c] = Offset(mode, args, i)
      <4>1. Entry(mode, args, "from", 3, c) = Offset(mode, args, i)
        BY <1>2, <3>1, EntryFacts
      <4> QED BY <1>2, <3>1, <4>1
    <3>3. Copied(mode, args, i) = f
      BY <1>2, <3>1, MinOfTwo DEF Copied
    <3>4. b \in Nat /\ b + f <= s /\ s \in Nat
      BY <1>2, <3>1, <3>3, BeginFacts DEF Begin
    <3>5. b + k \in 1 .. s /\ k <= f /\ k \in 1 .. f
      <4>1. k \in 1 .. f
        OBVIOUS
      <4> HIDE DEF b, f, s
      <4> QED BY <3>1, <3>4, <4>1
    <3>6. Read(from_aie, b + k) = Result(i, k)
      <4>1. b + k \in DOMAIN from_aie
        BY <1>2, <3>5
      <4> QED BY <2>1, <2>3, <4>1 DEF Read
    <3>7. user'[i][k] = IF k <= Copied(mode, args, i)
                          THEN Read(from_aie, MemRatio * from_mem_word_offset[c] + k) ELSE Blank
      BY <1>1, <3>1, <3>5
    <3> QED BY <3>2, <3>3, <3>5, <3>6, <3>7
  <2>4. /\ \A i : Due(i)' <=> Due(i)
        /\ \A i, k : Result(i, k)' = Result(i, k)
    BY <1>1 DEF Due, Result, Echo
  <2>5. \A i \in DOMAIN args' : Due(i)' =>
          \A k \in 1 .. args'[i].beats : user'[i][k] = Result(i, k)'
    BY <1>1, <2>3, <2>4
  <2>6. \A i \in DOMAIN args' : perf_map'[i] =
          <<[dir |-> args'[i].dir, chn |-> args'[i].chn, cc |-> "first"],
            [dir |-> args'[i].dir, chn |-> args'[i].chn, cc |-> "last"]>>
    BY <1>1, <2>2
  <2> QED BY <2>5, <2>6 DEF ReturnInv
<1> QED BY <1>4, <1>5, <1>6, <1>7, <1>8, <1>9, <1>10, <1>11 DEF MoverInv

LEMMA StutterStep ==
  ASSUME MoverInv, UNCHANGED moverVars
  PROVE  MoverInv'
<1> USE DEF moverVars, layoutVars, callVars, bufferVars, outputVars, loadVars, storeVars,
            streamVars
<1>1. CallInv' /\ ShapeInv' /\ IdleInv'
  BY DEF MoverInv, CallInv, Held, ShapeInv, Beat, MemoryWord, IdleInv
<1>2. WindowInv'
  BY DEF MoverInv, WindowInv, InWindow, LoadLeft, StoreLeft, Frames
<1>3. FunctionalInv'
  <2> SUFFICES ASSUME kernel # "idle", inst.mode = "FUNC", NEW c \in Channels
               PROVE  LoadInv(c)' /\ GraphInv(c)' /\ StreamInv(c)'
    BY DEF FunctionalInv
  <2>1. LoadInv(c) /\ GraphInv(c) /\ StreamInv(c)
    BY DEF MoverInv, FunctionalInv
  <2>2. /\ \A d \in {"to", "from"} : Frames(d, c)' = Frames(d, c)
        /\ Source(c)' = Source(c)
    BY DEF Frames, Source
  <2>3. Into(c)' = Into(c) /\ OutOf(c)' = OutOf(c)
    BY <2>2 DEF Into, OutOf
  <2>4. LoadInv(c)'
    BY <2>1, <2>2 DEF LoadInv
  <2>5. GraphInv(c)'
    BY <2>1, <2>2, <2>3 DEF GraphInv
  <2>6. StreamInv(c)'
    BY <2>1, <2>2 DEF StreamInv
  <2> QED BY <2>4, <2>5, <2>6
<1>4. PlacedInv'
  BY DEF MoverInv, PlacedInv, Held, Echo
<1>5. PerformanceInv'
  BY DEF MoverInv, Echo, PerformanceInv, RepeatInv, Frames, Total, Source
<1>6. EndInv'
  BY DEF MoverInv, EndInv, Held, Due, Result, Echo, StorePerf, StoreLeft, Frames
<1>7. ReturnInv'
  BY DEF MoverInv, Due, Result, Echo, ReturnInv, Returned
<1> QED BY <1>1, <1>2, <1>3, <1>4, <1>5, <1>6, <1>7 DEF MoverInv

(* The invariant of the mover, whatever the graph does and in whatever     *)
(* order the processes of the kernel move.                                 *)
THEOREM MoverInvariance == MoverSpec => []MoverInv
<1>1. MoverInv /\ [MoverNext]_moverVars => MoverInv'
  <2> SUFFICES ASSUME MoverInv, [MoverNext]_moverVars PROVE MoverInv'
    OBVIOUS
  <2>1. CASE Call
    BY <2>1, CallStep
  <2>2. CASE KernelStart
    BY <2>2, KernelStartStep
  <2>3. CASE LoadSkip
    BY <2>3, LoadSkipStep
  <2>4. CASE LoadTurn
    BY <2>4, LoadTurnStep
  <2>5. ASSUME NEW c \in Channels, Feed(c) PROVE MoverInv'
    BY <2>5, FeedStep
  <2>6. ASSUME NEW c \in Channels, FeedPerf(c) PROVE MoverInv'
    BY <2>6, FeedPerfStep
  <2>7. ASSUME NEW c \in Channels, Get(c) PROVE MoverInv'
    BY <2>7, GetStep
  <2>8. ASSUME NEW c \in Channels, GetPerf(c) PROVE MoverInv'
    BY <2>8, GetPerfStep
  <2>9. CASE StoreSkip
    BY <2>9, StoreSkipStep
  <2>10. CASE StoreTurn
    BY <2>10, StoreTurnStep
  <2>11. CASE KernelEnd
    BY <2>11, KernelEndStep
  <2>12. CASE Answer
    BY <2>12, AnswerStep
  <2>13. CASE Finish
    BY <2>13, FinishStep
  <2>14. CASE UNCHANGED moverVars
    BY <2>14, StutterStep
  <2> QED BY <2>1, <2>2, <2>3, <2>4, <2>5, <2>6, <2>7, <2>8, <2>9, <2>10, <2>11, <2>12, <2>13,
             <2>14 DEF MoverNext
<1> QED BY <1>1, MoverInvInit, PTL DEF MoverSpec

-----------------------------------------------------------------------------
(* What the invariant says of the properties.                              *)

(* Type correctness, and the bounds of the counters and FIFOs.             *)
THEOREM MoverTypes == MoverSpec => []MoverTypeOK
<1>1. MoverInv => MoverTypeOK
  <2> SUFFICES ASSUME MoverInv PROVE MoverTypeOK
    OBVIOUS
  <2>1. CallInv /\ ShapeInv /\ IdleInv /\ FunctionalInv /\ PerformanceInv
        /\ "to" \in Sides /\ "from" \in Sides /\ Capacity \in Nat
    BY BurstAssumption DEF MoverInv, Sides, Capacity
  <2>2. ASSUME NEW c \in Channels
        PROVE  /\ inst.mode = "FUNC" => fed[c] <= loaded[c] /\ stored[c] <= gotten[c]
               /\ fed[c] <= Total("to", c) /\ loaded[c] <= Words(Frames("to", c))
               /\ gotten[c] <= Total("from", c)
               /\ Len(toStrm[c]) <= Capacity /\ Len(fromStrm[c]) <= Capacity
    <3>1. CASE kernel = "idle"
      <4>1. /\ fed[c] = 0 /\ loaded[c] = 0 /\ stored[c] = 0 /\ gotten[c] = 0
            /\ toStrm[c] = <<>> /\ fromStrm[c] = <<>>
        BY <2>1, <3>1 DEF IdleInv, ChannelZero, ChannelEmpty
      <4>2. inst.mode = "FUNC" /\ Frames("to", c) = 0 /\ Frames("from", c) = 0
        <5>1. inst = NoRows
          BY <2>1, <3>1 DEF CallInv
        <5> QED BY <2>1, <5>1 DEF NoRows, ChannelZero, Frames
      <4>3. Words(0) = 0 /\ Len(<<>>) = 0
        BY WordsFacts
      <4>4. Total("to", c) = 0 /\ Total("from", c) = 0
        BY <4>2, <4>3 DEF Total
      <4> QED BY <2>1, <4>1, <4>2, <4>3, <4>4
    <3>2. CASE kernel # "idle"
      <4>1. /\ inst.mode \in {"FUNC", "PERF"}
            /\ Frames("to", c) \in Nat /\ Frames("from", c) \in Nat
            /\ Words(Frames("to", c)) \in Nat /\ Words(Frames("from", c)) \in Nat
            /\ fed[c] \in Nat /\ loaded[c] \in Nat /\ stored[c] \in Nat /\ gotten[c] \in Nat
        BY <2>1, <3>2, RowFacts, WordsFacts DEF ShapeInv
      <4>2. CASE inst.mode = "FUNC"
        <5>1. /\ fed[c] <= loaded[c] /\ loaded[c] <= Words(Frames("to", c))
              /\ gotten[c] <= Words(Frames("from", c)) /\ stored[c] <= gotten[c]
              /\ Len(toStrm[c]) <= Capacity /\ Len(fromStrm[c]) <= Capacity
          BY <2>1, <3>2, <4>2 DEF FunctionalInv, LoadInv, GraphInv, StreamInv
        <5>2. Total("to", c) = Words(Frames("to", c)) /\ Total("from", c) = Words(Frames("from", c))
          BY <4>2 DEF Total
        <5> QED BY <4>1, <5>1, <5>2
      <4>3. CASE inst.mode = "PERF"
        <5>1. /\ loaded[c] = 0 /\ toStrm[c] = <<>> /\ fromStrm[c] = <<>>
              /\ fed[c] <= Total("to", c) /\ gotten[c] <= Total("from", c)
          BY <2>1, <3>2, <4>3 DEF PerformanceInv, RepeatInv
        <5>2. Len(<<>>) = 0
          OBVIOUS
        <5> QED BY <2>1, <4>1, <4>3, <5>1, <5>2
      <4> QED BY <4>1, <4>2, <4>3
    <3> QED BY <3>1, <3>2
  <2>3. /\ aie \in [Channels -> Seq(Beat)] /\ toStrm \in [Channels -> Seq(MemoryWord)]
        /\ fromStrm \in [Channels -> Seq(MemoryWord)]
        /\ buff \in [Sides -> [Channels -> [0 .. Depth - 1 -> Beat]]]
        /\ \A p \in DOMAIN from_aie : from_aie[p] \in Beat
    BY <2>1 DEF ShapeInv
  <2>4. /\ \A c \in Channels : /\ aie[c] \in Seq(Beat) /\ toStrm[c] \in Seq(MemoryWord)
                               /\ fromStrm[c] \in Seq(MemoryWord)
                               /\ \A d \in Sides : buff[d][c] \in [0 .. Depth - 1 -> Beat]
    BY <2>3
  <2>5. /\ stalled \subseteq Channels /\ kernel \in {"idle", "running", "ended"}
        /\ status \in {"NONE", "CREATED", "READY", "RUNNING", "TIMEOUT", "DONE"}
        /\ loadRegs \in [Turns -> Channels] /\ storeRegs \in [Turns -> Channels]
        /\ loadValid \in 0 .. NumChannels /\ storeValid \in 0 .. NumChannels
    BY <2>1 DEF CallInv, ShapeInv
  <2>6. Beat = BeatsOf(args) /\ MemoryWord = [1 .. MemRatio -> BeatsOf(args)]
    BY DEF Beat, MemoryWord
  <2> QED BY <2>2, <2>3, <2>4, <2>5, <2>6 DEF MoverTypeOK
<1> QED BY <1>1, MoverInvariance, PTL

(* The cycles an application finds for an argument are those of its own    *)
(* channel and direction.                                                  *)
THEOREM PerfReported == MoverSpec => []PerfOfOwnChannel
<1>1. MoverInv => PerfOfOwnChannel
  BY DEF MoverInv, ReturnInv, PerfOfOwnChannel
<1> QED BY <1>1, MoverInvariance, PTL

(* With distinct channels, valid results and outputs that fit, what the    *)
(* application finds is what went in last on the channel.                  *)
THEOREM ResultsDelivered == MoverSpec => []DeliveredIfOutputsFit
<1>1. MoverInv => DeliveredIfOutputsFit
  <2> SUFFICES ASSUME MoverInv, Returned, isResultValid, DistinctChannels,
                      mode = "PERF" => \A i \in Towards(args, "from") :
                                         args[i].beats <= Depth /\ args[i].rep # 0,
                      NEW i \in Towards(args, "from")
               PROVE  Delivered(i)
    BY DEF DeliveredIfOutputsFit
  <2>1. CallInv /\ ReturnInv /\ status = "DONE" /\ result_valid
    BY DEF MoverInv, Returned, isResultValid
  <2>2. args \in Seq(Argument) /\ FitsBuffers(mode, args)
    BY <2>1 DEF CallInv
  <2>3. i \in DOMAIN args /\ args[i].dir = "from"
    BY DEF Towards
  <2>4. i = Last(args, "from", args[i].chn)
    <3> DEFINE l == Last(args, "from", args[i].chn)
    <3>1. l # 0 /\ l \in Towards(args, "from") /\ args[l].chn = args[i].chn
      BY <2>2, LastFacts
    <3>2. l \in DOMAIN args /\ args[l].dir = "from"
      BY <3>1 DEF Towards
    <3> QED BY <2>3, <3>1, <3>2 DEF DistinctChannels
  <2>5. Due(i)
    BY <2>2, <2>4 DEF Due
  <2> QED BY <2>1, <2>3, <2>5 DEF ReturnInv, Delivered, Result
<1> QED BY <1>1, MoverInvariance, PTL

(* Functional mode: at every moment, every stored word is in its place,    *)
(* whole and its channel's own, and nothing else has been written.         *)
THEOREM ResultsPlaced == MoverSpec => []ResultsInPlace
<1>1. MoverInv => ResultsInPlace
  <2> DEFINE Start(i) == MemRatio * Offset("FUNC", args, i)
             Size(i) == MemRatio * Words(args[i].beats)
  <2> SUFFICES ASSUME MoverInv, inst.mode = "FUNC", kernel # "idle", NEW p \in DOMAIN from_aie
               PROVE  LET owners == {i \in Towards(args, "from") :
                                       Start(i) < p /\ p <= Start(i) + Size(i)}
                          Right(i) ==
                            LET c == args[i].chn
                                k == p - Start(i)
                                there == /\ i = Last(args, "from", c)
                                         /\ k <= Min({MemRatio * stored[c], args[i].beats})
                            IN from_aie[p] = IF there THEN Echo(c, k) ELSE Blank
                      IN owners # {} /\ \A i \in owners : Right(i)
    BY Zenon DEF ResultsInPlace
  <2>1. CallInv /\ ShapeInv /\ PlacedInv
    BY DEF MoverInv
  <2>2. Held
    BY <2>1 DEF CallInv
  <2>3. /\ mode = "FUNC" /\ args \in Seq(Argument) /\ "from" \in Sides
        /\ p \in 1 .. BufferSize("FUNC", args, "from") /\ MemRatio \in Nat \ {0}
        /\ ValidArguments(mode, args)
    BY <2>1, <2>2, DepthAssumption DEF CallInv, Rows, Sides
  <2>4. \E i \in Towards(args, "from") : Start(i) < p /\ p <= Start(i) + Size(i)
    BY <2>3, NoGap
  <2>5. ASSUME NEW i \in Towards(args, "from"), Start(i) < p, p <= Start(i) + Size(i)
        PROVE  LET c == args[i].chn
                   k == p - Start(i)
                   there == /\ i = Last(args, "from", c)
                            /\ k <= Min({MemRatio * stored[c], args[i].beats})
               IN from_aie[p] = IF there THEN Echo(c, k) ELSE Blank
    <3> DEFINE c == args[i].chn
               f == args[i].beats
               k == p - Start(i)
    <3>1. /\ i \in DOMAIN args /\ c \in Channels /\ f \in Nat /\ Offset("FUNC", args, i) \in Nat
          /\ Words(f) \in Nat
      BY <2>3, ArgumentFacts, WordsFacts, Behind DEF Towards, ValidArguments
    <3>2. stored[c] \in Nat
      BY <2>1, <3>1 DEF ShapeInv
    <3>3. MemRatio * stored[c] \in Nat /\ Start(i) \in Nat /\ Size(i) \in Nat
      BY <2>3, <3>1, <3>2, MultipleNat
    <3>4. Min({MemRatio * stored[c], f}) = IF MemRatio * stored[c] <= f
                                             THEN MemRatio * stored[c] ELSE f
      BY <3>1, <3>3, MinOfTwo
    <3>5. k \in 1 .. Size(i) /\ Start(i) + k = p /\ p \in Int
      <4> DEFINE s == Start(i)
                 z == Size(i)
      <4>1. s \in Nat /\ z \in Nat /\ s < p /\ p <= s + z /\ p \in Int
        BY <2>3, <2>5, <3>3
      <4> HIDE DEF s, z
      <4>2. p - s \in 1 .. z /\ s + (p - s) = p
        BY <4>1
      <4> QED BY <4>1, <4>2 DEF s, z
    <3>6. from_aie[Start(i) + k] =
            IF i = Last(args, "from", c) /\ k <= MemRatio * stored[c] /\ k <= f
              THEN Echo(c, k) ELSE Blank
      <4> HIDE DEF k
      <4> QED BY <2>1, <2>2, <3>5 DEF PlacedInv
    <3>7. k <= Min({MemRatio * stored[c], f}) <=> k <= MemRatio * stored[c] /\ k <= f
      <4> DEFINE m == MemRatio * stored[c]
      <4>1. m \in Nat /\ f \in Nat /\ k \in Int /\ Min({m, f}) = IF m <= f THEN m ELSE f
        BY <3>1, <3>3, <3>4, <3>5
      <4> HIDE DEF m, f, k
      <4>2. k <= Min({m, f}) <=> k <= m /\ k <= f
        BY <4>1
      <4> QED BY <4>2 DEF m
    <3> HIDE DEF k, Start
    <3> QED BY <3>5, <3>6, <3>7 DEF k
  <2> HIDE DEF Start, Size
  <2> QED BY <2>4, <2>5
<1> QED BY <1>1, MoverInvariance, PTL
=============================================================================
