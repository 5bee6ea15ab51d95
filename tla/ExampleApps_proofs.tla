-------------------------- MODULE ExampleApps_proofs ------------------------
(***************************************************************************)
(* Proof that data stay in step in the example programs, that none are     *)
(* left over and that the results are right, for any iterations and        *)
(* repetitions.                                                            *)
(*                                                                         *)
(* The graphs are dataflow graphs: how many tokens a kernel has taken from *)
(* and put into a queue depends on the number of its moves alone.  A plan  *)
(* says so for a program: for every queue who writes and who reads it,     *)
(* after how many moves with how many tokens in all, and what place in the *)
(* stream each token comes from.  The first half proves the invariants for *)
(* any program that has a plan, the second gives a plan to each example.   *)
(***************************************************************************)
EXTENDS ExampleApps, SequenceTheorems, SumTheorems

-----------------------------------------------------------------------------
(* Who moves tokens: the kernels and the channels of a transaction.        *)
Kernel(k) == <<"kernel", k>>
Channel(i) == <<"channel", i>>
Actors(g, s) == {Kernel(k) : k \in DOMAIN g.kernels} \cup {Channel(i) : i \in 1 .. s.channels}

(* The items a channel moves in a transaction, and all of a vector.        *)
Total(s) == s.items * s.reps
Length(s) == s.items * s.parts

PlanTypes(g, s) ==
  /\ s.items \in Nat \ {0} /\ s.reps \in Nat \ {0} /\ s.parts \in Nat \ {0}
  /\ s.bytes \in Nat
  /\ s.channels \in Nat \ {0}
  /\ s.dirs \in [1 .. s.channels -> {"to", "from"}]
  /\ \E i \in 1 .. s.channels : s.dirs[i] = "to"
  /\ s.ports \in [1 .. s.channels -> Nat]
  /\ \A port \in DOMAIN g.outputs : g.outputs[port] \in DOMAIN g.capacity
  /\ s.writer \in [DOMAIN g.capacity -> Actors(g, s)]
  /\ s.reader \in [DOMAIN g.capacity -> Actors(g, s)]
  /\ s.put \in [DOMAIN g.capacity -> [Nat -> Nat]]
  /\ s.taken \in [DOMAIN g.capacity -> [Nat -> Nat]]
  /\ s.index \in [DOMAIN g.capacity -> [Nat -> Nat]]
  /\ s.keeps \in [DOMAIN g.kernels -> [Nat -> Int]]
  /\ s.rank \in [Actors(g, s) -> Nat]

(* Every queue is empty before the first move of all and after the last.   *)
PlanEnds(g, s) ==
  /\ \A e \in DOMAIN g.capacity :
       /\ s.put[e][0] = 0 /\ s.taken[e][0] = 0
       /\ s.put[e][Total(s)] = s.taken[e][Total(s)]
  /\ \A k \in DOMAIN g.kernels :
       /\ Len(g.kernels[k]) \in Nat \ {0}
       /\ Total(s) % Len(g.kernels[k]) = 0
       /\ s.keeps[k][0] \in {-1, 0} /\ s.keeps[k][Total(s)] = s.keeps[k][0]

(* A channel moves one token after the other, in the order of the stream.  *)
PlanChannels(g, span, s) ==
  \A i \in 1 .. s.channels, e \in DOMAIN g.capacity :
    /\ s.writer[e] = Channel(i) <=>
         s.dirs[i] = "to" /\ s.ports[i] \in DOMAIN g.inputs /\ e \in g.inputs[s.ports[i]]
    /\ s.reader[e] = Channel(i) <=>
         s.dirs[i] = "from" /\ s.ports[i] \in DOMAIN g.outputs /\ e = g.outputs[s.ports[i]]
    /\ s.writer[e] = Channel(i) => \A m \in Nat : s.put[e][m] = m
    /\ s.reader[e] = Channel(i) => \A m \in Nat : s.taken[e][m] = m
    /\ s.writer[e] = Channel(i) \/ s.reader[e] = Channel(i) =>
         \A n \in 1 .. Total(s) : s.index[e][n] = ((n - 1) \div span) + 1

(* The move of a kernel that has made m.                                   *)
InRound(g, k, m) == (m % Len(g.kernels[k])) + 1
MoveAt(g, k, m) == g.kernels[k][InRound(g, k, m)]

(* The sources are tokens the move has, and all from the place f.          *)
FromPlace(g, s, k, m, sources, f) ==
  \A x \in sources :
    IF x = Kept THEN s.keeps[k][m] \in {0, f}
    ELSE \E e \in DOMAIN g.capacity :
           /\ x[1] = e /\ s.reader[e] = Kernel(k)
           /\ x[2] \in 1 .. Amount(MoveAt(g, k, m).need, e)
           /\ s.index[e][s.taken[e][m] + x[2]] = f

PlanTakes(g, s, k, m) ==
  LET move == MoveAt(g, k, m) IN
  \A e \in DOMAIN g.capacity :
    /\ Amount(move.need, e) \in Nat /\ Amount(move.get, e) \in 0 .. Amount(move.need, e)
    /\ IF s.reader[e] = Kernel(k)
         THEN s.taken[e][m + 1] = s.taken[e][m] + Amount(move.get, e)
         ELSE Amount(move.get, e) = 0

PlanPuts(g, s, k, m) ==
  LET move == MoveAt(g, k, m) IN
  \A e \in DOMAIN g.capacity :
    IF s.writer[e] = Kernel(k)
      THEN /\ s.put[e][m] <= s.put[e][m + 1]
           /\ DOMAIN Output(move, e) = 1 .. s.put[e][m + 1] - s.put[e][m]
           /\ \A j \in DOMAIN Output(move, e) :
                /\ FromPlace(g, s, k, m, Output(move, e)[j], s.index[e][s.put[e][m] + j])
                /\ \E x \in Output(move, e)[j] : x # Kept
      ELSE DOMAIN Output(move, e) = {}

PlanKeeps(g, s, k, m) ==
  LET keep == MoveAt(g, k, m).keep IN
  \/ s.keeps[k][m + 1] = -1 /\ keep \subseteq {Kept}
  \/ s.keeps[k][m + 1] = 0 /\ keep = {}
  \/ s.keeps[k][m + 1] > 0 /\ FromPlace(g, s, k, m, keep, s.keeps[k][m + 1])

(* A kernel cannot go on when it has made all its moves, as one of its     *)
(* queues is empty for good; and with one of them missing, some token is   *)
(* missing to a process further down.                                      *)
PlanBlocks(g, s, k) ==
  /\ \E e \in DOMAIN g.capacity :
       /\ s.reader[e] = Kernel(k)
       /\ Amount(MoveAt(g, k, 0).need, e) \in Nat \ {0}
       /\ \A m \in 0 .. Total(s) : s.put[e][m] <= s.put[e][Total(s)]
  /\ \E e \in DOMAIN g.capacity :
       /\ s.writer[e] = Kernel(k)
       /\ s.rank[s.reader[e]] < s.rank[Kernel(k)]
       /\ \A m \in 0 .. Total(s) - 1 : s.put[e][m] < s.taken[e][Total(s)]

Plan(g, span, s) ==
  /\ PlanTypes(g, s)
  /\ PlanEnds(g, s)
  /\ PlanChannels(g, span, s)
  /\ \A k \in DOMAIN g.kernels :
       /\ \A m \in 0 .. Total(s) - 1 :
            PlanTakes(g, s, k, m) /\ PlanPuts(g, s, k, m) /\ PlanKeeps(g, s, k, m)
       /\ PlanBlocks(g, s, k)

ArgumentFits(device, s, arg, n, i) ==
  /\ arg.dir = s.dirs[i]
  /\ s.ports[i] = IF arg.dir = "to" THEN Boards[device].to[arg.plio - 1]
                                    ELSE Boards[device].from[arg.plio - 1]
  /\ arg.items = s.items /\ arg.bytes = s.bytes /\ arg.rep = s.reps
  /\ arg.skip = (n - 1) * s.items

(* The arguments of every transaction are those of the plan; every phase   *)
(* reads what is there from the beginning or what an earlier one that is   *)
(* valid has brought back.                                                 *)
PhaseFits(p, s, h) ==
  LET ph == p.phases[h]
      buffer(i) == ph.transactions[1][i].buf
  IN
  /\ ph.mode \in {"FUNC", "PERF"}
  /\ ph.asks = "valid" \/ (ph.asks \in {"always", "unset"} /\ ph.mode = "FUNC")
  /\ Len(ph.transactions) = s.parts
  /\ \A n \in 1 .. s.parts :
       /\ DOMAIN ph.transactions[n] = 1 .. s.channels
       /\ \A i \in 1 .. s.channels :
            /\ ArgumentFits(p.device, s, ph.transactions[n][i], n, i)
            /\ ph.transactions[n][i].buf = buffer(i)
  /\ \A i \in 1 .. s.channels : buffer(i) \in DOMAIN p.data
  /\ \A i, j \in 1 .. s.channels :
       i # j /\ s.dirs[j] = "from" => buffer(i) # buffer(j)
  /\ \A b \in ph.golden :
       p.span = 1 /\ \E i \in 1 .. s.channels : s.dirs[i] = "from" /\ buffer(i) = b

InputsThere(p, s, h) ==
  \A i \in 1 .. s.channels : s.dirs[i] = "to" =>
    LET b == p.phases[h].transactions[1][i].buf IN
    IF h = 1
      THEN p.span = 1 => \A x \in 1 .. Length(s) : p.data[b][x] = x
      ELSE \E j \in 1 .. s.channels :
             /\ p.phases[h - 1].transactions[1][j].buf = b
             /\ s.dirs[j] = "to" \/ p.phases[h - 1].mode = "FUNC"

Fitting(p, s) ==
  /\ Plan(p.graph, p.span, s)
  /\ p.span \in Nat \ {0}
  /\ Len(p.phases) \in Nat \ {0}
  /\ \A h \in 1 .. Len(p.phases) : PhaseFits(p, s, h) /\ InputsThere(p, s, h)
  /\ p.data \in [DOMAIN p.data -> [1 .. Length(s) -> Nat]]
  /\ Boards[p.device].depth \in Nat

HasPlan(p) == \E s : Fitting(p, s)

-----------------------------------------------------------------------------
(* The invariants, about the plan of the program that runs.                *)
ThePlan == CHOOSE s : Fitting(program, s)
Moves == Total(ThePlan)
Tokens == [place : Nat \X Nat \X Nat, value : Nat]

TypeInv ==
  /\ phase \in 1 .. Len(program.phases)
  /\ submitted \in 0 .. ThePlan.parts /\ done \in 0 .. submitted
  /\ queue \in [DOMAIN Graph.capacity -> Seq(Tokens)]
  /\ DOMAIN at = DOMAIN Graph.kernels
  /\ kept \in [DOMAIN Graph.kernels -> SUBSET Tokens]
  /\ bufs \in [DOMAIN program.data -> [1 .. Length(ThePlan) -> Nat]]
  /\ IF moved = << >>
       THEN got = << >>
       ELSE /\ done < submitted
            /\ moved \in [1 .. ThePlan.channels -> 0 .. Moves]
            /\ got \in [1 .. ThePlan.channels -> Seq(Tokens)]

(* Where the program is and how many transactions it has handed over.      *)
ControlInv ==
  /\ pc \in {"start", "ready"} => submitted = 0
  /\ pc = "graph" => submitted < ThePlan.parts
  /\ pc = "submitted" => submitted = ThePlan.parts
  /\ pc \in {"joined", "waited"} => done = ThePlan.parts

(* Values are told apart unless a token stands for a tile or the URAM has  *)
(* been written over.                                                      *)
Valid == ~(Now.mode = "PERF" /\ ThePlan.bytes > Capacity)
Exact == Span = 1 /\ Valid
Value(f) == done * ThePlan.items + ((f - 1) % ThePlan.items) + 1
Is(token, f) ==
  /\ token.place = <<phase, done + 1, f>>
  /\ Exact => token.value = Value(f)

(* After c[a] moves of each process a: where the kernels are, which tokens *)
(* are in the queues and which the kernels keep.                           *)
KernelsInv(c) ==
  \A k \in DOMAIN Graph.kernels :
    /\ at[k] = InRound(Graph, k, c[Kernel(k)])
    /\ LET f == ThePlan.keeps[k][c[Kernel(k)]] IN
       f # -1 => \A t \in kept[k] : f # 0 /\ Is(t, f)

QueuesInv(c) ==
  \A e \in DOMAIN Graph.capacity :
    LET p == ThePlan.put[e][c[ThePlan.writer[e]]]
        t == ThePlan.taken[e][c[ThePlan.reader[e]]]
    IN /\ p = t + Len(queue[e])
       /\ \A j \in 1 .. Len(queue[e]) : Is(queue[e][j], ThePlan.index[e][t + j])

ChannelsInv(c) ==
  IF moved = << >>
    THEN c = [a \in Actors(Graph, ThePlan) |-> 0]
    ELSE \A i \in 1 .. ThePlan.channels :
           /\ c[Channel(i)] = moved[i]
           /\ ThePlan.dirs[i] = "to" => got[i] = << >>
           /\ ThePlan.dirs[i] = "from" =>
                /\ Len(got[i]) = moved[i]
                /\ \A n \in 1 .. moved[i] : Is(got[i][n], ((n - 1) \div Span) + 1)

Counts == [Actors(Graph, ThePlan) -> 0 .. Moves]
InStep(c) == KernelsInv(c) /\ QueuesInv(c) /\ ChannelsInv(c)

(* What a phase reads is as the program has made it, and what has come     *)
(* back already is equal to it.                                            *)
BuffersInv ==
  \A i \in 1 .. ThePlan.channels :
    LET b == Now.transactions[1][i].buf IN
    /\ ThePlan.dirs[i] = "to" /\ Span = 1 => \A x \in 1 .. Length(ThePlan) : bufs[b][x] = x
    /\ ThePlan.dirs[i] = "from" /\ Exact =>
         \A x \in 1 .. done * ThePlan.items : bufs[b][x] = x

IInv ==
  /\ Fitting(program, ThePlan)
  /\ TypeInv
  /\ ControlInv
  /\ \E c \in Counts : InStep(c)
  /\ BuffersInv
  /\ ~errorCount

-----------------------------------------------------------------------------
(* Rounds, queues and tokens.                                              *)

(* The round goes on modulo its length.                                    *)
LEMMA NextInRound ==
  ASSUME NEW n \in Nat \ {0}, NEW m \in Nat
  PROVE  ((m % n) + 1) % n = (m + 1) % n
<1> DEFINE q == m \div n
           r == m % n
<1>1. q \in Int /\ r \in 0 .. n - 1 /\ m = n * q + r
  BY Division
<1> HIDE DEF q, r
<1>0. n * q \in Int
  BY <1>1
<1>2. CASE r + 1 < n
  <2>0. m + 1 \in Int /\ r + 1 \in Int /\ r + 1 \in 0 .. n - 1
    BY <1>1, <1>2
  <2>1. m + 1 = n * q + (r + 1)
    BY <1>0, <1>1
  <2>2. (m + 1) % n = r + 1
    BY <1>1, <2>0, <2>1, DivisionUnique
  <2>3. r + 1 = n * 0 + (r + 1)
    BY <1>1
  <2>4. (r + 1) % n = r + 1
    BY <2>0, <2>3, DivisionUnique
  <2> QED BY <2>2, <2>4 DEF r
<1>3. CASE r + 1 = n
  <2>1. m + 1 = n * (q + 1) + 0 /\ q + 1 \in Int
    <3>1. n * (q + 1) = n * q + n
      BY <1>1
    <3> QED BY <1>0, <1>1, <1>3, <3>1
  <2>2. (m + 1) % n = 0
    BY <2>1, DivisionUnique
  <2>3. r + 1 = n * 1 + 0
    BY <1>3
  <2>4. (r + 1) % n = 0
    BY <1>1, <2>3, DivisionUnique
  <2> QED BY <2>2, <2>4 DEF r
<1> QED BY <1>1, <1>2, <1>3

(* The first move of all is the first of a round.                          *)
LEMMA FirstInRound ==
  ASSUME NEW n \in Nat \ {0}, NEW m \in Int, m = 0
  PROVE  m % n = 0 /\ m \div n = 0
<1>1. m = n * 0 + 0
  OBVIOUS
<1> QED BY <1>1, DivisionUnique

(* A move takes from the front of a queue and puts at its end.             *)
LEMMA TakeAndPut ==
  ASSUME NEW T, NEW q \in Seq(T), NEW a \in 0 .. Len(q), NEW w \in Nat, NEW r \in [1 .. w -> T]
  PROVE  LET z == SubSeq(q, a + 1, Len(q)) \o r IN
         /\ z \in Seq(T)
         /\ Len(z) = Len(q) - a + w
         /\ \A j \in 1 .. Len(z) :
              z[j] = IF j <= Len(q) - a THEN q[a + j] ELSE r[j - (Len(q) - a)]
<1> DEFINE s == SubSeq(q, a + 1, Len(q))
<1>1. Len(q) \in Nat /\ \A j \in 1 .. Len(q) : q[j] \in T
  BY LenProperties, ElementOfSeq
<1>2. /\ s \in Seq(T) /\ Len(s) = Len(q) - a
      /\ \A j \in 1 .. Len(q) - a : s[j] = q[a + j]
  <2>1. CASE a < Len(q)
    <3>1. a + 1 \in 1 .. Len(q) /\ Len(q) \in (a + 1) - 1 .. Len(q)
      BY <1>1, <2>1
    <3>2. /\ s \in Seq(T) /\ Len(s) = Len(q) - (a + 1) + 1
          /\ \A j \in 1 .. Len(q) - (a + 1) + 1 : s[j] = q[(a + 1) + j - 1]
      BY <1>1, <2>1, <3>1, SubSeqProperties
    <3>3. Len(q) - (a + 1) + 1 = Len(q) - a /\ \A j \in 1 .. Len(q) - a : (a + 1) + j - 1 = a + j
      BY <1>1
    <3> HIDE DEF s
    <3> QED BY <1>1, <3>2, <3>3
  <2>2. CASE a = Len(q)
    <3>1. s = << >>
      BY <1>1, <2>2, SubSeqEmpty
    <3> QED BY <1>1, <2>2, <3>1
  <2> QED BY <1>1, <2>1, <2>2
<1>3. r \in Seq(T) /\ Len(r) = w
  BY IsASeq, LenProperties
<1> HIDE DEF s
<1>4. /\ s \o r \in Seq(T) /\ Len(s \o r) = Len(s) + Len(r)
      /\ \A j \in 1 .. Len(s) + Len(r) :
           (s \o r)[j] = IF j <= Len(s) THEN s[j] ELSE r[j - Len(s)]
  BY <1>2, <1>3, ConcatProperties
<1>5. \A j \in 1 .. Len(q) - a + w :
        (s \o r)[j] = IF j <= Len(q) - a THEN q[a + j] ELSE r[j - (Len(q) - a)]
  BY <1>1, <1>2, <1>3, <1>4
<1> QED BY <1>2, <1>3, <1>4, <1>5 DEF s

(* The common value of one.                                                *)
LEMMA CommonOfOne ==
  ASSUME NEW x, NEW none
  PROVE  Common({x}, none) = x
BY FS_Singleton DEF Common

(* A common value is one of the values, or none.                           *)
LEMMA CommonType ==
  ASSUME NEW T, NEW S \in SUBSET T, S # {}, NEW none \in T
  PROVE  Common(S, none) \in T
BY DEF Common

(* What is made of tokens from one place is from that place.               *)
LEMMA CombinedIs ==
  ASSUME NEW S \in SUBSET Tokens, S # {}, NEW f, \A t \in S : Is(t, f)
  PROVE  Combined(S) \in Tokens /\ Is(Combined(S), f)
<1> DEFINE places == {t.place : t \in S}
           values == {t.value : t \in S}
<1>1. places = {<<phase, done + 1, f>>}
  BY DEF Is
<1>2. Exact => values = {Value(f)}
  BY DEF Is
<1>3. Common(places, NoPlace) = <<phase, done + 1, f>>
  BY <1>1, CommonOfOne
<1>4. Exact => Common(values, 0) = Value(f)
  BY <1>2, CommonOfOne
<1>5. Common(values, 0) \in Nat
  <2>1. values \in SUBSET Nat /\ values # {}
    BY DEF Tokens
  <2> HIDE DEF values
  <2> QED BY <2>1, CommonType
<1>6. Common(places, NoPlace) \in Nat \X Nat \X Nat
  <2>1. places \in SUBSET (Nat \X Nat \X Nat) /\ places # {} /\ NoPlace \in Nat \X Nat \X Nat
    BY DEF Tokens, NoPlace
  <2> HIDE DEF places
  <2> QED BY <2>1, CommonType
<1>7. Combined(S) = [place |-> Common(places, NoPlace), value |-> Common(values, 0)]
  BY DEF Combined, Token
<1> HIDE DEF places, values
<1>8. Combined(S) \in Tokens
  BY <1>5, <1>6, <1>7 DEF Tokens
<1> QED BY <1>3, <1>4, <1>7, <1>8 DEF Is

-----------------------------------------------------------------------------
(* The plan and the arguments of the program that runs.                    *)

(* While the program stays the same, so does all that depends on it.       *)
LEMMA PlanKept ==
  ASSUME UNCHANGED program
  PROVE  /\ ThePlan' = ThePlan /\ Graph' = Graph /\ Span' = Span /\ Moves' = Moves
         /\ Counts' = Counts /\ Actors(Graph, ThePlan)' = Actors(Graph, ThePlan)
         /\ Fitting(program, ThePlan) => Fitting(program, ThePlan)'
<1>1. ThePlan' = ThePlan
  BY DEF ThePlan
<1>2. Graph' = Graph /\ Span' = Span
  BY DEF Graph, Span
<1>3. Moves' = Moves
  BY <1>1 DEF Moves
<1>4. Actors(Graph, ThePlan)' = Actors(Graph, ThePlan)
  BY <1>1, <1>2
<1>5. Counts' = Counts
  BY <1>3, <1>4 DEF Counts
<1>6. Fitting(program, ThePlan) => Fitting(program, ThePlan)'
  BY <1>1
<1> QED BY <1>1, <1>2, <1>3, <1>4, <1>5, <1>6

(* The parts of a plan that fits, of the program that runs.                *)
LEMMA PlanFacts ==
  ASSUME Fitting(program, ThePlan)
  PROVE  /\ PlanTypes(Graph, ThePlan) /\ PlanEnds(Graph, ThePlan)
         /\ PlanChannels(Graph, Span, ThePlan)
         /\ \A k \in DOMAIN Graph.kernels :
              /\ \A m \in 0 .. Moves - 1 : /\ PlanTakes(Graph, ThePlan, k, m)
                                           /\ PlanPuts(Graph, ThePlan, k, m)
                                           /\ PlanKeeps(Graph, ThePlan, k, m)
              /\ PlanBlocks(Graph, ThePlan, k)
         /\ Moves \in Nat \ {0} /\ Span \in Nat \ {0}
         /\ Length(ThePlan) \in Nat \ {0}
<1>1. Plan(Graph, Span, ThePlan) /\ Span \in Nat \ {0}
  BY DEF Fitting, Graph, Span
<1>2. PlanTypes(Graph, ThePlan)
  BY <1>1 DEF Plan
<1>3. Moves \in Nat \ {0} /\ Length(ThePlan) \in Nat \ {0}
  <2> DEFINE a == ThePlan.items
             b == ThePlan.reps
             p == ThePlan.parts
  <2>1. a \in Nat \ {0} /\ b \in Nat \ {0} /\ p \in Nat \ {0}
    BY <1>2 DEF PlanTypes
  <2> HIDE DEF a, b, p
  <2>2. a * b \in Nat \ {0} /\ a * p \in Nat \ {0}
    BY <2>1
  <2> QED BY <2>2 DEF Moves, Total, Length, a, b, p
<1> QED BY <1>1, <1>2, <1>3 DEF Plan, Moves

(* A kernel that has made no move or all is at its beginning.              *)
LEMMA RoundFacts ==
  ASSUME Fitting(program, ThePlan), NEW k \in DOMAIN Graph.kernels
  PROVE  /\ InRound(Graph, k, 0) = 1 /\ InRound(Graph, k, Moves) = 1
         /\ \A m \in Nat : (InRound(Graph, k, m) % Len(Graph.kernels[k])) + 1
                             = InRound(Graph, k, m + 1)
<1> DEFINE n == Len(Graph.kernels[k])
<1>1. n \in Nat \ {0} /\ Moves % n = 0
  BY PlanFacts DEF PlanEnds, Moves
<1> HIDE DEF n
<1>2. (0 % n) + 1 = 1
  BY <1>1, FirstInRound
<1>3. (Moves % n) + 1 = 1
  BY <1>1
<1>4. \A m \in Nat : (((m % n) + 1) % n) + 1 = ((m + 1) % n) + 1
  BY <1>1, NextInRound
<1> QED BY <1>2, <1>3, <1>4 DEF InRound, n

(* The present phase is one that fits.                                     *)
LEMMA PhaseFacts ==
  ASSUME Fitting(program, ThePlan), TypeInv
  PROVE  /\ PhaseFits(program, ThePlan, phase) /\ InputsThere(program, ThePlan, phase)
         /\ Len(program.phases) \in Nat \ {0}
         /\ phase \in Nat \ {0} /\ submitted \in Nat /\ done \in Nat
         /\ Len(Now.transactions) = ThePlan.parts
<1>1. Len(program.phases) \in Nat \ {0} /\ phase \in 1 .. Len(program.phases)
  BY DEF Fitting, TypeInv
<1>2. PhaseFits(program, ThePlan, phase) /\ InputsThere(program, ThePlan, phase)
  BY <1>1 DEF Fitting
<1>3. Len(Now.transactions) = ThePlan.parts
  BY <1>2 DEF PhaseFits, Now
<1>4. submitted \in Nat /\ done \in Nat
  BY PlanFacts DEF TypeInv, PlanTypes
<1> QED BY <1>1, <1>2, <1>3, <1>4

(* The arguments of the present transaction are those of the plan.         *)
LEMMA ArgFacts ==
  ASSUME Fitting(program, ThePlan), TypeInv, done < ThePlan.parts
  PROVE  /\ DOMAIN Args = 1 .. ThePlan.channels
         /\ \A i \in 1 .. ThePlan.channels :
              /\ Args[i].dir = ThePlan.dirs[i]
              /\ ThePlan.ports[i] = IF Args[i].dir = "to" THEN Board.to[Args[i].plio - 1]
                                                          ELSE Board.from[Args[i].plio - 1]
              /\ Args[i].items = ThePlan.items /\ Args[i].bytes = ThePlan.bytes
              /\ Args[i].rep = ThePlan.reps /\ Items(i) = Moves
              /\ Args[i].skip = done * ThePlan.items
              /\ Args[i].buf = Now.transactions[1][i].buf
              /\ Args[i].buf \in DOMAIN program.data
<1>1. PlanTypes(Graph, ThePlan) /\ PhaseFits(program, ThePlan, phase)
  BY PlanFacts, PhaseFacts
<1>2. done + 1 \in 1 .. ThePlan.parts /\ (done + 1) - 1 = done
  BY <1>1, PhaseFacts DEF PlanTypes
<1>3. DOMAIN Args = 1 .. ThePlan.channels
  BY <1>1, <1>2 DEF PhaseFits, Args, Now
<1>4. ASSUME NEW i \in 1 .. ThePlan.channels
      PROVE  /\ Args[i].dir = ThePlan.dirs[i]
             /\ ThePlan.ports[i] = IF Args[i].dir = "to" THEN Board.to[Args[i].plio - 1]
                                                         ELSE Board.from[Args[i].plio - 1]
             /\ Args[i].items = ThePlan.items /\ Args[i].bytes = ThePlan.bytes
             /\ Args[i].rep = ThePlan.reps
             /\ Args[i].skip = done * ThePlan.items
             /\ Args[i].buf = Now.transactions[1][i].buf
             /\ Args[i].buf \in DOMAIN program.data
  <2>1. Args[i] = program.phases[phase].transactions[done + 1][i]
    BY DEF Args, Now
  <2> HIDE DEF Args
  <2>2. \A n \in 1 .. ThePlan.parts :
          LET arg == program.phases[phase].transactions[n][i] IN
          /\ arg.dir = ThePlan.dirs[i]
          /\ ThePlan.ports[i] = IF arg.dir = "to" THEN Board.to[arg.plio - 1]
                                                  ELSE Board.from[arg.plio - 1]
          /\ arg.items = ThePlan.items /\ arg.bytes = ThePlan.bytes /\ arg.rep = ThePlan.reps
          /\ arg.skip = (n - 1) * ThePlan.items
          /\ arg.buf = Now.transactions[1][i].buf
    <3>1. \A n \in 1 .. ThePlan.parts :
            LET arg == program.phases[phase].transactions[n][i] IN
            /\ ArgumentFits(program.device, ThePlan, arg, n, i)
            /\ arg.buf = Now.transactions[1][i].buf
      <4>1. \A n \in 1 .. ThePlan.parts : \A j \in 1 .. ThePlan.channels :
              /\ ArgumentFits(program.device, ThePlan,
                              program.phases[phase].transactions[n][j], n, j)
              /\ program.phases[phase].transactions[n][j].buf
                   = program.phases[phase].transactions[1][j].buf
        BY <1>1 DEF PhaseFits
      <4> QED BY <4>1 DEF Now
    <3> QED BY <3>1 DEF ArgumentFits, Board
  <2>3. Now.transactions[1][i].buf \in DOMAIN program.data
    BY <1>1 DEF PhaseFits, Now
  <2> QED BY <1>2, <2>1, <2>2, <2>3
<1> QED BY <1>3, <1>4 DEF Items, Moves, Total

-----------------------------------------------------------------------------
(* The steps of the program.                                               *)

(* Empty queues fit counts for which everything put has been taken.        *)
LEMMA EmptyQueues ==
  ASSUME NEW c,
         \A e \in DOMAIN Graph.capacity :
           /\ queue[e] = << >>
           /\ ThePlan.put[e][c[ThePlan.writer[e]]] = 0
           /\ ThePlan.taken[e][c[ThePlan.reader[e]]] = 0
  PROVE  QueuesInv(c)
<1> SUFFICES ASSUME NEW e \in DOMAIN Graph.capacity
             PROVE  LET p == ThePlan.put[e][c[ThePlan.writer[e]]]
                        t == ThePlan.taken[e][c[ThePlan.reader[e]]]
                    IN /\ p = t + Len(queue[e])
                       /\ \A j \in 1 .. Len(queue[e]) : Is(queue[e][j], ThePlan.index[e][t + j])
  BY DEF QueuesInv
<1> DEFINE p == ThePlan.put[e][c[ThePlan.writer[e]]]
           t == ThePlan.taken[e][c[ThePlan.reader[e]]]
<1>1. p = 0 /\ t = 0 /\ Len(queue[e]) = 0
  BY EmptySeq
<1> HIDE DEF p, t
<1>2. p = t + Len(queue[e])
  BY ONLY <1>1
<1>3. 1 .. Len(queue[e]) = {}
  BY ONLY <1>1
<1>4. \A j \in 1 .. Len(queue[e]) : Is(queue[e][j], ThePlan.index[e][t + j])
  BY ONLY <1>3
<1> QED BY <1>2, <1>4 DEF p, t

(* A program that has a plan starts in step.                               *)
LEMMA InStepInit ==
  ASSUME \A i \in DOMAIN Programs : HasPlan(Programs[i]), Init
  PROVE  IInv
<1>1. Fitting(program, ThePlan)
  BY DEF Init, HasPlan, ThePlan
<1>2. /\ PlanTypes(Graph, ThePlan) /\ PlanEnds(Graph, ThePlan)
      /\ Moves \in Nat \ {0}
  BY <1>1, PlanFacts
<1>3. TypeInv
  <2>1. phase \in 1 .. Len(program.phases)
    BY <1>1 DEF Init, Fitting
  <2>2. submitted \in 0 .. ThePlan.parts /\ done \in 0 .. submitted
    BY <1>2 DEF Init, PlanTypes
  <2>3. /\ queue \in [DOMAIN Graph.capacity -> Seq(Tokens)]
        /\ kept \in [DOMAIN Graph.kernels -> SUBSET Tokens]
        /\ DOMAIN at = DOMAIN Graph.kernels
    BY EmptySeq DEF Init
  <2>4. bufs \in [DOMAIN program.data -> [1 .. Length(ThePlan) -> Nat]]
    BY <1>1 DEF Init, Fitting
  <2> QED BY <2>1, <2>2, <2>3, <2>4 DEF Init, TypeInv
<1>4. ControlInv
  BY DEF Init, ControlInv
<1>5. \E c \in Counts : InStep(c)
  <2> DEFINE c == [a \in Actors(Graph, ThePlan) |-> 0]
  <2>1. c \in Counts
    BY <1>2 DEF Counts
  <2>2. \A a \in Actors(Graph, ThePlan) : c[a] = 0
    OBVIOUS
  <2>3. \A k \in DOMAIN Graph.kernels : Kernel(k) \in Actors(Graph, ThePlan)
    BY DEF Actors
  <2>4. KernelsInv(c)
    <3> SUFFICES ASSUME NEW k \in DOMAIN Graph.kernels
                 PROVE  at[k] = InRound(Graph, k, c[Kernel(k)]) /\ kept[k] = {}
      BY DEF KernelsInv
    <3>1. c[Kernel(k)] = 0
      BY <2>2, <2>3
    <3>2. at[k] = 1 /\ kept[k] = {}
      BY DEF Init
    <3> HIDE DEF c
    <3> QED BY <1>1, <3>1, <3>2, RoundFacts
  <2>5. QueuesInv(c)
    <3> SUFFICES ASSUME NEW e \in DOMAIN Graph.capacity
                 PROVE  /\ queue[e] = << >>
                        /\ ThePlan.put[e][c[ThePlan.writer[e]]] = 0
                        /\ ThePlan.taken[e][c[ThePlan.reader[e]]] = 0
      BY EmptyQueues
    <3>1. ThePlan.writer[e] \in Actors(Graph, ThePlan) /\ ThePlan.reader[e] \in Actors(Graph, ThePlan)
      BY <1>2 DEF PlanTypes
    <3> HIDE DEF c
    <3> QED BY <1>2, <2>2, <3>1 DEF Init, PlanEnds
  <2>6. ChannelsInv(c)
    BY DEF Init, ChannelsInv
  <2> QED BY <2>1, <2>4, <2>5, <2>6 DEF InStep
<1>6. BuffersInv
  <2>1. InputsThere(program, ThePlan, 1) /\ phase = 1 /\ bufs = program.data /\ done = 0
    BY <1>1, <1>3, PhaseFacts DEF Init
  <2>2. 1 .. done * ThePlan.items = {}
    BY <1>2, <2>1 DEF PlanTypes
  <2> QED BY <2>1, <2>2 DEF InputsThere, BuffersInv, Now, Span
<1> QED BY <1>1, <1>3, <1>4, <1>5, <1>6 DEF Init, IInv

(* What a token is said to be depends on program, phase and transaction.   *)
LEMMA IsKept ==
  ASSUME UNCHANGED <<program, phase, done>>
  PROVE  /\ Exact' = Exact /\ Now' = Now
         /\ \A t, f : Is(t, f)' = Is(t, f)
<1>1. ThePlan' = ThePlan /\ Graph' = Graph /\ Span' = Span
  BY PlanKept
<1>2. Exact' = Exact /\ Now' = Now
  BY <1>1 DEF Exact, Valid, Now, Capacity, Board
<1> QED BY <1>1, <1>2 DEF Is, Value

(* A step of the program alone leaves graph, channels and vectors alone.   *)
LEMMA ProgramStep ==
  ASSUME IInv, UNCHANGED <<program, phase, queue, at, kept, done, moved, got, bufs, errorCount>>,
         submitted' \in submitted .. ThePlan.parts, ControlInv'
  PROVE  IInv'
<1> USE DEF IInv
<1>1. /\ ThePlan' = ThePlan /\ Graph' = Graph /\ Span' = Span /\ Moves' = Moves
      /\ Counts' = Counts /\ Fitting(program, ThePlan)'
  BY PlanKept
<1>2. submitted \in Nat /\ done \in Nat /\ ThePlan.parts \in Nat
  BY PhaseFacts, PlanFacts DEF PlanTypes
<1>3. TypeInv'
  BY <1>1, <1>2 DEF TypeInv
<1>4. Exact' = Exact /\ Now' = Now
  BY IsKept
<1>5. \A t, f : Is(t, f)' = Is(t, f)
  BY IsKept
<1>6. \A c : InStep(c)' = InStep(c)
  <2> TAKE c
  <2>1. KernelsInv(c)' = KernelsInv(c)
    BY <1>1, <1>5 DEF KernelsInv
  <2>2. QueuesInv(c)' = QueuesInv(c)
    BY <1>1, <1>5 DEF QueuesInv
  <2>3. ChannelsInv(c)' = ChannelsInv(c)
    BY <1>1, <1>5 DEF ChannelsInv
  <2> QED BY <2>1, <2>2, <2>3 DEF InStep
<1>7. BuffersInv'
  BY <1>1, <1>4 DEF BuffersInv
<1> QED BY <1>1, <1>3, <1>6, <1>7

(* The calls that change the program counter only.                         *)
LEMMA ControlSteps ==
  ASSUME IInv,
         \/ Construct \/ RunAIEGraph \/ RunTestHarness \/ WaitForRes \/ WaitForGraph
         \/ Close \/ Throw \/ UNCHANGED vars
  PROVE  IInv'
<1> USE DEF IInv
<1>1. submitted \in 0 .. ThePlan.parts /\ done \in 0 .. submitted /\ ThePlan.parts \in Nat \ {0}
  BY PlanFacts DEF TypeInv, PlanTypes
<1>2. UNCHANGED program => ThePlan' = ThePlan
  BY PlanKept
<1> USE DEF graphVars, runVars, Enters
<1>3. CASE Construct
  <2>1. ControlInv'
    BY <1>1, <1>2, <1>3 DEF Construct, ControlInv
  <2> QED BY <1>1, <1>3, <2>1, ProgramStep DEF Construct
<1>4. CASE RunAIEGraph
  <2>1. ControlInv'
    BY <1>1, <1>2, <1>4 DEF RunAIEGraph, ControlInv
  <2> QED BY <1>1, <1>4, <2>1, ProgramStep DEF RunAIEGraph
<1>5. CASE RunTestHarness
  <2>1. submitted < ThePlan.parts /\ Len(Now.transactions) = ThePlan.parts
    BY <1>5, PhaseFacts DEF RunTestHarness, ControlInv
  <2>2. submitted' \in submitted .. ThePlan.parts
    BY <1>1, <1>5, <2>1 DEF RunTestHarness
  <2>3. ControlInv'
    BY <1>1, <1>2, <1>5, <2>1 DEF RunTestHarness, ControlInv
  <2> QED BY <1>5, <2>2, <2>3, ProgramStep DEF RunTestHarness
<1>6. CASE WaitForRes
  <2>1. ControlInv'
    BY <1>1, <1>2, <1>6 DEF WaitForRes, ControlInv
  <2> QED BY <1>1, <1>6, <2>1, ProgramStep DEF WaitForRes
<1>7. CASE WaitForGraph
  <2>1. ControlInv'
    BY <1>1, <1>2, <1>7 DEF WaitForGraph, ControlInv
  <2> QED BY <1>1, <1>7, <2>1, ProgramStep DEF WaitForGraph
<1>8. CASE Close
  <2>1. ControlInv'
    BY <1>1, <1>2, <1>8 DEF Close, ControlInv
  <2> QED BY <1>1, <1>8, <2>1, ProgramStep DEF Close
<1>9. CASE Throw
  <2>1. ControlInv'
    BY <1>1, <1>2, <1>9 DEF Throw, ControlInv
  <2> QED BY <1>1, <1>9, <2>1, ProgramStep DEF Throw
<1>10. CASE UNCHANGED vars
  <2>1. ControlInv'
    BY <1>1, <1>2, <1>10 DEF vars, ControlInv
  <2> QED BY <1>1, <1>10, <2>1, ProgramStep DEF vars
<1> QED BY <1>3, <1>4, <1>5, <1>6, <1>7, <1>8, <1>9, <1>10

-----------------------------------------------------------------------------
(* Transactions begin and end with an empty graph.                         *)

(* A set of natural numbers has a least.                                   *)
LEMMA LeastNat ==
  ASSUME NEW S \in SUBSET Nat, S # {}
  PROVE  \E x \in S : \A y \in S : x <= y
<1> DEFINE R == OpToRel(<, Nat)
<1>1. IsWellFoundedOn(R, Nat)
  BY NatLessThanWellFounded
<1>2. \A x, y \in Nat : <<y, x>> \in R <=> y < x
  BY DEF OpToRel
<1> HIDE DEF R
<1>3. \E x \in S : \A y \in S : ~(<<y, x>> \in R)
  BY <1>1, WFMin
<1>4. PICK x \in S : \A y \in S : ~(<<y, x>> \in R)
  BY <1>3
<1>5. \A y \in S : y \in Nat /\ x \in Nat /\ ~(y < x)
  BY <1>2, <1>4
<1>6. \A y \in S : x <= y
  BY <1>5
<1> QED BY <1>6

(* Counts and what a plan says of them are numbers.                        *)
LEMMA CountTypes ==
  ASSUME Fitting(program, ThePlan), NEW c \in Counts
  PROVE  /\ \A a \in Actors(Graph, ThePlan) : c[a] \in 0 .. Moves /\ c[a] \in Nat
         /\ \A k \in DOMAIN Graph.kernels : Kernel(k) \in Actors(Graph, ThePlan)
         /\ \A i \in 1 .. ThePlan.channels : Channel(i) \in Actors(Graph, ThePlan)
         /\ \A e \in DOMAIN Graph.capacity :
              /\ ThePlan.writer[e] \in Actors(Graph, ThePlan)
              /\ ThePlan.reader[e] \in Actors(Graph, ThePlan)
              /\ \A m \in Nat : /\ ThePlan.put[e][m] \in Nat /\ ThePlan.taken[e][m] \in Nat
                                /\ ThePlan.index[e][m] \in Nat
<1>1. PlanTypes(Graph, ThePlan) /\ Moves \in Nat
  BY PlanFacts
<1>2. \A a \in Actors(Graph, ThePlan) : c[a] \in 0 .. Moves /\ c[a] \in Nat
  BY <1>1 DEF Counts
<1>3. /\ \A k \in DOMAIN Graph.kernels : Kernel(k) \in Actors(Graph, ThePlan)
      /\ \A i \in 1 .. ThePlan.channels : Channel(i) \in Actors(Graph, ThePlan)
  BY DEF Actors
<1>4. \A e \in DOMAIN Graph.capacity :
        /\ ThePlan.writer[e] \in Actors(Graph, ThePlan)
        /\ ThePlan.reader[e] \in Actors(Graph, ThePlan)
        /\ \A m \in Nat : /\ ThePlan.put[e][m] \in Nat /\ ThePlan.taken[e][m] \in Nat
                          /\ ThePlan.index[e][m] \in Nat
  <2>1. /\ ThePlan.writer \in [DOMAIN Graph.capacity -> Actors(Graph, ThePlan)]
        /\ ThePlan.reader \in [DOMAIN Graph.capacity -> Actors(Graph, ThePlan)]
        /\ ThePlan.put \in [DOMAIN Graph.capacity -> [Nat -> Nat]]
        /\ ThePlan.taken \in [DOMAIN Graph.capacity -> [Nat -> Nat]]
        /\ ThePlan.index \in [DOMAIN Graph.capacity -> [Nat -> Nat]]
    BY <1>1 DEF PlanTypes
  <2> QED BY <2>1
<1> QED BY <1>2, <1>3, <1>4

(* When all channels have ended so have the kernels.                       *)
LEMMA AllMoved ==
  ASSUME IInv, NEW c \in Counts, InStep(c), moved # << >>,
         \A i \in 1 .. ThePlan.channels : moved[i] = Moves
  PROVE  \A a \in Actors(Graph, ThePlan) : c[a] = Moves
<1> USE DEF IInv
<1> DEFINE late == {a \in Actors(Graph, ThePlan) : c[a] # Moves}
           ranks == {ThePlan.rank[a] : a \in late}
<1>1. SUFFICES ASSUME late # {} PROVE FALSE
  OBVIOUS
<1>2. PlanTypes(Graph, ThePlan) /\ Moves \in Nat
      /\ \A k \in DOMAIN Graph.kernels : PlanBlocks(Graph, ThePlan, k)
  BY PlanFacts
<1>3. \A a \in Actors(Graph, ThePlan) : ThePlan.rank[a] \in Nat
  BY <1>2 DEF PlanTypes
<1>4. PICK a \in late : \A b \in late : ThePlan.rank[a] <= ThePlan.rank[b]
  <2>1. ranks \in SUBSET Nat /\ ranks # {}
    BY <1>1, <1>3
  <2>2. PICK x \in ranks : \A y \in ranks : x <= y
    <3> HIDE DEF ranks
    <3> QED BY <2>1, LeastNat
  <2> QED BY <2>2
<1>5. PICK k \in DOMAIN Graph.kernels : a = Kernel(k)
  <2>1. \A i \in 1 .. ThePlan.channels : c[Channel(i)] = Moves
    BY DEF InStep, ChannelsInv
  <2> QED BY <1>4, <2>1 DEF Actors
<1>6. PICK e \in DOMAIN Graph.capacity :
        /\ ThePlan.writer[e] = Kernel(k)
        /\ ThePlan.rank[ThePlan.reader[e]] < ThePlan.rank[Kernel(k)]
        /\ \A m \in 0 .. Moves - 1 : ThePlan.put[e][m] < ThePlan.taken[e][Moves]
  BY <1>2 DEF PlanBlocks, Moves
<1>7. c[ThePlan.reader[e]] = Moves
  <2>1. ThePlan.reader[e] \in Actors(Graph, ThePlan)
    BY CountTypes
  <2> QED BY <1>3, <1>4, <1>5, <1>6, <2>1
<1>8. c[Kernel(k)] \in 0 .. Moves - 1
  <2>1. c[Kernel(k)] \in 0 .. Moves /\ c[Kernel(k)] # Moves
    BY <1>4, <1>5, CountTypes
  <2> QED BY <1>2, <2>1
<1>9. ThePlan.put[e][c[Kernel(k)]] = ThePlan.taken[e][Moves] + Len(queue[e])
  BY <1>6, <1>7 DEF InStep, QueuesInv
<1>10. Len(queue[e]) \in Nat
  BY LenProperties DEF TypeInv
<1>11. ThePlan.put[e][c[Kernel(k)]] \in Nat /\ ThePlan.taken[e][Moves] \in Nat
  BY <1>2, <1>8, CountTypes
<1> QED BY <1>6, <1>8, <1>9, <1>10, <1>11

(* With all moves made, or none, there is nothing in the graph.            *)
LEMMA NothingInside ==
  ASSUME Fitting(program, ThePlan), TypeInv, NEW c \in Counts, KernelsInv(c), QueuesInv(c),
         NEW v \in {0, Moves}, \A a \in Actors(Graph, ThePlan) : c[a] = v
  PROVE  /\ \A e \in DOMAIN Graph.capacity : queue[e] = << >>
         /\ \A k \in DOMAIN Graph.kernels : at[k] = 1
         /\ \A k \in DOMAIN Graph.kernels : ThePlan.keeps[k][0] = 0 => kept[k] = {}
<1>1. PlanTypes(Graph, ThePlan) /\ PlanEnds(Graph, ThePlan) /\ Moves \in Nat \ {0}
  BY PlanFacts
<1>2. ASSUME NEW e \in DOMAIN Graph.capacity PROVE queue[e] = << >>
  <2>1. c[ThePlan.writer[e]] = v /\ c[ThePlan.reader[e]] = v
    BY CountTypes
  <2>2. ThePlan.put[e][v] = ThePlan.taken[e][v]
    BY <1>1 DEF PlanEnds, Moves
  <2>3. ThePlan.put[e][v] \in Nat
    BY <1>1, CountTypes
  <2>4. queue[e] \in Seq(Tokens) /\ Len(queue[e]) \in Nat
    BY LenProperties DEF TypeInv
  <2>5. ThePlan.put[e][c[ThePlan.writer[e]]] = ThePlan.taken[e][c[ThePlan.reader[e]]] + Len(queue[e])
    BY DEF QueuesInv
  <2>6. ThePlan.put[e][v] = ThePlan.put[e][v] + Len(queue[e])
    BY ONLY <2>1, <2>2, <2>5
  <2>7. Len(queue[e]) = 0
    <3> DEFINE n == ThePlan.put[e][v]
               l == Len(queue[e])
    <3>1. n \in Nat /\ l \in Nat /\ n = n + l
      BY <2>3, <2>4, <2>6
    <3> HIDE DEF n, l
    <3>2. l = 0
      BY ONLY <3>1
    <3> QED BY <3>2 DEF l
  <2> QED BY <2>4, <2>7, EmptySeq
<1>3. ASSUME NEW k \in DOMAIN Graph.kernels
      PROVE  at[k] = 1 /\ (ThePlan.keeps[k][0] = 0 => kept[k] = {})
  <2>1. c[Kernel(k)] = v
    BY CountTypes
  <2>2. InRound(Graph, k, v) = 1
    BY RoundFacts
  <2>3. at[k] = InRound(Graph, k, v)
    BY <2>1 DEF KernelsInv
  <2>4. ThePlan.keeps[k][v] = ThePlan.keeps[k][0]
    BY <1>1 DEF PlanEnds, Moves
  <2>5. ThePlan.keeps[k][0] = 0 => kept[k] = {}
    BY <2>1, <2>4 DEF KernelsInv
  <2> QED BY <2>2, <2>3, <2>5
<1> QED BY <1>2, <1>3

(* An empty graph fits a new transaction.                                  *)
LEMMA Restart ==
  ASSUME Fitting(program, ThePlan), UNCHANGED <<program, queue, at, kept>>,
         \A e \in DOMAIN Graph.capacity : queue[e] = << >>,
         \A k \in DOMAIN Graph.kernels : at[k] = 1,
         \A k \in DOMAIN Graph.kernels : ThePlan.keeps[k][0] = 0 => kept[k] = {},
         moved' = << >>
  PROVE  \E c \in Counts' : InStep(c)'
<1>1. /\ ThePlan' = ThePlan /\ Graph' = Graph /\ Counts' = Counts
      /\ Actors(Graph, ThePlan)' = Actors(Graph, ThePlan)
  BY PlanKept
<1>2. PlanTypes(Graph, ThePlan) /\ PlanEnds(Graph, ThePlan) /\ Moves \in Nat \ {0}
  BY PlanFacts
<1>3. PICK c \in Counts : c = [a \in Actors(Graph, ThePlan) |-> 0]
  <2>1. [a \in Actors(Graph, ThePlan) |-> 0] \in Counts
    BY <1>2 DEF Counts
  <2> QED BY <2>1
<1>4. /\ \A k \in DOMAIN Graph.kernels : c[Kernel(k)] = 0
      /\ \A e \in DOMAIN Graph.capacity : c[ThePlan.writer[e]] = 0 /\ c[ThePlan.reader[e]] = 0
  <2>1. \A a \in Actors(Graph, ThePlan) : c[a] = 0
    BY <1>3
  <2> QED BY <2>1, CountTypes
<1>5. \A k \in DOMAIN Graph.kernels : InRound(Graph, k, c[Kernel(k)]) = 1
  BY <1>4, RoundFacts
<1>6. ChannelsInv(c)'
  BY <1>1, <1>3 DEF ChannelsInv
<1>7. KernelsInv(c)'
  <2> SUFFICES ASSUME NEW k \in DOMAIN Graph.kernels
               PROVE  /\ at[k] = InRound(Graph, k, c[Kernel(k)])
                      /\ ThePlan.keeps[k][c[Kernel(k)]] # -1 => kept[k] = {}
    BY <1>1 DEF KernelsInv
  <2>1. ThePlan.keeps[k][0] \in {-1, 0}
    BY <1>2 DEF PlanEnds
  <2> QED BY <1>4, <1>5, <2>1
<1>8. QueuesInv(c)'
  <2> SUFFICES ASSUME NEW e \in DOMAIN Graph.capacity
               PROVE  LET p == ThePlan.put[e][c[ThePlan.writer[e]]]
                          t == ThePlan.taken[e][c[ThePlan.reader[e]]]
                      IN /\ p = t + Len(queue'[e])
                         /\ \A j \in 1 .. Len(queue'[e]) : Is(queue[e][j], ThePlan.index[e][t + j])'
    BY <1>1 DEF QueuesInv
  <2> DEFINE p == ThePlan.put[e][c[ThePlan.writer[e]]]
             t == ThePlan.taken[e][c[ThePlan.reader[e]]]
  <2>1. c[ThePlan.writer[e]] = 0 /\ c[ThePlan.reader[e]] = 0
    BY <1>4
  <2>2. ThePlan.put[e][0] = 0 /\ ThePlan.taken[e][0] = 0
    BY <1>2 DEF PlanEnds
  <2>3. p = 0 /\ t = 0
    BY <2>1, <2>2
  <2>4. Len(queue'[e]) = 0
    BY EmptySeq
  <2> HIDE DEF p, t
  <2>5. p = t + Len(queue'[e])
    BY ONLY <2>3, <2>4
  <2>6. 1 .. Len(queue'[e]) = {}
    BY ONLY <2>4
  <2>7. \A j \in 1 .. Len(queue'[e]) : Is(queue[e][j], ThePlan.index[e][t + j])'
    BY ONLY <2>6
  <2> QED BY <2>5, <2>7 DEF p, t
<1> QED BY <1>1, <1>3, <1>6, <1>7, <1>8 DEF InStep

(* Between transactions nothing is in the graph.                           *)
LEMMA BetweenTransactions ==
  ASSUME IInv, moved = << >>
  PROVE  /\ \A e \in DOMAIN Graph.capacity : queue[e] = << >>
         /\ \A k \in DOMAIN Graph.kernels : at[k] = 1
         /\ \A k \in DOMAIN Graph.kernels : ThePlan.keeps[k][0] = 0 => kept[k] = {}
<1>1. PICK c \in Counts : InStep(c)
  BY DEF IInv
<1>2. \A a \in Actors(Graph, ThePlan) : c[a] = 0
  BY <1>1 DEF InStep, ChannelsInv
<1> QED BY <1>1, <1>2, NothingInside DEF IInv, InStep

-----------------------------------------------------------------------------
(* What a transaction does.                                                *)

(* runPL starts a transaction on an empty graph.                           *)
LEMMA StartStep ==
  ASSUME IInv, StartTransaction
  PROVE  IInv'
<1> USE DEF IInv
<1>1. UNCHANGED <<program, phase, pc, queue, at, left, kept, submitted, done, bufs, errorCount>>
  BY DEF StartTransaction, graphVars
<1>2. /\ ThePlan' = ThePlan /\ Graph' = Graph /\ Span' = Span /\ Moves' = Moves
      /\ Counts' = Counts /\ Fitting(program, ThePlan)'
  BY <1>1, PlanKept
<1>3. PlanTypes(Graph, ThePlan) /\ Moves \in Nat \ {0}
  BY PlanFacts
<1>4. submitted \in 0 .. ThePlan.parts /\ done \in 0 .. submitted /\ done < submitted
  BY DEF TypeInv, StartTransaction
<1>5. DOMAIN Args = 1 .. ThePlan.channels
  BY <1>3, <1>4, ArgFacts DEF PlanTypes
<1>6. /\ moved' = [i \in 1 .. ThePlan.channels |-> 0]
      /\ got' = [i \in 1 .. ThePlan.channels |-> << >>]
  BY <1>5 DEF StartTransaction
<1>7. moved' # << >>
  <2>1. 1 \in DOMAIN moved'
    BY <1>3, <1>6 DEF PlanTypes
  <2> QED BY <2>1
<1>8. TypeInv'
  <2>1. moved' \in [1 .. ThePlan.channels -> 0 .. Moves]
    BY <1>3, <1>6
  <2>2. got' \in [1 .. ThePlan.channels -> Seq(Tokens)]
    BY <1>6, EmptySeq
  <2> QED BY <1>1, <1>2, <1>4, <1>7, <2>1, <2>2 DEF TypeInv
<1>9. ControlInv'
  BY <1>1, <1>2 DEF ControlInv
<1>10. PICK c \in Counts : InStep(c)
  OBVIOUS
<1>11. \A t, f : Is(t, f)' = Is(t, f)
  BY <1>1, IsKept
<1>12. KernelsInv(c)' /\ QueuesInv(c)'
  BY <1>1, <1>2, <1>10, <1>11 DEF InStep, KernelsInv, QueuesInv
<1>13. ChannelsInv(c)'
  <2> SUFFICES ASSUME NEW i \in 1 .. ThePlan.channels
               PROVE  /\ c[Channel(i)] = 0
                      /\ moved'[i] = 0 /\ got'[i] = << >>
    <3>1. Len(<< >>) = 0 /\ 1 .. 0 = {}
      BY EmptySeq
    <3> QED BY <1>2, <1>7, <3>1 DEF ChannelsInv
  <2>1. Channel(i) \in Actors(Graph, ThePlan)
    BY CountTypes
  <2>2. c = [a \in Actors(Graph, ThePlan) |-> 0]
    BY <1>10 DEF InStep, ChannelsInv, StartTransaction
  <2> QED BY <1>6, <2>1, <2>2
<1>14. BuffersInv'
  <2>1. Exact' = Exact /\ Now' = Now
    BY <1>1, IsKept
  <2> QED BY <1>1, <1>2, <2>1 DEF BuffersInv
<1> QED BY <1>1, <1>2, <1>8, <1>9, <1>10, <1>12, <1>13, <1>14 DEF InStep

(* A valid comparison finds what the program expects.                      *)
LEMMA ComparesEqual ==
  ASSUME IInv, done = ThePlan.parts, NEW b \in Now.golden, Valid
  PROVE  bufs[b] = Input(Len(bufs[b]), Span)
<1> USE DEF IInv
<1>1. PhaseFits(program, ThePlan, phase)
  BY PhaseFacts
<1>2. Span = 1
  BY <1>1 DEF PhaseFits, Now, Span
<1>3. PICK i \in 1 .. ThePlan.channels :
        ThePlan.dirs[i] = "from" /\ Now.transactions[1][i].buf = b
  BY <1>1 DEF PhaseFits, Now
<1>4. b \in DOMAIN program.data
  BY <1>1, <1>3 DEF PhaseFits, Now
<1> DEFINE n == Length(ThePlan)
<1>5. n \in Nat /\ n = done * ThePlan.items
  <2> DEFINE a == ThePlan.items
             p == ThePlan.parts
  <2>1. a \in Nat /\ p \in Nat
    BY PlanFacts DEF PlanTypes
  <2> HIDE DEF a, p
  <2>2. a * p = p * a /\ a * p \in Nat
    BY <2>1
  <2> QED BY <2>2 DEF Length, a, p
<1> HIDE DEF n
<1>6. bufs[b] \in [1 .. n -> Nat]
  BY <1>4 DEF TypeInv, n
<1>7. \A x \in 1 .. n : bufs[b][x] = x
  BY <1>2, <1>3, <1>5 DEF BuffersInv, Exact
<1>8. Len(bufs[b]) = n
  BY <1>5, <1>6, IsASeq, LenProperties
<1>9. \A x \in 1 .. n : ((x - 1) \div 1) + 1 = x
  <2> TAKE x \in 1 .. n
  <2> DEFINE y == x - 1
  <2>1. y \in Int /\ y = 1 * y + 0 /\ 0 \in 0 .. 1 - 1
    BY <1>5
  <2> HIDE DEF y
  <2>2. y \div 1 = y
    BY <2>1, DivisionUnique
  <2> QED BY <1>5, <2>2 DEF y
<1>10. Input(n, Span) = [x \in 1 .. n |-> x]
  BY <1>2, <1>9 DEF Input
<1> QED BY <1>6, <1>7, <1>8, <1>10

(* isResultValid is true only of data that have kept their value.          *)
LEMMA ComparedWhenValid ==
  ASSUME IInv, TRUE \in Validity
  PROVE  Valid
<1> USE DEF IInv
<1>1. /\ Now.asks = "valid" \/ (Now.asks \in {"always", "unset"} /\ Now.mode = "FUNC")
      /\ Len(Now.transactions) = ThePlan.parts
      /\ \A n \in 1 .. ThePlan.parts :
           /\ DOMAIN Now.transactions[n] = 1 .. ThePlan.channels
           /\ \A i \in 1 .. ThePlan.channels :
                /\ Now.transactions[n][i].dir = ThePlan.dirs[i]
                /\ Now.transactions[n][i].bytes = ThePlan.bytes
  <2>1. PhaseFits(program, ThePlan, phase) /\ Now = program.phases[phase]
    BY PhaseFacts DEF Now
  <2> HIDE DEF IInv
  <2>2. Now.asks = "valid" \/ (Now.asks \in {"always", "unset"} /\ Now.mode = "FUNC")
    BY <2>1 DEF PhaseFits
  <2>3. Len(Now.transactions) = ThePlan.parts
    BY <2>1 DEF PhaseFits
  <2>4. \A n \in 1 .. ThePlan.parts : DOMAIN Now.transactions[n] = 1 .. ThePlan.channels
    BY <2>1 DEF PhaseFits
  <2>5. \A n \in 1 .. ThePlan.parts, i \in 1 .. ThePlan.channels :
          /\ Now.transactions[n][i].dir = ThePlan.dirs[i]
          /\ Now.transactions[n][i].bytes = ThePlan.bytes
    BY <2>1 DEF PhaseFits, ArgumentFits
  <2> QED BY <2>2, <2>3, <2>4, <2>5
<1>2. CASE Now.mode = "FUNC"
  BY <1>2 DEF Valid
<1>3. CASE Now.asks = "valid"
  <2>1. IsResultValid
    BY <1>3 DEF Validity
  <2>2. ThePlan.parts \in 1 .. ThePlan.parts
    BY PlanFacts DEF PlanTypes
  <2>3. PICK i \in 1 .. ThePlan.channels : ThePlan.dirs[i] = "to"
    BY PlanFacts DEF PlanTypes
  <2>4. ~Overflows(Now.transactions[ThePlan.parts][i])
    BY <1>1, <2>1, <2>2, <2>3 DEF IsResultValid
  <2> QED BY <1>1, <2>2, <2>4 DEF Overflows, Valid
<1> QED BY <1>1, <1>2, <1>3

(* A comparison finds no difference.                                       *)
LEMMA CompareStep ==
  ASSUME IInv, Compare
  PROVE  IInv'
<1> USE DEF IInv
<1>1. UNCHANGED <<program, queue, at, kept, moved, got, bufs>>
  BY DEF Compare, graphVars
<1>2. /\ ThePlan' = ThePlan /\ Graph' = Graph /\ Span' = Span /\ Moves' = Moves
      /\ Counts' = Counts /\ Fitting(program, ThePlan)'
  BY <1>1, PlanKept
<1>3. /\ PlanTypes(Graph, ThePlan) /\ Len(program.phases) \in Nat \ {0}
      /\ phase \in 1 .. Len(program.phases) /\ PhaseFits(program, ThePlan, phase)
  BY PlanFacts, PhaseFacts DEF TypeInv
<1>4. done = ThePlan.parts /\ submitted = ThePlan.parts
  BY <1>3 DEF Compare, Enters, ControlInv, TypeInv, PlanTypes
<1>5. moved = << >> /\ got = << >>
  BY <1>3, <1>4 DEF TypeInv, PlanTypes
<1>6. submitted' = 0 /\ done' = 0
  BY DEF Compare
<1>7. \/ phase < Len(program.phases) /\ phase' = phase + 1 /\ pc' = "ready"
      \/ phase' = phase /\ pc' = "closing"
  BY DEF Compare
<1>8. TypeInv'
  <2>1. phase' \in 1 .. Len(program.phases)
    BY <1>3, <1>7
  <2>2. 0 \in 0 .. ThePlan.parts /\ 0 \in 0 .. 0
    BY <1>3 DEF PlanTypes
  <2> QED BY <1>1, <1>2, <1>5, <1>6, <2>1, <2>2 DEF TypeInv
<1>9. ControlInv'
  BY <1>6, <1>7 DEF ControlInv
<1>10. \E c \in Counts' : InStep(c)'
  BY <1>1, <1>5, BetweenTransactions, Restart
<1>11. ~errorCount'
  <2> SUFFICES ASSUME errorCount' PROVE FALSE
    OBVIOUS
  <2>1. TRUE \in Validity /\ \E b \in Now.golden : bufs[b] # Input(Len(bufs[b]), Span)
    <3>1. PICK is_valid \in Validity :
            errorCount' = \/ errorCount
                          \/ /\ is_valid
                             /\ \E b \in Now.golden : bufs[b] # Input(Len(bufs[b]), Span)
      BY DEF Compare
    <3>2. Validity \subseteq BOOLEAN
      <4>1. IsResultValid \in BOOLEAN
        BY DEF IsResultValid
      <4>2. Now.asks \in {"valid", "unset", "always"}
        BY <1>3 DEF PhaseFits, Now
      <4> QED BY <4>1, <4>2 DEF Validity
    <3>3. is_valid = TRUE
      BY <3>1, <3>2
    <3> QED BY <3>1, <3>3
  <2>2. Valid
    BY <2>1, ComparedWhenValid
  <2> QED BY <1>4, <2>1, <2>2, ComparesEqual
<1>12. BuffersInv'
  <2> SUFFICES ASSUME NEW i \in 1 .. ThePlan.channels
               PROVE  LET b == Now'.transactions[1][i].buf IN
                      /\ ThePlan.dirs[i] = "to" /\ Span = 1 =>
                           \A x \in 1 .. Length(ThePlan) : bufs[b][x] = x
                      /\ \A x \in 1 .. 0 * ThePlan.items : bufs[b][x] = x
    BY <1>1, <1>2, <1>6 DEF BuffersInv
  <2>1. 1 .. 0 * ThePlan.items = {}
    BY <1>3 DEF PlanTypes
  <2>2. CASE phase' = phase
    <3>1. Now' = Now
      BY <1>1, <2>2 DEF Now
    <3> QED BY <2>1, <3>1 DEF BuffersInv
  <2>3. CASE phase < Len(program.phases) /\ phase' = phase + 1
    <3> SUFFICES ASSUME ThePlan.dirs[i] = "to", Span = 1, NEW x \in 1 .. Length(ThePlan)
                 PROVE  bufs[Now'.transactions[1][i].buf][x] = x
      BY <2>1
    <3>1. phase + 1 \in 1 .. Len(program.phases) /\ phase + 1 # 1 /\ (phase + 1) - 1 = phase
      BY <1>3, <2>3
    <3>2. InputsThere(program, ThePlan, phase + 1)
      BY <3>1 DEF Fitting
    <3>3. Now' = program.phases[phase + 1]
      BY <1>1, <2>3 DEF Now
    <3>4. PICK j \in 1 .. ThePlan.channels :
            /\ Now.transactions[1][j].buf = Now'.transactions[1][i].buf
            /\ ThePlan.dirs[j] = "to" \/ Now.mode = "FUNC"
      BY <3>1, <3>2, <3>3 DEF InputsThere, Now
    <3>5. CASE ThePlan.dirs[j] = "to"
      BY <3>4, <3>5 DEF BuffersInv
    <3>6. CASE ThePlan.dirs[j] = "from" /\ Now.mode = "FUNC"
      <4>1. Exact
        BY <3>6 DEF Exact, Valid
      <4>2. x \in 1 .. done * ThePlan.items
        <5> DEFINE a == ThePlan.items
                   p == ThePlan.parts
        <5>1. a \in Nat /\ p \in Nat
          BY <1>3 DEF PlanTypes
        <5> HIDE DEF a, p
        <5>2. a * p = p * a
          BY <5>1
        <5>3. x \in 1 .. a * p
          BY DEF Length, a, p
        <5>4. done * ThePlan.items = p * a
          BY <1>4 DEF a, p
        <5> QED BY <5>2, <5>3, <5>4
      <4> QED BY <3>4, <3>6, <4>1, <4>2 DEF BuffersInv
    <3>7. ThePlan.dirs[j] \in {"to", "from"}
      BY <1>3 DEF PlanTypes
    <3> QED BY <3>4, <3>5, <3>6, <3>7
  <2> QED BY <1>7, <2>2, <2>3
<1> QED BY <1>2, <1>8, <1>9, <1>10, <1>11, <1>12

(* The last repetition of what came back is what the program sent.         *)
LEMMA LastRepetition ==
  ASSUME Fitting(program, ThePlan), NEW n \in 1 .. ThePlan.items
  PROVE  /\ Moves - ThePlan.items + n \in 1 .. Moves
         /\ ((Moves - ThePlan.items + n) - 1) % ThePlan.items = n - 1
<1> DEFINE a == ThePlan.items
           r == ThePlan.reps
<1>1. a \in Nat \ {0} /\ r \in Nat \ {0} /\ n \in 1 .. a
  BY PlanFacts DEF PlanTypes
<1>2. Moves = a * r
  BY DEF Moves, Total
<1> HIDE DEF a, r
<1> DEFINE x == a * r - a + n - 1
<1>3. a * r \in Nat /\ a * (r - 1) = a * r - a /\ a * (r - 1) >= 0
  BY <1>1
<1>4. x \in Int /\ x = a * (r - 1) + (n - 1) /\ n - 1 \in 0 .. a - 1 /\ r - 1 \in Int
  BY <1>1, <1>3
<1> HIDE DEF x
<1>5. x % a = n - 1
  BY <1>1, <1>4, DivisionUnique
<1>6. a * r - a + n \in 1 .. a * r /\ (a * r - a + n) - 1 = x
  BY <1>1, <1>3, <1>4
<1> QED BY <1>2, <1>5, <1>6 DEF a

(* handleOutputs brings back the results of a transaction.                 *)
LEMMA FinishStep ==
  ASSUME IInv, FinishTransaction
  PROVE  IInv'
<1> USE DEF IInv
<1>1. /\ UNCHANGED <<program, phase, pc, queue, at, kept, submitted, errorCount>>
      /\ done' = done + 1 /\ moved' = << >> /\ got' = << >>
      /\ bufs' = [b \in DOMAIN bufs |-> Stored(b)]
      /\ done < submitted /\ moved # << >>
  BY DEF FinishTransaction, graphVars, Moving
<1>2. /\ ThePlan' = ThePlan /\ Graph' = Graph /\ Span' = Span /\ Moves' = Moves
      /\ Counts' = Counts /\ Fitting(program, ThePlan)'
  BY <1>1, PlanKept
<1>3. PlanTypes(Graph, ThePlan) /\ PhaseFits(program, ThePlan, phase) /\ Moves \in Nat \ {0}
      /\ Length(ThePlan) \in Nat
  BY PlanFacts, PhaseFacts
<1>4. /\ submitted \in 0 .. ThePlan.parts /\ done \in Nat /\ done < submitted
      /\ done + 1 \in 0 .. submitted /\ done < ThePlan.parts /\ ThePlan.parts \in Nat
      /\ ThePlan.items \in Nat \ {0}
  <2>1. submitted \in 0 .. ThePlan.parts /\ done \in Nat /\ submitted \in Nat
    BY PhaseFacts DEF TypeInv
  <2>2. ThePlan.parts \in Nat /\ ThePlan.items \in Nat \ {0}
    BY <1>3 DEF PlanTypes
  <2> HIDE DEF IInv
  <2> QED BY <1>1, <2>1, <2>2
<1>5. /\ DOMAIN Args = 1 .. ThePlan.channels
      /\ \A i \in 1 .. ThePlan.channels :
           /\ Args[i].dir = ThePlan.dirs[i] /\ Items(i) = Moves
           /\ Args[i].items = ThePlan.items /\ Args[i].bytes = ThePlan.bytes
           /\ Args[i].skip = done * ThePlan.items
           /\ Args[i].buf = Now.transactions[1][i].buf
           /\ Args[i].buf \in DOMAIN program.data
  BY <1>4, ArgFacts
<1>6. \A i \in 1 .. ThePlan.channels : moved[i] = Moves
  BY <1>5 DEF FinishTransaction
<1>7. PICK c \in Counts : InStep(c)
  OBVIOUS
<1>8. \A a \in Actors(Graph, ThePlan) : c[a] = Moves
  BY <1>1, <1>6, <1>7, AllMoved
<1>9. \E d \in Counts' : InStep(d)'
  <2>1. /\ \A e \in DOMAIN Graph.capacity : queue[e] = << >>
        /\ \A k \in DOMAIN Graph.kernels : at[k] = 1
        /\ \A k \in DOMAIN Graph.kernels : ThePlan.keeps[k][0] = 0 => kept[k] = {}
    BY <1>7, <1>8, NothingInside DEF InStep
  <2> QED BY <1>1, <2>1, Restart
<1>10. DOMAIN bufs = DOMAIN program.data
       /\ \A b \in DOMAIN program.data : bufs[b] \in [1 .. Length(ThePlan) -> Nat]
  BY DEF TypeInv
<1>11. got \in [1 .. ThePlan.channels -> Seq(Tokens)]
  BY <1>1 DEF TypeInv
<1> DEFINE ws(b, p) == {i \in DOMAIN Args : /\ Args[i].dir = "from" /\ Args[i].buf = b
                                            /\ p - Args[i].skip \in 1 .. Args[i].items}
<1>12. ASSUME NEW b \in DOMAIN program.data
       PROVE  bufs'[b] = [p \in 1 .. Length(ThePlan) |->
                            IF ws(b, p) = {} THEN bufs[b][p]
                            ELSE Result(CHOOSE j \in ws(b, p) : TRUE,
                                        p - Args[CHOOSE j \in ws(b, p) : TRUE].skip)]
  <2>1. DOMAIN bufs[b] = 1 .. Length(ThePlan)
    BY <1>10
  <2>2. bufs'[b] = Stored(b)
    BY <1>1, <1>10
  <2> QED BY <2>1, <2>2 DEF Stored
<1>13. \A b, p : ws(b, p) = {i \in 1 .. ThePlan.channels :
                               /\ ThePlan.dirs[i] = "from" /\ Now.transactions[1][i].buf = b
                               /\ p - done * ThePlan.items \in 1 .. ThePlan.items}
  BY <1>5
<1> HIDE DEF ws
<1> DEFINE z == done * ThePlan.items
<1>14. z \in Nat
  BY <1>4
<1> HIDE DEF z
<1>15. ASSUME NEW i \in 1 .. ThePlan.channels, ThePlan.dirs[i] = "from",
              NEW n \in 1 .. ThePlan.items
       PROVE  Result(i, n) \in Nat /\ (Exact => Result(i, n) = z + n)
  <2> DEFINE m == Moves - ThePlan.items + n
  <2>1. m \in 1 .. Moves /\ (m - 1) % ThePlan.items = n - 1
    BY LastRepetition
  <2> HIDE DEF m
  <2>2. got[i] \in Seq(Tokens) /\ Len(got[i]) = Moves
        /\ Is(got[i][m], ((m - 1) \div Span) + 1)
    BY <1>1, <1>6, <1>7, <1>11, <1>15, <2>1 DEF InStep, ChannelsInv
  <2>3. got[i][m] \in Tokens
    BY <2>1, <2>2, ElementOfSeq
  <2>4. got[i][m].value \in Nat
    BY <2>3 DEF Tokens
  <2>5. Result(i, n) = IF Overflows(Args[i]) THEN 0 ELSE got[i][m].value
    BY <1>5 DEF Result, m
  <2>6. ASSUME Exact PROVE got[i][m].value = z + n /\ ~Overflows(Args[i])
    <3>1. ~Overflows(Args[i])
      BY <1>5, <2>6 DEF Exact, Valid, Overflows
    <3>2. got[i][m].value = Value(((m - 1) \div Span) + 1)
      BY <2>2, <2>6 DEF Is
    <3>3. ((m - 1) \div Span) + 1 = m
      <4> DEFINE y == m - 1
      <4>1. y \in Int /\ y = 1 * y + 0 /\ 0 \in 0 .. 1 - 1 /\ y + 1 = m
        BY <1>3, <2>1
      <4> HIDE DEF y
      <4>2. y \div 1 = y
        BY <4>1, DivisionUnique
      <4>3. Span = 1
        BY <2>6 DEF Exact
      <4>4. (y \div Span) + 1 = m
        BY <4>1, <4>2, <4>3
      <4> QED BY <4>4 DEF y
    <3>4. Value(m) = z + (n - 1) + 1
      BY <2>1 DEF Value, z
    <3> QED BY <1>4, <1>14, <3>1, <3>2, <3>3, <3>4
  <2> QED BY <2>4, <2>5, <2>6
<1>16. ASSUME NEW b \in DOMAIN program.data, NEW p \in 1 .. Length(ThePlan), ws(b, p) # {}
       PROVE  /\ bufs'[b][p] \in Nat /\ (Exact => bufs'[b][p] = p)
              /\ \E i \in 1 .. ThePlan.channels :
                   ThePlan.dirs[i] = "from" /\ Now.transactions[1][i].buf = b
  <2> DEFINE i == CHOOSE j \in ws(b, p) : TRUE
  <2>1. i \in ws(b, p)
    BY <1>16
  <2>0. bufs'[b][p] = Result(i, p - Args[i].skip)
    BY <1>12, <1>16
  <2> HIDE DEF i
  <2>2. /\ i \in 1 .. ThePlan.channels /\ ThePlan.dirs[i] = "from"
        /\ Now.transactions[1][i].buf = b
        /\ p - z \in 1 .. ThePlan.items
    BY <1>13, <2>1 DEF z
  <2>3. Args[i].skip = z
    BY <1>5, <2>2 DEF z
  <2>4. bufs'[b][p] = Result(i, p - z)
    BY <2>0, <2>3
  <2>5. z + (p - z) = p
    BY <1>3, <1>14
  <2> QED BY <1>15, <2>2, <2>4, <2>5
<1>17. ASSUME NEW b \in DOMAIN program.data, NEW p \in 1 .. Length(ThePlan), ws(b, p) = {}
       PROVE  bufs'[b][p] = bufs[b][p] /\ bufs[b][p] \in Nat
  <2>1. bufs'[b][p] = IF ws(b, p) = {} THEN bufs[b][p]
                      ELSE Result(CHOOSE j \in ws(b, p) : TRUE,
                                  p - Args[CHOOSE j \in ws(b, p) : TRUE].skip)
    <3> DEFINE F(q) == IF ws(b, q) = {} THEN bufs[b][q]
                       ELSE Result(CHOOSE j \in ws(b, q) : TRUE,
                                   q - Args[CHOOSE j \in ws(b, q) : TRUE].skip)
    <3>1. bufs'[b] = [q \in 1 .. Length(ThePlan) |-> F(q)]
      BY ONLY <1>12, <1>17, Zenon
    <3> HIDE DEF F
    <3>2. bufs'[b][p] = F(p)
      BY ONLY <1>17, <3>1
    <3> QED BY ONLY <3>2 DEF F
  <2>2. bufs[b] \in [1 .. Length(ThePlan) -> Nat]
    BY <1>10
  <2>3. bufs[b][p] \in Nat
    BY ONLY <1>17, <2>2
  <2> QED BY ONLY <1>17, <2>1, <2>3
<1>18. TypeInv'
  <2>1. bufs' \in [DOMAIN program.data -> [1 .. Length(ThePlan) -> Nat]]
    <3>1. \A b \in DOMAIN program.data : bufs'[b] \in [1 .. Length(ThePlan) -> Nat]
      BY <1>12, <1>16, <1>17
    <3>2. bufs' = [b \in DOMAIN program.data |-> bufs'[b]]
      BY <1>1, <1>10
    <3> QED BY <3>1, <3>2
  <2> QED BY <1>1, <1>2, <1>4, <2>1 DEF TypeInv
<1>19. ControlInv'
  BY <1>1, <1>2, <1>4 DEF ControlInv
<1>20. Now' = Now /\ Exact' = Exact
  BY <1>1, <1>2 DEF Now, Exact, Valid, Capacity, Board
<1>21. BuffersInv'
  <2> SUFFICES ASSUME NEW i \in 1 .. ThePlan.channels,
                      NEW x \in 1 .. Length(ThePlan),
                      \/ ThePlan.dirs[i] = "to" /\ Span = 1
                      \/ /\ ThePlan.dirs[i] = "from" /\ Exact
                         /\ x \in 1 .. (done + 1) * ThePlan.items
               PROVE  bufs'[Now.transactions[1][i].buf][x] = x
    <3>1. 1 .. (done + 1) * ThePlan.items \subseteq 1 .. Length(ThePlan)
      <4> DEFINE a == ThePlan.items
                 p == ThePlan.parts
                 d == done + 1
      <4>1. a \in Nat /\ p \in Nat /\ d \in Nat /\ d <= p
        BY <1>4
      <4> HIDE DEF a, p, d
      <4>2. d * a <= a * p /\ d * a \in Nat /\ a * p \in Nat
        BY <4>1
      <4> QED BY <4>2 DEF Length, a, p, d
    <3> DEFINE B(j) == Now.transactions[1][j].buf
    <3>2. BuffersInv' <=>
            \A j \in 1 .. ThePlan.channels :
              /\ ThePlan.dirs[j] = "to" /\ Span = 1 =>
                   \A y \in 1 .. Length(ThePlan) : bufs'[B(j)][y] = y
              /\ ThePlan.dirs[j] = "from" /\ Exact =>
                   \A y \in 1 .. (done + 1) * ThePlan.items : bufs'[B(j)][y] = y
      BY ONLY <1>1, <1>2, <1>20 DEF BuffersInv
    <3>3. ASSUME NEW j \in 1 .. ThePlan.channels, ThePlan.dirs[j] = "to", Span = 1,
                 NEW y \in 1 .. Length(ThePlan)
          PROVE  bufs'[B(j)][y] = y
      BY <3>3
    <3>4. ASSUME NEW j \in 1 .. ThePlan.channels, ThePlan.dirs[j] = "from", Exact,
                 NEW y \in 1 .. (done + 1) * ThePlan.items
          PROVE  bufs'[B(j)][y] = y
      BY <3>1, <3>4
    <3> HIDE DEF B
    <3> QED BY ONLY <3>2, <3>3, <3>4
  <2> DEFINE b == Now.transactions[1][i].buf
  <2>1. b \in DOMAIN program.data
    BY <1>5
  <2> HIDE DEF b
  <2>2. CASE ThePlan.dirs[i] = "to" /\ Span = 1
    <3>1. ws(b, x) = {}
      <4> SUFFICES ASSUME NEW j \in 1 .. ThePlan.channels, ThePlan.dirs[j] = "from",
                          Now.transactions[1][j].buf = b
                   PROVE  FALSE
        BY <1>13
      <4>1. i # j
        BY <2>2
      <4> QED BY <1>3, <4>1 DEF PhaseFits, Now, b
    <3>2. bufs[b][x] = x
      BY <2>2 DEF BuffersInv, b
    <3> QED BY <1>17, <2>1, <3>1, <3>2 DEF b
  <2>3. CASE ThePlan.dirs[i] = "from" /\ Exact /\ x \in 1 .. (done + 1) * ThePlan.items
    <3>1. CASE ws(b, x) # {}
      BY <1>16, <2>1, <2>3, <3>1 DEF b
    <3>2. CASE ws(b, x) = {}
      <4>1. ~(x - z \in 1 .. ThePlan.items)
        BY <1>13, <2>3, <3>2 DEF b, z
      <4>2. (done + 1) * ThePlan.items = z + ThePlan.items
        BY <1>4 DEF z
      <4>3. x \in 1 .. z
        BY <1>4, <1>14, <2>3, <4>1, <4>2
      <4>4. bufs[b][x] = x
        BY <2>3, <4>3 DEF BuffersInv, b, z
      <4> QED BY <1>17, <2>1, <3>2, <4>4 DEF b
    <3> QED BY <3>1, <3>2
  <2> QED BY <2>2, <2>3
<1> QED BY <1>1, <1>2, <1>9, <1>18, <1>19, <1>21

-----------------------------------------------------------------------------
(* A step of an actor: it takes x tokens from a queue q, puts w tokens r   *)
(* into it and leaves z.                                                   *)
Follows(q, z, x, w, r) ==
  /\ z \in Seq(Tokens)
  /\ Len(z) = Len(q) - x + w
  /\ \A j \in 1 .. Len(z) : z[j] = IF j <= Len(q) - x THEN q[x + j] ELSE r[j - (Len(q) - x)]

(* What the invariants say of queue e when it is z, of a kernel k that has *)
(* made n moves, and of a channel i.                                       *)
QueueIs(e, z, d) ==
  LET t == ThePlan.taken[e][d[ThePlan.reader[e]]] IN
  /\ z \in Seq(Tokens)
  /\ ThePlan.put[e][d[ThePlan.writer[e]]] = t + Len(z)
  /\ \A j \in 1 .. Len(z) : Is(z[j], ThePlan.index[e][t + j])

KernelIs(k, n, place, tokens) ==
  /\ place = InRound(Graph, k, n)
  /\ LET f == ThePlan.keeps[k][n] IN f # -1 => \A t \in tokens : f # 0 /\ Is(t, f)

ChannelIs(i, n, m, back) ==
  /\ n = m
  /\ ThePlan.dirs[i] = "to" => back = << >>
  /\ ThePlan.dirs[i] = "from" =>
       Len(back) = m /\ \A j \in 1 .. m : Is(back[j], ((j - 1) \div Span) + 1)

(* A queue nobody touches.                                                 *)
LEMMA FollowsItself ==
  ASSUME NEW q \in Seq(Tokens), NEW r
  PROVE  Follows(q, q, 0, 0, r)
<1>1. Len(q) \in Nat
  BY LenProperties
<1> QED BY <1>1 DEF Follows

(* A queue that gets one token.                                            *)
LEMMA FollowsAppend ==
  ASSUME NEW q \in Seq(Tokens), NEW token \in Tokens
  PROVE  Follows(q, Append(q, token), 0, 1, <<token>>)
<1> DEFINE z == Append(q, token)
           r == <<token>>
           l == Len(q)
<1>1. /\ z \in Seq(Tokens) /\ Len(z) = l + 1
      /\ \A j \in 1 .. l : z[j] = q[j]
      /\ z[l + 1] = token
  BY AppendProperties
<1>2. l \in Nat
  BY LenProperties
<1>3. r[1] = token
  OBVIOUS
<1> HIDE DEF z, r, l
<1>4. Len(z) = l - 0 + 1
  BY ONLY <1>1, <1>2
<1>5. ASSUME NEW j \in 1 .. Len(z)
      PROVE  z[j] = IF j <= l - 0 THEN q[0 + j] ELSE r[j - (l - 0)]
  <2>1. CASE j <= l
    <3>1. j \in 1 .. l /\ 0 + j = j /\ j <= l - 0
      BY <1>1, <1>2, <2>1
    <3> QED BY <1>1, <3>1
  <2>2. CASE ~(j <= l)
    <3>1. j = l + 1 /\ j - (l - 0) = 1 /\ ~(j <= l - 0)
      BY <1>1, <1>2, <2>2
    <3>2. z[j] = r[1]
      BY <1>1, <1>3, <3>1
    <3> QED BY <3>1, <3>2
  <2> QED BY <2>1, <2>2
<1> QED BY <1>1, <1>4, <1>5 DEF Follows, z, r, l

(* Who takes the first tokens and puts the next leaves a queue in step.    *)
LEMMA FollowsInStep ==
  ASSUME NEW p \in Nat, NEW t \in Nat, NEW q \in Seq(Tokens), NEW index, p = t + Len(q),
         \A j \in 1 .. Len(q) : Is(q[j], index[t + j]),
         NEW z, NEW x \in 0 .. Len(q), NEW w \in Nat, NEW r, Follows(q, z, x, w, r),
         \A j \in 1 .. w : Is(r[j], index[p + j])
  PROVE  /\ z \in Seq(Tokens)
         /\ p + w = t + x + Len(z)
         /\ \A j \in 1 .. Len(z) : Is(z[j], index[t + x + j])
<1>1. Len(q) \in Nat
  BY LenProperties
<1>2. z \in Seq(Tokens) /\ Len(z) = Len(q) - x + w
  BY DEF Follows
<1>3. ASSUME NEW j \in 1 .. Len(z) PROVE Is(z[j], index[t + x + j])
  <2>1. CASE j <= Len(q) - x
    <3>1. x + j \in 1 .. Len(q) /\ t + (x + j) = t + x + j
      BY <1>1, <1>2, <2>1
    <3>2. z[j] = q[x + j]
      BY <2>1 DEF Follows
    <3>3. Is(q[x + j], index[t + (x + j)])
      BY <3>1
    <3> QED BY <3>1, <3>2, <3>3
  <2>2. CASE ~(j <= Len(q) - x)
    <3>1. j - (Len(q) - x) \in 1 .. w /\ p + (j - (Len(q) - x)) = t + x + j
      BY <1>1, <1>2, <2>2
    <3>2. z[j] = r[j - (Len(q) - x)]
      BY <2>2 DEF Follows
    <3>3. Is(r[j - (Len(q) - x)], index[p + (j - (Len(q) - x))])
      BY <3>1
    <3> QED BY <3>1, <3>2, <3>3
  <2> QED BY <2>1, <2>2
<1>4. p + w = t + x + Len(z)
  BY <1>1, <1>2
<1> QED BY <1>2, <1>3, <1>4

(* The same, of a queue of the graph.                                      *)
LEMMA QueueStep ==
  ASSUME Fitting(program, ThePlan), TypeInv, NEW c \in Counts, QueuesInv(c), NEW d \in Counts,
         NEW e \in DOMAIN Graph.capacity, NEW z, NEW x \in 0 .. Len(queue[e]), NEW w \in Nat,
         NEW r, Follows(queue[e], z, x, w, r),
         ThePlan.taken[e][d[ThePlan.reader[e]]] = ThePlan.taken[e][c[ThePlan.reader[e]]] + x,
         ThePlan.put[e][d[ThePlan.writer[e]]] = ThePlan.put[e][c[ThePlan.writer[e]]] + w,
         \A j \in 1 .. w : Is(r[j], ThePlan.index[e][ThePlan.put[e][c[ThePlan.writer[e]]] + j])
  PROVE  QueueIs(e, z, d)
<1> DEFINE q == queue[e]
           p == ThePlan.put[e][c[ThePlan.writer[e]]]
           t == ThePlan.taken[e][c[ThePlan.reader[e]]]
           index == ThePlan.index[e]
<1>1. p \in Nat /\ t \in Nat
  BY CountTypes
<1>2. p = t + Len(q) /\ \A j \in 1 .. Len(q) : Is(q[j], index[t + j])
  BY DEF QueuesInv
<1>3. q \in Seq(Tokens) /\ x \in 0 .. Len(q)
  BY DEF TypeInv
<1>4. Follows(q, z, x, w, r) /\ \A j \in 1 .. w : Is(r[j], index[p + j])
  OBVIOUS
<1> HIDE DEF q, p, t, index
<1>5. /\ z \in Seq(Tokens)
      /\ p + w = t + x + Len(z)
      /\ \A j \in 1 .. Len(z) : Is(z[j], index[t + x + j])
  BY <1>1, <1>2, <1>3, <1>4, FollowsInStep
<1> QED BY <1>5 DEF QueueIs, p, t, index

(* What holds of each queue, kernel and channel holds of the graph.        *)
LEMMA ActorStep ==
  ASSUME IInv, NEW c \in Counts, InStep(c), NEW a \in Actors(Graph, ThePlan), c[a] < Moves,
         NEW d, d = [c EXCEPT ![a] = @ + 1], moved # << >>,
         UNCHANGED <<program, phase, pc, submitted, done, bufs, errorCount>>,
         queue' = [e \in DOMAIN Graph.capacity |-> queue'[e]],
         \A e \in DOMAIN Graph.capacity : QueueIs(e, queue'[e], d),
         DOMAIN at' = DOMAIN Graph.kernels,
         kept' \in [DOMAIN Graph.kernels -> SUBSET Tokens],
         \A k \in DOMAIN Graph.kernels : KernelIs(k, d[Kernel(k)], at'[k], kept'[k]),
         moved' \in [1 .. ThePlan.channels -> 0 .. Moves],
         got' \in [1 .. ThePlan.channels -> Seq(Tokens)],
         \A i \in 1 .. ThePlan.channels : ChannelIs(i, d[Channel(i)], moved'[i], got'[i])
  PROVE  IInv'
<1> USE DEF IInv
<1>1. /\ ThePlan' = ThePlan /\ Graph' = Graph /\ Span' = Span /\ Moves' = Moves
      /\ Counts' = Counts /\ Fitting(program, ThePlan)'
  BY PlanKept
<1>2. PlanTypes(Graph, ThePlan) /\ Moves \in Nat \ {0}
  BY PlanFacts
<1>3. d \in Counts
  <2>1. c[a] + 1 \in 0 .. Moves
    BY <1>2, CountTypes
  <2> QED BY <2>1 DEF Counts
<1>4. moved' # << >>
  <2>1. 1 \in DOMAIN moved'
    BY <1>2 DEF PlanTypes
  <2>2. 1 \notin DOMAIN << >>
    OBVIOUS
  <2> HIDE DEF IInv
  <2> QED BY <2>1, <2>2
<1>5. \A t, f : Is(t, f)' = Is(t, f)
  BY IsKept
<1>6. Now' = Now /\ Exact' = Exact
  BY IsKept
<1>7. TypeInv'
  <2>1. queue' \in [DOMAIN Graph.capacity -> Seq(Tokens)]
    BY DEF QueueIs
  <2> QED BY <1>1, <1>4, <2>1 DEF TypeInv
<1>8. ControlInv'
  BY <1>1 DEF ControlInv
<1>9. KernelsInv(d)'
  BY <1>1, <1>5 DEF KernelsInv, KernelIs
<1>10. QueuesInv(d)'
  BY <1>1, <1>5 DEF QueuesInv, QueueIs
<1>11. ChannelsInv(d)'
  BY <1>1, <1>4, <1>5 DEF ChannelsInv, ChannelIs
<1>12. BuffersInv'
  BY <1>1, <1>6 DEF BuffersInv
<1> QED BY <1>1, <1>3, <1>7, <1>8, <1>9, <1>10, <1>11, <1>12 DEF InStep

(* Each kernel and each channel is an actor of its own.                    *)
LEMMA ActorsDiffer ==
  /\ \A k, i : Kernel(k) # Channel(i)
  /\ \A i, j : i # j => Channel(i) # Channel(j)
  /\ \A k, l : k # l => Kernel(k) # Kernel(l)
BY DEF Kernel, Channel

(* A channel sends the token of the place it has come to.                  *)
LEMMA SentIs ==
  ASSUME IInv, Moving, NEW i \in 1 .. ThePlan.channels, ThePlan.dirs[i] = "to",
         moved[i] < Moves
  PROVE  Sent(i) \in Tokens /\ Is(Sent(i), (moved[i] \div Span) + 1)
<1> USE DEF IInv
<1> DEFINE items == ThePlan.items
           m == moved[i]
           idx == m % items
           z == done * items
           f == (m \div Span) + 1
           lost == Now.mode = "PERF" /\ (idx + 1) * (ThePlan.bytes \div items) > Capacity
           b == Now.transactions[1][i].buf
           value == IF lost THEN 0 ELSE bufs[b][z + idx + 1]
<1>1. /\ items \in Nat \ {0} /\ ThePlan.bytes \in Nat /\ Span \in Nat \ {0}
      /\ ThePlan.parts \in Nat /\ Moves \in Nat
  BY PlanFacts DEF PlanTypes
<1>2. /\ submitted \in 0 .. ThePlan.parts /\ done \in Nat /\ done < submitted
      /\ phase \in Nat /\ m \in 0 .. Moves /\ m \in Nat
  BY <1>1, PhaseFacts DEF Moving, TypeInv
<1>3. done < ThePlan.parts
  BY <1>1, <1>2
<1>4. /\ Args[i].items = items /\ Args[i].bytes = ThePlan.bytes /\ Args[i].skip = z
      /\ Args[i].buf = b /\ b \in DOMAIN program.data
  BY <1>3, ArgFacts
<1>5. idx \in 0 .. items - 1
  <2> HIDE DEF items, m
  <2> QED BY <1>1, <1>2, DivisionNat
<1>6. m \div Span \in Nat
  <2> HIDE DEF m
  <2> QED BY <1>1, <1>2, DivisionNat
<1>7. Place(m + 1) = <<phase, done + 1, f>>
  <2>1. (m + 1) - 1 = m
    BY <1>2
  <2> QED BY <2>1 DEF Place
<1>8. Sent(i) = Token(Place(m + 1), value)
  <2> HIDE DEF IInv
  <2> QED BY <1>4 DEF Sent
<1>9. z \in Nat /\ z + idx + 1 \in 1 .. Length(ThePlan)
  <2> DEFINE p == ThePlan.parts
  <2> HIDE DEF items, idx
  <2>1. (done + 1) * items <= items * p /\ (done + 1) * items = z + items /\ z \in Nat
        /\ items * p \in Nat
    BY <1>1, <1>2, <1>3
  <2> HIDE DEF z, p
  <2>2. z + idx + 1 \in 1 .. items * p
    BY <1>1, <1>5, <2>1
  <2> QED BY <2>1, <2>2 DEF Length, items, p
<1>10. value \in Nat
  <2>1. bufs[b] \in [1 .. Length(ThePlan) -> Nat]
    BY <1>4 DEF TypeInv
  <2> HIDE DEF b, z, idx, IInv
  <2> QED BY <1>9, <2>1
<1>11. ASSUME Exact PROVE value = Value(f)
  <2>1. Span = 1 /\ (Now.mode = "PERF" => ThePlan.bytes <= Capacity)
    <3>1. Capacity \in Nat
      BY DEF Capacity, Board, Fitting
    <3> QED BY <1>1, <1>11, <3>1 DEF Exact, Valid
  <2>2. (idx + 1) * (ThePlan.bytes \div items) <= ThePlan.bytes
    <3> DEFINE y == ThePlan.bytes
               w == y \div items
    <3>1. w \in Nat /\ items * w <= y
      <4>1. y \in Nat /\ items \in Nat \ {0}
        BY <1>1
      <4> HIDE DEF y, items
      <4> QED BY <4>1, DivisionNat
    <3> HIDE DEF w, y, idx, items
    <3> DEFINE n == idx + 1
    <3>2. n \in Nat /\ n <= items
      BY <1>1, <1>5
    <3> HIDE DEF n
    <3>3. n * w <= items * w /\ n * w \in Nat /\ items * w \in Nat
      BY <1>1, <3>1, <3>2
    <3>4. n * w <= y
      BY <1>1, <3>1, <3>3 DEF y
    <3> QED BY <3>4 DEF n, w, y
  <2>3. ~lost
    <3> DEFINE n == (idx + 1) * (ThePlan.bytes \div items)
    <3>1. Capacity \in Nat
      BY DEF Capacity, Board, Fitting
    <3>2. n \in Int
      <4>1. ThePlan.bytes \div items \in Nat
        BY <1>1, DivisionNat
      <4> HIDE DEF idx
      <4> QED BY <1>5, <4>1
    <3>3. n <= ThePlan.bytes
      BY <2>2
    <3> HIDE DEF n
    <3>4. ~(Now.mode = "PERF" /\ n > Capacity)
      BY <1>1, <2>1, <3>1, <3>2, <3>3
    <3> QED BY <3>4 DEF n
  <2>4. bufs[b][z + idx + 1] = z + idx + 1
    <3>1. \A x \in 1 .. Length(ThePlan) : bufs[b][x] = x
      BY <2>1 DEF BuffersInv
    <3> HIDE DEF b, z, idx, IInv
    <3> QED BY <1>9, <3>1
  <2>5. Value(f) = z + idx + 1
    <3>1. m \div Span = m
      <4>1. m = 1 * m + 0 /\ 0 \in 0 .. 1 - 1
        BY <1>2
      <4> QED BY <1>2, <2>1, <4>1, DivisionUnique
    <3>2. f - 1 = m
      BY <1>2, <3>1
    <3> HIDE DEF f, m
    <3> QED BY <3>2 DEF Value
  <2> HIDE DEF value
  <2> QED BY <2>3, <2>4, <2>5 DEF value
<1>12. Place(m + 1) \in Nat \X Nat \X Nat
  <2>1. f \in Nat
    BY <1>6
  <2> HIDE DEF f, m
  <2> QED BY <1>2, <1>7, <2>1
<1> HIDE DEF value, f, IInv
<1>13. Sent(i) \in Tokens
  BY <1>8, <1>10, <1>12 DEF Tokens, Token
<1>14. Is(Sent(i), f)
  BY <1>7, <1>8, <1>11 DEF Is, Token
<1> QED BY <1>13, <1>14 DEF f

(* What the steps of a channel have in common.                             *)
LEMMA ChannelFacts ==
  ASSUME IInv, Moving, NEW c \in Counts, InStep(c), NEW i \in DOMAIN moved,
         moved[i] < Items(i)
  PROVE  /\ i \in 1 .. ThePlan.channels /\ moved[i] \in Nat /\ moved[i] < Moves
         /\ Channel(i) \in Actors(Graph, ThePlan) /\ c[Channel(i)] = moved[i]
         /\ Args[i].dir = ThePlan.dirs[i]
         /\ Board.to[Args[i].plio - 1] = ThePlan.ports[i] \/ Args[i].dir # "to"
         /\ Board.from[Args[i].plio - 1] = ThePlan.ports[i] \/ Args[i].dir = "to"
         /\ moved \in [1 .. ThePlan.channels -> 0 .. Moves]
         /\ got \in [1 .. ThePlan.channels -> Seq(Tokens)]
         /\ queue \in [DOMAIN Graph.capacity -> Seq(Tokens)]
         /\ Moves \in Nat /\ moved # << >>
<1> USE DEF IInv
<1>1. PlanTypes(Graph, ThePlan) /\ Moves \in Nat
  BY PlanFacts
<1>2. /\ moved \in [1 .. ThePlan.channels -> 0 .. Moves]
      /\ got \in [1 .. ThePlan.channels -> Seq(Tokens)]
      /\ queue \in [DOMAIN Graph.capacity -> Seq(Tokens)]
  BY DEF TypeInv, Moving
<1>3. done < ThePlan.parts
  <2>1. submitted \in 0 .. ThePlan.parts /\ done \in Nat /\ done < submitted
        /\ ThePlan.parts \in Nat
    BY <1>1, PhaseFacts DEF TypeInv, Moving, PlanTypes
  <2> QED BY <2>1
<1>4. i \in 1 .. ThePlan.channels /\ moved[i] \in 0 .. Moves
  BY <1>2
<1>5. /\ Args[i].dir = ThePlan.dirs[i] /\ Items(i) = Moves
      /\ ThePlan.ports[i] = IF Args[i].dir = "to" THEN Board.to[Args[i].plio - 1]
                                                  ELSE Board.from[Args[i].plio - 1]
  BY <1>3, <1>4, ArgFacts
<1>6. Channel(i) \in Actors(Graph, ThePlan)
  BY <1>4, CountTypes
<1>7. c[Channel(i)] = moved[i]
  BY <1>4 DEF InStep, ChannelsInv, Moving
<1>8. moved[i] \in Nat /\ moved[i] < Moves
  BY <1>1, <1>4, <1>5
<1> QED BY <1>1, <1>2, <1>4, <1>5, <1>6, <1>7, <1>8 DEF Moving

(* A channel feeds the graph.                                              *)
LEMMA FeedStep ==
  ASSUME IInv, NEW i \in DOMAIN moved, Feed(i)
  PROVE  IInv'
<1> USE DEF IInv
<1>1. PICK c \in Counts : InStep(c)
  OBVIOUS
<1>2. Moving /\ moved[i] < Items(i) /\ Args[i].dir = "to"
  BY DEF Feed
<1> DEFINE a == Channel(i)
<1>3. /\ i \in 1 .. ThePlan.channels /\ moved[i] \in Nat /\ moved[i] < Moves
      /\ a \in Actors(Graph, ThePlan) /\ c[a] = moved[i] /\ ThePlan.dirs[i] = "to"
      /\ Board.to[Args[i].plio - 1] = ThePlan.ports[i]
      /\ moved \in [1 .. ThePlan.channels -> 0 .. Moves]
      /\ got \in [1 .. ThePlan.channels -> Seq(Tokens)]
      /\ queue \in [DOMAIN Graph.capacity -> Seq(Tokens)]
      /\ Moves \in Nat /\ moved # << >>
  BY <1>1, <1>2, ChannelFacts
<1>4. /\ ThePlan.ports[i] \in DOMAIN Graph.inputs
      /\ queue' = [e \in DOMAIN queue |-> IF e \in Graph.inputs[ThePlan.ports[i]]
                                            THEN Append(queue[e], Sent(i)) ELSE queue[e]]
      /\ moved' = [moved EXCEPT ![i] = @ + 1]
      /\ UNCHANGED <<program, phase, pc, at, kept, submitted, done, got, bufs, errorCount>>
  BY <1>3 DEF Feed
<1>5. Sent(i) \in Tokens /\ Is(Sent(i), (moved[i] \div Span) + 1)
  BY <1>2, <1>3, SentIs
<1>6. PICK d : d = [c EXCEPT ![a] = @ + 1]
  OBVIOUS
<1>7. /\ d[a] = moved[i] + 1
      /\ \A b \in Actors(Graph, ThePlan) : b # a => d[b] = c[b]
      /\ \A k : Kernel(k) # a
      /\ \A j : j # i => Channel(j) # a
  <2>1. /\ \A k : Kernel(k) # a
        /\ \A j : j # i => Channel(j) # a
    BY ActorsDiffer
  <2> HIDE DEF a
  <2>2. d[a] = c[a] + 1 /\ \A b \in Actors(Graph, ThePlan) : b # a => d[b] = c[b]
    <3>1. c \in Counts
      BY <1>1
    <3> HIDE DEF IInv
    <3> QED BY <1>3, <1>6, <3>1 DEF Counts
  <2> QED BY <1>3, <2>1, <2>2
<1>8. d \in Counts
  <2>1. c[a] + 1 \in 0 .. Moves
    BY <1>3
  <2> QED BY <1>6, <2>1 DEF Counts
<1>9. PlanChannels(Graph, Span, ThePlan) /\ PlanTypes(Graph, ThePlan)
  BY PlanFacts
<1> HIDE DEF a
<1>10. ASSUME NEW e \in DOMAIN Graph.capacity
       PROVE  QueueIs(e, queue'[e], d)
  <2>1. ThePlan.writer[e] \in Actors(Graph, ThePlan) /\ ThePlan.reader[e] \in Actors(Graph, ThePlan)
    BY CountTypes
  <2>2. /\ ThePlan.writer[e] = a <=> e \in Graph.inputs[ThePlan.ports[i]]
        /\ ThePlan.reader[e] # a
    BY <1>3, <1>4, <1>9 DEF PlanChannels, a
  <2>3. queue[e] \in Seq(Tokens) /\ Len(queue[e]) \in Nat
    BY <1>3, LenProperties
  <2>4. ThePlan.taken[e][d[ThePlan.reader[e]]] = ThePlan.taken[e][c[ThePlan.reader[e]]] + 0
    <3>1. ThePlan.taken[e][c[ThePlan.reader[e]]] \in Nat
      BY <2>1, CountTypes
    <3> QED BY <1>7, <2>1, <2>2, <3>1
  <2>5. /\ QueuesInv(c) /\ Fitting(program, ThePlan) /\ TypeInv
        /\ 0 \in 0 .. Len(queue[e]) /\ 0 \in Nat /\ 1 \in Nat
    BY <1>1, <2>3 DEF InStep
  <2>6. CASE e \in Graph.inputs[ThePlan.ports[i]]
    <3> DEFINE r == <<Sent(i)>>
    <3>1. queue'[e] = Append(queue[e], Sent(i))
      BY <1>3, <1>4, <2>6
    <3>2. Follows(queue[e], queue'[e], 0, 1, r)
      <4>1. queue[e] \in Seq(Tokens) /\ Sent(i) \in Tokens
        BY <1>5, <2>3
      <4> QED BY <3>1, <4>1, FollowsAppend
    <3>3. \A m \in Nat : ThePlan.put[e][m] = m
      <4>1. i \in 1 .. ThePlan.channels /\ ThePlan.writer[e] = Channel(i)
        BY <1>3, <2>2, <2>6 DEF a
      <4>2. ThePlan.writer[e] = Channel(i) => \A m \in Nat : ThePlan.put[e][m] = m
        BY <1>9, <4>1 DEF PlanChannels
      <4> QED BY ONLY <4>1, <4>2
    <3>4. ThePlan.put[e][d[ThePlan.writer[e]]] = ThePlan.put[e][c[ThePlan.writer[e]]] + 1
          /\ ThePlan.put[e][c[ThePlan.writer[e]]] = moved[i]
      <4>1. ThePlan.writer[e] = a
        BY ONLY <2>2, <2>6
      <4>2. c[a] = moved[i] /\ d[a] = moved[i] + 1 /\ moved[i] \in Nat
        BY <1>3, <1>7
      <4>3. ThePlan.put[e][moved[i]] = moved[i] /\ ThePlan.put[e][moved[i] + 1] = moved[i] + 1
        BY ONLY <3>3, <4>2
      <4> QED BY ONLY <4>1, <4>2, <4>3
    <3>5. Is(r[1], ThePlan.index[e][ThePlan.put[e][c[ThePlan.writer[e]]] + 1])
      <4>1. moved[i] + 1 \in 1 .. Moves /\ (moved[i] + 1) - 1 = moved[i]
        BY <1>3
      <4>2. ThePlan.index[e][moved[i] + 1] = (((moved[i] + 1) - 1) \div Span) + 1
        BY <1>3, <1>9, <2>2, <2>6, <4>1 DEF PlanChannels, Moves, a
      <4> QED BY <1>5, <3>4, <4>1, <4>2
    <3>6. \A j \in 1 .. 1 : Is(r[j], ThePlan.index[e][ThePlan.put[e][c[ThePlan.writer[e]]] + j])
      <4> HIDE DEF r
      <4>1. \A j \in 1 .. 1 : j = 1
        OBVIOUS
      <4> QED BY <3>5, <4>1
    <3> HIDE DEF r, IInv
    <3> QED BY <1>8, <2>4, <2>5, <3>2, <3>4, <3>6, QueueStep
  <2>7. CASE e \notin Graph.inputs[ThePlan.ports[i]]
    <3>1. queue'[e] = queue[e]
      BY <1>3, <1>4, <2>7
    <3>2. Follows(queue[e], queue'[e], 0, 0, << >>)
      BY <2>3, <3>1, FollowsItself
    <3>3. ThePlan.put[e][d[ThePlan.writer[e]]] = ThePlan.put[e][c[ThePlan.writer[e]]] + 0
      <4>1. ThePlan.put[e][c[ThePlan.writer[e]]] \in Nat
        BY <2>1, CountTypes
      <4> QED BY <1>7, <2>1, <2>2, <2>7, <4>1
    <3>4. \A j \in 1 .. 0 : Is(<< >>[j], ThePlan.index[e][ThePlan.put[e][c[ThePlan.writer[e]]] + j])
      <4>1. 1 .. 0 = {}
        OBVIOUS
      <4> QED BY <4>1
    <3> HIDE DEF IInv
    <3> QED BY <1>8, <2>4, <2>5, <3>2, <3>3, <3>4, QueueStep
  <2> QED BY <2>6, <2>7
<1>11. /\ queue' = [e \in DOMAIN Graph.capacity |-> queue'[e]]
       /\ kept' \in [DOMAIN Graph.kernels -> SUBSET Tokens] /\ DOMAIN at' = DOMAIN Graph.kernels
  BY <1>3, <1>4 DEF TypeInv
<1>12. /\ moved' \in [1 .. ThePlan.channels -> 0 .. Moves]
       /\ got' \in [1 .. ThePlan.channels -> Seq(Tokens)]
  BY <1>3, <1>4
<1>13. ASSUME NEW k \in DOMAIN Graph.kernels
       PROVE  KernelIs(k, d[Kernel(k)], at'[k], kept'[k])
  <2>1. d[Kernel(k)] = c[Kernel(k)]
    BY <1>7, CountTypes
  <2> QED BY <1>1, <1>4, <2>1 DEF InStep, KernelsInv, KernelIs
<1>14. ASSUME NEW j \in 1 .. ThePlan.channels
       PROVE  ChannelIs(j, d[Channel(j)], moved'[j], got'[j])
  <2>1. ChannelIs(j, c[Channel(j)], moved[j], got[j])
    BY <1>1, <1>3 DEF InStep, ChannelsInv, ChannelIs
  <2>2. CASE j = i
    BY <1>3, <1>4, <1>7, <2>1, <2>2 DEF a, ChannelIs
  <2>3. CASE j # i
    <3>1. moved'[j] = moved[j]
      BY <1>3, <1>4, <2>3
    <3>2. Channel(j) \in Actors(Graph, ThePlan)
      BY CountTypes
    <3>3. d[Channel(j)] = c[Channel(j)]
      BY <1>7, <2>3, <3>2
    <3> QED BY <1>4, <2>1, <3>1, <3>3
  <2> QED BY <2>2, <2>3
<1>15. c[a] < Moves /\ UNCHANGED <<program, phase, pc, submitted, done, bufs, errorCount>>
  BY <1>3, <1>4
<1> HIDE DEF IInv
<1> QED BY <1>1, <1>3, <1>6, <1>10, <1>11, <1>12, <1>13, <1>14, <1>15, ActorStep

(* A channel gets a token back.                                            *)
LEMMA GetBackStep ==
  ASSUME IInv, NEW i \in DOMAIN moved, GetBack(i)
  PROVE  IInv'
<1> USE DEF IInv
<1>1. PICK c \in Counts : InStep(c)
  OBVIOUS
<1>2. Moving /\ moved[i] < Items(i) /\ Args[i].dir = "from"
  BY DEF GetBack
<1> DEFINE a == Channel(i)
           o == Graph.outputs[ThePlan.ports[i]]
<1>3. /\ i \in 1 .. ThePlan.channels /\ moved[i] \in Nat /\ moved[i] < Moves
      /\ a \in Actors(Graph, ThePlan) /\ c[a] = moved[i] /\ ThePlan.dirs[i] = "from"
      /\ Board.from[Args[i].plio - 1] = ThePlan.ports[i]
      /\ moved \in [1 .. ThePlan.channels -> 0 .. Moves]
      /\ got \in [1 .. ThePlan.channels -> Seq(Tokens)]
      /\ queue \in [DOMAIN Graph.capacity -> Seq(Tokens)]
      /\ Moves \in Nat /\ moved # << >>
  BY <1>1, <1>2, ChannelFacts
<1>4. /\ ThePlan.ports[i] \in DOMAIN Graph.outputs /\ queue[o] # << >>
      /\ got' = [got EXCEPT ![i] = Append(@, Head(queue[o]))]
      /\ queue' = [queue EXCEPT ![o] = Tail(@)]
      /\ moved' = [moved EXCEPT ![i] = @ + 1]
      /\ UNCHANGED <<program, phase, pc, at, kept, submitted, done, bufs, errorCount>>
  BY <1>3 DEF GetBack
<1>5. PICK d : d = [c EXCEPT ![a] = @ + 1]
  OBVIOUS
<1>6. /\ d[a] = moved[i] + 1
      /\ \A b \in Actors(Graph, ThePlan) : b # a => d[b] = c[b]
      /\ \A k : Kernel(k) # a
      /\ \A j : j # i => Channel(j) # a
  <2>1. /\ \A k : Kernel(k) # a
        /\ \A j : j # i => Channel(j) # a
    BY ActorsDiffer
  <2> HIDE DEF a
  <2>2. d[a] = c[a] + 1 /\ \A b \in Actors(Graph, ThePlan) : b # a => d[b] = c[b]
    <3>1. c \in Counts
      BY <1>1
    <3> HIDE DEF IInv
    <3> QED BY <1>3, <1>5, <3>1 DEF Counts
  <2> QED BY <1>3, <2>1, <2>2
<1>7. d \in Counts
  <2>1. c[a] + 1 \in 0 .. Moves
    BY <1>3
  <2> QED BY <1>5, <2>1 DEF Counts
<1>8. PlanChannels(Graph, Span, ThePlan) /\ PlanTypes(Graph, ThePlan)
  BY PlanFacts
<1>9. o \in DOMAIN Graph.capacity
  BY <1>4, <1>8 DEF PlanTypes
<1> HIDE DEF a, o
<1>10. \A e \in DOMAIN Graph.capacity :
         ThePlan.reader[e] = a <=> e = o
  BY <1>3, <1>4, <1>8 DEF PlanChannels, a, o
<1>11. \A e \in DOMAIN Graph.capacity : ThePlan.writer[e] # a
  BY <1>3, <1>8 DEF PlanChannels, a
<1>12. (\A m \in Nat : ThePlan.taken[o][m] = m)
       /\ \A n \in 1 .. Moves : ThePlan.index[o][n] = ((n - 1) \div Span) + 1
  BY <1>3, <1>8, <1>9, <1>10 DEF PlanChannels, Moves, a
<1>13. queue[o] \in Seq(Tokens) /\ Len(queue[o]) \in Nat \ {0} /\ Head(queue[o]) = queue[o][1]
       /\ queue[o][1] \in Tokens
  <2>1. queue[o] \in Seq(Tokens)
    BY <1>3, <1>9
  <2>2. Len(queue[o]) \in Nat \ {0}
    BY <1>4, <2>1, EmptySeq
  <2>3. 1 \in 1 .. Len(queue[o])
    BY <2>2
  <2>4. queue[o][1] \in Tokens
    BY <2>1, <2>3, ElementOfSeq
  <2> QED BY <2>1, <2>2, <2>4
<1>14. ASSUME NEW e \in DOMAIN Graph.capacity
       PROVE  QueueIs(e, queue'[e], d)
  <2>1. ThePlan.writer[e] \in Actors(Graph, ThePlan) /\ ThePlan.reader[e] \in Actors(Graph, ThePlan)
    BY CountTypes
  <2>2. queue[e] \in Seq(Tokens) /\ Len(queue[e]) \in Nat
    BY <1>3, LenProperties
  <2>3. ThePlan.put[e][d[ThePlan.writer[e]]] = ThePlan.put[e][c[ThePlan.writer[e]]] + 0
    <3>1. ThePlan.put[e][c[ThePlan.writer[e]]] \in Nat
      BY <2>1, CountTypes
    <3> QED BY <1>6, <1>11, <2>1, <3>1
  <2>4. /\ QueuesInv(c) /\ Fitting(program, ThePlan) /\ TypeInv
        /\ 0 \in 0 .. Len(queue[e]) /\ 0 \in Nat
    BY <1>1, <2>2 DEF InStep
  <2>5. \A j \in 1 .. 0 : Is(<< >>[j], ThePlan.index[e][ThePlan.put[e][c[ThePlan.writer[e]]] + j])
    <3>1. 1 .. 0 = {}
      OBVIOUS
    <3> QED BY <3>1
  <2>6. CASE e = o
    <3>1. Follows(queue[e], queue'[e], 1, 0, << >>)
      <4> DEFINE z == Tail(queue[o])
      <4>1. queue'[e] = z
        BY <1>3, <1>4, <2>6
      <4>2. z \in Seq(Tokens) /\ Len(z) = Len(queue[o]) - 1
            /\ \A j \in 1 .. Len(z) : z[j] = queue[o][j + 1]
        BY <1>4, <1>13, HeadTailProperties
      <4> HIDE DEF z
      <4>3. \A j \in 1 .. Len(z) : j <= Len(queue[o]) - 1 /\ 1 + j = j + 1
        BY <1>13, <4>2
      <4>4. Len(z) = Len(queue[o]) - 1 + 0
        BY <1>13, <4>2
      <4> QED BY <2>6, <4>1, <4>2, <4>3, <4>4 DEF Follows
    <3>2. ThePlan.taken[e][d[ThePlan.reader[e]]] = ThePlan.taken[e][c[ThePlan.reader[e]]] + 1
      BY <1>3, <1>6, <1>9, <1>10, <1>12, <2>6
    <3>3. 1 \in 0 .. Len(queue[e])
      BY <1>13, <2>6
    <3> HIDE DEF IInv
    <3> QED BY <1>7, <2>3, <2>4, <2>5, <3>1, <3>2, <3>3, QueueStep
  <2>7. CASE e # o
    <3>1. queue'[e] = queue[e]
      BY <1>3, <1>4, <2>7
    <3>2. Follows(queue[e], queue'[e], 0, 0, << >>)
      BY <2>2, <3>1, FollowsItself
    <3>3. ThePlan.taken[e][d[ThePlan.reader[e]]] = ThePlan.taken[e][c[ThePlan.reader[e]]] + 0
      <4>1. ThePlan.taken[e][c[ThePlan.reader[e]]] \in Nat
        BY <2>1, CountTypes
      <4> QED BY <1>6, <1>10, <2>1, <2>7, <4>1
    <3> HIDE DEF IInv
    <3> QED BY <1>7, <2>3, <2>4, <2>5, <3>2, <3>3, QueueStep
  <2> QED BY <2>6, <2>7
<1>15. /\ queue' = [e \in DOMAIN Graph.capacity |-> queue'[e]]
       /\ kept' \in [DOMAIN Graph.kernels -> SUBSET Tokens] /\ DOMAIN at' = DOMAIN Graph.kernels
  BY <1>3, <1>4 DEF TypeInv
<1>16. got[i] \in Seq(Tokens) /\ Append(got[i], queue[o][1]) \in Seq(Tokens)
  BY <1>3, <1>13, AppendProperties
<1>17. /\ moved' \in [1 .. ThePlan.channels -> 0 .. Moves]
       /\ got' \in [1 .. ThePlan.channels -> Seq(Tokens)]
  BY <1>3, <1>4, <1>13, <1>16
<1>18. ASSUME NEW k \in DOMAIN Graph.kernels
       PROVE  KernelIs(k, d[Kernel(k)], at'[k], kept'[k])
  <2>1. d[Kernel(k)] = c[Kernel(k)]
    BY <1>6, CountTypes
  <2> QED BY <1>1, <1>4, <2>1 DEF InStep, KernelsInv, KernelIs
<1>19. ASSUME NEW j \in 1 .. ThePlan.channels
       PROVE  ChannelIs(j, d[Channel(j)], moved'[j], got'[j])
  <2>1. ChannelIs(j, c[Channel(j)], moved[j], got[j])
    BY <1>1, <1>3 DEF InStep, ChannelsInv, ChannelIs
  <2>2. CASE j = i
    <3> DEFINE g == Append(got[i], queue[o][1])
               n == moved[i] + 1
    <3>1. moved'[i] = n /\ got'[i] = g /\ d[Channel(i)] = n
      BY <1>3, <1>4, <1>6, <1>13 DEF a
    <3>2. Len(got[i]) = moved[i]
          /\ \A m \in 1 .. moved[i] : Is(got[i][m], ((m - 1) \div Span) + 1)
      BY <1>3, <2>1, <2>2 DEF ChannelIs
    <3>3. /\ Len(g) = moved[i] + 1 /\ g[moved[i] + 1] = queue[o][1]
          /\ \A m \in 1 .. moved[i] : g[m] = got[i][m]
      BY <1>13, <1>16, <3>2, AppendProperties
    <3>4. Is(queue[o][1], ((n - 1) \div Span) + 1)
      <4>1. ThePlan.taken[o][c[ThePlan.reader[o]]] = moved[i]
        BY <1>3, <1>9, <1>10, <1>12
      <4>2. 1 \in 1 .. Len(queue[o]) /\ n \in 1 .. Moves
        BY <1>3, <1>13
      <4>3. Is(queue[o][1], ThePlan.index[o][moved[i] + 1])
        BY <1>1, <1>9, <4>1, <4>2 DEF InStep, QueuesInv
      <4> HIDE DEF IInv
      <4>4. ThePlan.index[o][n] = ((n - 1) \div Span) + 1
        <5> HIDE DEF n
        <5> QED BY <1>12, <4>2
      <4> QED BY <4>3, <4>4
    <3> HIDE DEF g, IInv
    <3>5. ASSUME NEW m \in 1 .. n PROVE Is(g[m], ((m - 1) \div Span) + 1)
      <4>1. CASE m = n
        BY <3>3, <3>4, <4>1
      <4>2. CASE m # n
        <5>1. m \in 1 .. moved[i]
          BY <1>3, <4>2
        <5> QED BY <3>2, <3>3, <5>1
      <4> QED BY <4>1, <4>2
    <3> HIDE DEF n
    <3>6. Len(g) = n
      BY <3>3 DEF n
    <3>7. ChannelIs(i, n, n, g)
      BY <1>3, <3>5, <3>6 DEF ChannelIs
    <3> QED BY <2>2, <3>1, <3>7
  <2>3. CASE j # i
    <3>1. moved'[j] = moved[j] /\ got'[j] = got[j]
      BY <1>3, <1>4, <2>3
    <3>2. Channel(j) \in Actors(Graph, ThePlan)
      BY CountTypes
    <3>3. d[Channel(j)] = c[Channel(j)]
      BY <1>6, <2>3, <3>2
    <3> QED BY <2>1, <3>1, <3>3
  <2> QED BY <2>2, <2>3
<1>20. c[a] < Moves /\ UNCHANGED <<program, phase, pc, submitted, done, bufs, errorCount>>
  BY <1>3, <1>4
<1> HIDE DEF IInv
<1> QED BY <1>1, <1>3, <1>5, <1>14, <1>15, <1>17, <1>18, <1>19, <1>20, ActorStep

-----------------------------------------------------------------------------
(* The moves of the kernels.                                               *)

(* A kernel moves in a transaction only, and no more often than planned.   *)
LEMMA KernelGoesOn ==
  ASSUME IInv, NEW c \in Counts, InStep(c), NEW k \in DOMAIN Graph.kernels, KernelMove(k)
  PROVE  moved # << >> /\ c[Kernel(k)] \in 0 .. Moves - 1
<1> USE DEF IInv
<1>1. /\ PlanBlocks(Graph, ThePlan, k) /\ PlanTypes(Graph, ThePlan)
      /\ PlanEnds(Graph, ThePlan) /\ Moves \in Nat \ {0}
  BY PlanFacts
<1>2. PICK e \in DOMAIN Graph.capacity :
        /\ ThePlan.reader[e] = Kernel(k)
        /\ Amount(MoveAt(Graph, k, 0).need, e) \in Nat \ {0}
        /\ \A m \in 0 .. Moves : ThePlan.put[e][m] <= ThePlan.put[e][Moves]
  BY <1>1 DEF PlanBlocks, Moves
<1>3. queue[e] \in Seq(Tokens) /\ Len(queue[e]) \in Nat /\ e \in DOMAIN queue
  BY <1>2, LenProperties DEF TypeInv
<1>4. at[k] = InRound(Graph, k, c[Kernel(k)])
  BY DEF InStep, KernelsInv
<1>5. c[Kernel(k)] \in {0, Moves} => queue[e] # << >>
  <2> SUFFICES ASSUME c[Kernel(k)] \in {0, Moves} PROVE queue[e] # << >>
    OBVIOUS
  <2>1. at[k] = 1 /\ InRound(Graph, k, 0) = 1
    BY <1>4, RoundFacts
  <2>2. Graph.kernels[k][at[k]] = MoveAt(Graph, k, 0)
    BY <2>1 DEF MoveAt
  <2>3. Len(queue[e]) >= Amount(MoveAt(Graph, k, 0).need, e)
    BY <1>3, <2>2 DEF KernelMove
  <2> QED BY <1>2, <1>3, <2>3, EmptySeq
<1>6. moved # << >>
  <2> SUFFICES ASSUME moved = << >> PROVE FALSE
    OBVIOUS
  <2>1. queue[e] = << >>
    BY BetweenTransactions
  <2>2. c[Kernel(k)] = 0
    BY CountTypes DEF InStep, ChannelsInv
  <2> QED BY <1>5, <2>1, <2>2
<1>7. c[Kernel(k)] # Moves
  <2> SUFFICES ASSUME c[Kernel(k)] = Moves PROVE FALSE
    OBVIOUS
  <2>1. Len(queue[e]) # 0
    BY <1>3, <1>5, EmptySeq
  <2>2. ThePlan.put[e][c[ThePlan.writer[e]]] = ThePlan.taken[e][Moves] + Len(queue[e])
    BY <1>2 DEF InStep, QueuesInv
  <2>3. ThePlan.put[e][Moves] = ThePlan.taken[e][Moves]
    BY <1>1 DEF PlanEnds, Moves
  <2>4. c[ThePlan.writer[e]] \in 0 .. Moves
    BY CountTypes
  <2>5. ThePlan.put[e][Moves] \in Nat
    BY <1>1, CountTypes
  <2>6. ThePlan.put[e][c[ThePlan.writer[e]]] <= ThePlan.put[e][Moves]
    BY <1>2, <2>4
  <2> DEFINE l == Len(queue[e])
             n == ThePlan.put[e][Moves]
             p == ThePlan.put[e][c[ThePlan.writer[e]]]
  <2>7. n \in Nat /\ l \in Nat /\ l # 0 /\ p = n + l /\ p <= n
    BY <1>3, <2>1, <2>2, <2>3, <2>5, <2>6
  <2> HIDE DEF l, n, p
  <2> QED BY ONLY <2>7
<1>8. c[Kernel(k)] \in 0 .. Moves
  BY CountTypes
<1> QED BY <1>1, <1>6, <1>7, <1>8

(* The sources of a token are tokens from the place the plan gives it.     *)
LEMMA SourcesFrom ==
  ASSUME Fitting(program, ThePlan), TypeInv, NEW c \in Counts, InStep(c),
         NEW k \in DOMAIN Graph.kernels, NEW m, m = c[Kernel(k)],
         \A e \in DOMAIN Graph.capacity :
           /\ Amount(MoveAt(Graph, k, m).need, e) \in Nat
           /\ Len(queue[e]) >= Amount(MoveAt(Graph, k, m).need, e),
         NEW sources, NEW f \in Nat, FromPlace(Graph, ThePlan, k, m, sources, f)
  PROVE  /\ TokensOf(k, sources) \in SUBSET Tokens
         /\ \A t \in TokensOf(k, sources) : Is(t, f)
         /\ (\E x \in sources : x # Kept) => TokensOf(k, sources) # {}
<1> DEFINE of(x) == IF x = Kept THEN kept[k] ELSE {queue[x[1]][x[2]]}
<1>1. kept[k] \in SUBSET Tokens /\ queue \in [DOMAIN Graph.capacity -> Seq(Tokens)]
  BY DEF TypeInv
<1>2. ASSUME NEW x \in sources
      PROVE  of(x) \in SUBSET Tokens /\ \A t \in of(x) : Is(t, f)
  <2>1. CASE x = Kept
    <3> DEFINE h == ThePlan.keeps[k][m]
    <3>1. h \in {0, f}
      BY <2>1 DEF FromPlace
    <3>2. h # -1 => \A t \in kept[k] : h # 0 /\ Is(t, h)
      BY DEF InStep, KernelsInv
    <3> HIDE DEF h
    <3>3. \A t \in kept[k] : Is(t, f)
      BY <3>1, <3>2
    <3> QED BY <1>1, <2>1, <3>3
  <2>2. CASE x # Kept
    <3>1. PICK e \in DOMAIN Graph.capacity :
            /\ x[1] = e /\ ThePlan.reader[e] = Kernel(k)
            /\ x[2] \in 1 .. Amount(MoveAt(Graph, k, m).need, e)
            /\ ThePlan.index[e][ThePlan.taken[e][m] + x[2]] = f
      BY <2>2 DEF FromPlace
    <3>2. queue[e] \in Seq(Tokens) /\ Len(queue[e]) \in Nat
      BY <1>1, LenProperties
    <3>3. x[2] \in 1 .. Len(queue[e])
      BY <3>1, <3>2
    <3>4. queue[e][x[2]] \in Tokens
      BY <3>2, <3>3, ElementOfSeq
    <3>5. Is(queue[e][x[2]], f)
      BY <3>1, <3>3 DEF InStep, QueuesInv
    <3> QED BY <2>2, <3>1, <3>4, <3>5
  <2> QED BY <2>1, <2>2
<1>3. TokensOf(k, sources) = UNION {of(x) : x \in sources}
  BY DEF TokensOf
<1>4. \A x \in sources : x # Kept => of(x) # {}
  OBVIOUS
<1> HIDE DEF of
<1> QED BY <1>2, <1>3, <1>4

(* A kernel makes a move.                                                  *)
LEMMA KernelStep ==
  ASSUME IInv, NEW k \in DOMAIN at, KernelMove(k)
  PROVE  IInv'
<1> USE DEF IInv
<1>1. PICK c \in Counts : InStep(c)
  OBVIOUS
<1> DEFINE a == Kernel(k)
<1>2. PICK m : m = c[a]
  OBVIOUS
<1>3. PICK move : move = MoveAt(Graph, k, m)
  OBVIOUS
<1>4. k \in DOMAIN Graph.kernels /\ a \in Actors(Graph, ThePlan)
  <2>1. k \in DOMAIN Graph.kernels
    BY DEF TypeInv
  <2> QED BY <2>1 DEF Actors
<1>5. moved # << >> /\ m \in 0 .. Moves - 1
  BY <1>1, <1>2, <1>4, KernelGoesOn
<1>6. /\ Moves \in Nat \ {0} /\ m \in Nat /\ c[a] = m /\ m < Moves
      /\ PlanTakes(Graph, ThePlan, k, m) /\ PlanPuts(Graph, ThePlan, k, m)
      /\ PlanKeeps(Graph, ThePlan, k, m)
      /\ PlanChannels(Graph, Span, ThePlan) /\ PlanTypes(Graph, ThePlan)
  BY <1>2, <1>4, <1>5, PlanFacts
<1>7. at[k] = InRound(Graph, k, m) /\ Graph.kernels[k][at[k]] = move
  <2>1. at[k] = InRound(Graph, k, m)
    BY <1>1, <1>2, <1>4 DEF InStep, KernelsInv
  <2> QED BY <1>3, <2>1 DEF MoveAt
<1>8. /\ queue \in [DOMAIN Graph.capacity -> Seq(Tokens)]
      /\ kept \in [DOMAIN Graph.kernels -> SUBSET Tokens]
      /\ DOMAIN at = DOMAIN Graph.kernels
  BY DEF TypeInv
<1>9. /\ \A e \in DOMAIN Graph.capacity : Len(queue[e]) >= Amount(move.need, e)
      /\ queue' = [e \in DOMAIN Graph.capacity |->
                     SubSeq(queue[e], Amount(move.get, e) + 1, Len(queue[e]))
                       \o [j \in DOMAIN Output(move, e) |->
                             Combined(TokensOf(k, Output(move, e)[j]))]]
      /\ kept' = [kept EXCEPT ![k] = TokensOf(k, move.keep)]
      /\ at' = [at EXCEPT ![k] = (@ % Len(Graph.kernels[k])) + 1]
      /\ UNCHANGED <<program, phase, pc, submitted, done, moved, got, bufs, errorCount>>
  <2> HIDE DEF IInv
  <2> QED BY <1>7, <1>8 DEF KernelMove, runVars
<1>10. PICK d : d = [c EXCEPT ![a] = @ + 1]
  OBVIOUS
<1>11. /\ d[a] = m + 1
       /\ \A b \in Actors(Graph, ThePlan) : b # a => d[b] = c[b]
       /\ \A i : Channel(i) # a
       /\ \A l : l # k => Kernel(l) # a
  <2>1. /\ \A i : Channel(i) # a
        /\ \A l : l # k => Kernel(l) # a
    BY ActorsDiffer
  <2> HIDE DEF a
  <2>2. d[a] = c[a] + 1 /\ \A b \in Actors(Graph, ThePlan) : b # a => d[b] = c[b]
    <3>1. c \in Counts
      BY <1>1
    <3> HIDE DEF IInv
    <3> QED BY <1>4, <1>10, <3>1 DEF Counts
  <2> QED BY <1>6, <2>1, <2>2
<1>12. d \in Counts
  <2>1. m + 1 \in 0 .. Moves
    BY <1>6
  <2> QED BY <1>4, <1>6, <1>10, <2>1 DEF Counts
<1>13. \A e \in DOMAIN Graph.capacity :
         /\ Amount(MoveAt(Graph, k, m).need, e) \in Nat
         /\ Len(queue[e]) >= Amount(MoveAt(Graph, k, m).need, e)
  BY <1>3, <1>6, <1>9 DEF PlanTakes
<1> HIDE DEF a
<1>14. ASSUME NEW e \in DOMAIN Graph.capacity
       PROVE  QueueIs(e, queue'[e], d)
  <2>1. ThePlan.writer[e] \in Actors(Graph, ThePlan) /\ ThePlan.reader[e] \in Actors(Graph, ThePlan)
    BY CountTypes
  <2>2. queue[e] \in Seq(Tokens) /\ Len(queue[e]) \in Nat
    BY <1>8, LenProperties
  <2>3. PICK x : x = Amount(move.get, e)
    OBVIOUS
  <2>4. PICK w : w = IF ThePlan.writer[e] = a THEN ThePlan.put[e][m + 1] - ThePlan.put[e][m] ELSE 0
    OBVIOUS
  <2>5. PICK r : r = [j \in DOMAIN Output(move, e) |-> Combined(TokensOf(k, Output(move, e)[j]))]
    OBVIOUS
  <2>6. x \in 0 .. Len(queue[e])
    <3>1. x \in 0 .. Amount(move.need, e) /\ Amount(move.need, e) \in Nat
      BY <1>3, <1>6, <2>3 DEF PlanTakes
    <3> HIDE DEF IInv
    <3> QED BY <1>9, <2>2, <3>1
  <2>7. ThePlan.taken[e][d[ThePlan.reader[e]]] = ThePlan.taken[e][c[ThePlan.reader[e]]] + x
    <3>1. CASE ThePlan.reader[e] = a
      <4>1. ThePlan.taken[e][m + 1] = ThePlan.taken[e][m] + x
        BY <1>3, <1>6, <2>3, <3>1 DEF PlanTakes, a
      <4> QED BY <1>6, <1>11, <3>1, <4>1
    <3>2. CASE ThePlan.reader[e] # a
      <4>1. x = 0
        BY <1>3, <1>6, <2>3, <3>2 DEF PlanTakes, a
      <4>2. ThePlan.taken[e][c[ThePlan.reader[e]]] \in Nat
        BY <2>1, CountTypes
      <4> QED BY <1>11, <2>1, <3>2, <4>1, <4>2
    <3> QED BY <3>1, <3>2
  <2>8. /\ w \in Nat /\ DOMAIN Output(move, e) = 1 .. w
        /\ ThePlan.put[e][d[ThePlan.writer[e]]] = ThePlan.put[e][c[ThePlan.writer[e]]] + w
    <3>1. CASE ThePlan.writer[e] = a
      <4>1. /\ ThePlan.put[e][m] <= ThePlan.put[e][m + 1]
            /\ DOMAIN Output(move, e) = 1 .. w
        BY <1>3, <1>6, <2>4, <3>1 DEF PlanPuts, a
      <4>2. m + 1 \in Nat
        BY <1>6
      <4>3. ThePlan.put[e][m] \in Nat /\ ThePlan.put[e][m + 1] \in Nat
        BY <1>6, <4>2, CountTypes
      <4>4. w \in Nat /\ ThePlan.put[e][m + 1] = ThePlan.put[e][m] + w
        BY <2>4, <3>1, <4>1, <4>3
      <4> QED BY <1>6, <1>11, <3>1, <4>1, <4>4
    <3>2. CASE ThePlan.writer[e] # a
      <4>1. DOMAIN Output(move, e) = {} /\ w = 0 /\ 1 .. 0 = {}
        BY <1>3, <1>6, <2>4, <3>2 DEF PlanPuts, a
      <4>2. ThePlan.put[e][c[ThePlan.writer[e]]] \in Nat
        BY <2>1, CountTypes
      <4> QED BY <1>11, <2>1, <3>2, <4>1, <4>2
    <3> QED BY <3>1, <3>2
  <2>9. ASSUME NEW j \in 1 .. w
        PROVE  /\ r[j] \in Tokens
               /\ Is(r[j], ThePlan.index[e][ThePlan.put[e][c[ThePlan.writer[e]]] + j])
    <3>1. ThePlan.writer[e] = a
      BY <2>4
    <3> DEFINE f == ThePlan.index[e][ThePlan.put[e][m] + j]
               sources == Output(move, e)[j]
    <3>2. FromPlace(Graph, ThePlan, k, m, sources, f) /\ \E x_1 \in sources : x_1 # Kept
      BY <1>3, <1>6, <2>8, <3>1 DEF PlanPuts, a
    <3>3. f \in Nat
      <4>1. ThePlan.put[e][m] \in Nat
        BY <1>6, CountTypes
      <4>2. ThePlan.put[e][m] + j \in Nat
        BY <2>8, <4>1
      <4> QED BY <4>2, CountTypes
    <3> HIDE DEF f, sources
    <3>4. /\ TokensOf(k, sources) \in SUBSET Tokens
          /\ \A t \in TokensOf(k, sources) : Is(t, f)
          /\ TokensOf(k, sources) # {}
      <4>1. m = c[Kernel(k)]
        BY <1>2 DEF a
      <4> QED BY <1>1, <1>4, <1>13, <3>2, <3>3, <4>1, SourcesFrom
    <3>5. Combined(TokensOf(k, sources)) \in Tokens /\ Is(Combined(TokensOf(k, sources)), f)
      BY <3>4, CombinedIs
    <3>6. r[j] = Combined(TokensOf(k, sources))
      BY <2>5, <2>8 DEF sources
    <3>7. f = ThePlan.index[e][ThePlan.put[e][c[ThePlan.writer[e]]] + j]
      BY <1>6, <3>1 DEF f
    <3> HIDE DEF IInv
    <3> QED BY <3>5, <3>6, <3>7
  <2>10. r \in [1 .. w -> Tokens]
    <3>1. r = [j \in 1 .. w |-> r[j]]
      BY <2>5, <2>8
    <3> QED BY <2>9, <3>1
  <2>11. Follows(queue[e], queue'[e], x, w, r)
    <3> DEFINE z == SubSeq(queue[e], x + 1, Len(queue[e])) \o r
    <3>1. queue'[e] = z
      BY <1>9, <2>3, <2>5
    <3>2. /\ z \in Seq(Tokens)
          /\ Len(z) = Len(queue[e]) - x + w
          /\ \A j \in 1 .. Len(z) :
               z[j] = IF j <= Len(queue[e]) - x THEN queue[e][x + j] ELSE r[j - (Len(queue[e]) - x)]
      <4> DEFINE q == queue[e]
      <4>1. q \in Seq(Tokens) /\ x \in 0 .. Len(q) /\ w \in Nat /\ r \in [1 .. w -> Tokens]
        BY <2>2, <2>6, <2>8, <2>10
      <4> HIDE DEF IInv, q
      <4>2. LET y == SubSeq(q, x + 1, Len(q)) \o r IN
            /\ y \in Seq(Tokens)
            /\ Len(y) = Len(q) - x + w
            /\ \A j \in 1 .. Len(y) :
                 y[j] = IF j <= Len(q) - x THEN q[x + j] ELSE r[j - (Len(q) - x)]
        BY <4>1, TakeAndPut
      <4> QED BY <4>2 DEF q
    <3> HIDE DEF z
    <3> QED BY <3>1, <3>2 DEF Follows
  <2>12. \A j \in 1 .. w :
           Is(r[j], ThePlan.index[e][ThePlan.put[e][c[ThePlan.writer[e]]] + j])
    BY <2>9
  <2>13. Fitting(program, ThePlan) /\ TypeInv /\ QueuesInv(c)
    BY <1>1 DEF InStep
  <2> HIDE DEF IInv
  <2> QED BY <1>1, <1>12, <2>6, <2>7, <2>8, <2>11, <2>12, <2>13, QueueStep
<1>15. /\ queue' = [e \in DOMAIN Graph.capacity |-> queue'[e]]
       /\ DOMAIN at' = DOMAIN Graph.kernels
  BY <1>8, <1>9
<1>16. TokensOf(k, move.keep) \in SUBSET Tokens
       /\ LET f == ThePlan.keeps[k][m + 1] IN
          f # -1 => \A t \in TokensOf(k, move.keep) : f # 0 /\ Is(t, f)
  <2> DEFINE f == ThePlan.keeps[k][m + 1]
             keep == move.keep
  <2>1. \/ f = -1 /\ keep \subseteq {Kept}
        \/ f = 0 /\ keep = {}
        \/ f > 0 /\ FromPlace(Graph, ThePlan, k, m, keep, f)
    BY <1>3, <1>6 DEF PlanKeeps
  <2>2. f \in Int
    <3>1. ThePlan.keeps \in [DOMAIN Graph.kernels -> [Nat -> Int]]
      BY <1>6 DEF PlanTypes
    <3>2. m + 1 \in Nat
      BY <1>6
    <3> QED BY <1>4, <3>1, <3>2
  <2> HIDE DEF f, keep
  <2>3. CASE f = -1 /\ keep \subseteq {Kept}
    <3>1. TokensOf(k, keep) \subseteq kept[k]
      BY <2>3 DEF TokensOf
    <3> QED BY <1>4, <1>8, <2>3, <3>1 DEF f, keep
  <2>4. CASE f = 0 /\ keep = {}
    <3>1. TokensOf(k, keep) = {}
      BY <2>4 DEF TokensOf
    <3> QED BY <3>1 DEF f, keep
  <2>5. CASE f > 0 /\ FromPlace(Graph, ThePlan, k, m, keep, f)
    <3>1. f \in Nat /\ f # 0
      BY <2>2, <2>5
    <3>2. m = c[Kernel(k)]
      BY <1>2 DEF a
    <3>3. TokensOf(k, keep) \in SUBSET Tokens /\ \A t \in TokensOf(k, keep) : Is(t, f)
      BY <1>1, <1>4, <1>13, <2>5, <3>1, <3>2, SourcesFrom
    <3> HIDE DEF IInv
    <3> QED BY <3>1, <3>3 DEF f, keep
  <2> QED BY <2>1, <2>3, <2>4, <2>5
<1>17. kept' \in [DOMAIN Graph.kernels -> SUBSET Tokens]
  BY <1>8, <1>9, <1>16
<1>18. ASSUME NEW l \in DOMAIN Graph.kernels
       PROVE  KernelIs(l, d[Kernel(l)], at'[l], kept'[l])
  <2>1. CASE l = k
    <3>1. at'[l] = InRound(Graph, k, m + 1)
      BY <1>4, <1>6, <1>7, <1>8, <1>9, <2>1, RoundFacts
    <3>2. kept'[l] = TokensOf(k, move.keep)
      BY <1>4, <1>8, <1>9, <2>1
    <3>3. d[Kernel(l)] = m + 1
      BY <1>11, <2>1 DEF a
    <3> HIDE DEF IInv
    <3> QED BY <1>16, <2>1, <3>1, <3>2, <3>3 DEF KernelIs
  <2>2. CASE l # k
    <3>1. Kernel(l) \in Actors(Graph, ThePlan)
      BY CountTypes
    <3>2. d[Kernel(l)] = c[Kernel(l)]
      BY <1>11, <2>2, <3>1
    <3>3. at'[l] = at[l] /\ kept'[l] = kept[l]
      BY <1>8, <1>9, <2>2
    <3>4. KernelIs(l, c[Kernel(l)], at[l], kept[l])
      BY <1>1 DEF InStep, KernelsInv, KernelIs
    <3> QED BY <3>2, <3>3, <3>4
  <2> QED BY <2>1, <2>2
<1>19. /\ moved' \in [1 .. ThePlan.channels -> 0 .. Moves]
       /\ got' \in [1 .. ThePlan.channels -> Seq(Tokens)]
  BY <1>5, <1>9 DEF TypeInv
<1>20. ASSUME NEW i \in 1 .. ThePlan.channels
       PROVE  ChannelIs(i, d[Channel(i)], moved'[i], got'[i])
  <2>1. Channel(i) \in Actors(Graph, ThePlan)
    BY CountTypes
  <2>2. d[Channel(i)] = c[Channel(i)]
    BY <1>11, <2>1
  <2>3. ChannelIs(i, c[Channel(i)], moved[i], got[i])
    BY <1>1, <1>5 DEF InStep, ChannelsInv, ChannelIs
  <2> QED BY <1>9, <2>2, <2>3
<1>21. c[a] < Moves /\ UNCHANGED <<program, phase, pc, submitted, done, bufs, errorCount>>
  BY <1>6, <1>9
<1> HIDE DEF IInv
<1> QED BY <1>1, <1>4, <1>5, <1>10, <1>14, <1>15, <1>17, <1>18, <1>19, <1>20, <1>21, ActorStep

-----------------------------------------------------------------------------
(* The invariants of programs with a plan.                                 *)

(* Every step of the program keeps the invariant.                          *)
LEMMA InStepNext ==
  ASSUME IInv, [Next]_vars
  PROVE  IInv'
<1>1. CASE \/ Construct \/ RunAIEGraph \/ RunTestHarness \/ WaitForRes \/ WaitForGraph
           \/ Close \/ Throw \/ UNCHANGED vars
  BY <1>1, ControlSteps
<1>2. CASE Compare
  BY <1>2, CompareStep
<1>3. CASE StartTransaction
  BY <1>3, StartStep
<1>4. CASE FinishTransaction
  BY <1>4, FinishStep
<1>5. CASE \E i \in DOMAIN moved : Feed(i) \/ GetBack(i)
  BY <1>5, FeedStep, GetBackStep
<1>6. CASE \E k \in DOMAIN at : KernelMove(k)
  BY <1>6, KernelStep
<1> QED BY <1>1, <1>2, <1>3, <1>4, <1>5, <1>6 DEF Next

(* The invariant of programs that have a plan.                             *)
LEMMA InStepInvariant ==
  ASSUME \A i \in DOMAIN Programs : HasPlan(Programs[i])
  PROVE  Spec => []IInv
<1>1. Init => IInv
  BY InStepInit
<1>2. IInv /\ [Next]_vars => IInv'
  BY InStepNext
<1> QED BY <1>1, <1>2, PTL DEF Spec

(* The invariant says where every token that comes back is from.           *)
LEMMA StreamsAreInStep ==
  ASSUME IInv
  PROVE  StreamsInStep
<1> USE DEF IInv
<1>1. PICK c \in Counts : InStep(c)
  OBVIOUS
<1> SUFFICES ASSUME NEW i \in DOMAIN got, NEW n \in DOMAIN got[i]
             PROVE  got[i][n].place = Place(n)
  BY DEF StreamsInStep
<1>2. moved # << >>
  <2>1. DOMAIN << >> = {}
    OBVIOUS
  <2> QED BY <2>1 DEF TypeInv
<1>3. /\ i \in 1 .. ThePlan.channels /\ got[i] \in Seq(Tokens) /\ n \in 1 .. Len(got[i])
      /\ ThePlan.dirs[i] \in {"to", "from"}
  <2>1. got \in [1 .. ThePlan.channels -> Seq(Tokens)]
    BY <1>2 DEF TypeInv
  <2>2. i \in 1 .. ThePlan.channels /\ got[i] \in Seq(Tokens)
    BY <2>1
  <2>3. DOMAIN got[i] = 1 .. Len(got[i])
    BY <2>2, LenProperties
  <2>4. ThePlan.dirs[i] \in {"to", "from"}
    BY <2>2, PlanFacts DEF PlanTypes
  <2> QED BY <2>2, <2>3, <2>4
<1>4. CASE ThePlan.dirs[i] = "from"
  <2>1. Is(got[i][n], ((n - 1) \div Span) + 1)
    BY <1>1, <1>2, <1>3, <1>4 DEF InStep, ChannelsInv
  <2> QED BY <2>1 DEF Is, Place
<1>5. CASE ThePlan.dirs[i] = "to"
  <2>1. got[i] = << >>
    BY <1>1, <1>2, <1>3, <1>5 DEF InStep, ChannelsInv
  <2>2. 1 .. Len(<< >>) = {}
    BY EmptySeq
  <2> QED BY <1>3, <2>1, <2>2
<1> QED BY <1>3, <1>4, <1>5

(* After all moves of all, the graph is empty.                             *)
LEMMA NothingIsLeft ==
  ASSUME IInv
  PROVE  NothingLeftOver
<1> USE DEF IInv
<1> SUFFICES ASSUME pc = "waited"
             PROVE  /\ \A e \in DOMAIN queue : queue[e] = << >>
                    /\ \A k \in DOMAIN at : at[k] = 1
  BY DEF NothingLeftOver
<1>1. done = ThePlan.parts
  BY DEF ControlInv
<1>2. ThePlan.parts \in Nat /\ submitted \in 0 .. ThePlan.parts
  BY PlanFacts DEF PlanTypes, TypeInv
<1>3. moved = << >>
  BY <1>1, <1>2 DEF TypeInv
<1>4. DOMAIN queue = DOMAIN Graph.capacity /\ DOMAIN at = DOMAIN Graph.kernels
  BY DEF TypeInv
<1> QED BY <1>3, <1>4, BetweenTransactions

(* Whatever programs have a plan keep their data in step.                  *)
THEOREM PlannedProgramsGolden ==
  ASSUME \A i \in DOMAIN Programs : HasPlan(Programs[i])
  PROVE  Spec => [](StreamsInStep /\ NothingLeftOver /\ ResultsGolden)
<1>1. Spec => []IInv
  BY InStepInvariant
<1>2. IInv => StreamsInStep /\ NothingLeftOver /\ ResultsGolden
  BY StreamsAreInStep, NothingIsLeft DEF IInv, ResultsGolden
<1> QED BY <1>1, <1>2, PTL

-----------------------------------------------------------------------------
(* Plans of the examples.                                                  *)
AdderQueues == {In(1), In(3), Out(2)}
AdderPlan(items, bytes, reps, parts) == [
  items |-> items, bytes |-> bytes, reps |-> reps, parts |-> parts,
  channels |-> 3, dirs |-> <<"to", "to", "from">>, ports |-> <<1, 3, 2>>,
  writer |-> [e \in AdderQueues |->
                IF e = In(1) THEN Channel(1)
                ELSE IF e = In(3) THEN Channel(2) ELSE Kernel("adder")],
  reader |-> [e \in AdderQueues |-> IF e = Out(2) THEN Channel(3) ELSE Kernel("adder")],
  put |-> [e \in AdderQueues |-> [m \in Nat |-> m]],
  taken |-> [e \in AdderQueues |-> [m \in Nat |-> m]],
  index |-> [e \in AdderQueues |-> [n \in Nat |-> n]],
  keeps |-> [k \in {"adder"} |-> [m \in Nat |-> 0]],
  rank |-> [a \in {Kernel("adder"), Channel(1), Channel(2), Channel(3)} |->
              IF a = Kernel("adder") THEN 1 ELSE 0]]

(* The queues of an adder.                                                 *)
LEMMA AdderQueuesDiffer == In(1) # In(3) /\ In(1) # Out(2) /\ In(3) # Out(2)
BY DEF In, Out

(* The graphs of the adders.                                               *)
IsAdder(g) ==
  /\ g.inputs = [port \in {1, 3} |-> {In(port)}]
  /\ g.outputs = [port \in {2} |-> Out(port)]
  /\ DOMAIN g.capacity = AdderQueues
  /\ g.kernels = "adder" :> Vck190AdderKernel

(* The adders of all boards have the same graph.                           *)
LEMMA AdderGraphs ==
  /\ IsAdder(Vck190AdderGraph) /\ IsAdder(Vek280AdderGraph) /\ IsAdder(Vek385AdderGraph)
  /\ IsAdder(StreamAdderGraph)
<1>1. IsAdder(Vck190AdderGraph)
  BY DEF IsAdder, Vck190AdderGraph, AdderQueues
<1>2. IsAdder(Vek280AdderGraph)
  BY <1>1 DEF IsAdder, Vek280AdderGraph, Vek280AdderKernel, Vck190AdderGraph, AdderQueues
<1>3. IsAdder(Vek385AdderGraph)
  BY <1>1 DEF IsAdder, Vek385AdderGraph, Vek385AdderKernel, Vck190AdderGraph, AdderQueues
<1>4. IsAdder(StreamAdderGraph)
  BY DEF IsAdder, StreamAdderGraph, Vck190AdderGraph, AdderQueues
<1> QED BY <1>1, <1>2, <1>3, <1>4

(* The only move of the kernel.                                            *)
LEMMA AdderMove ==
  ASSUME NEW g, IsAdder(g), NEW m \in Nat
  PROVE  /\ DOMAIN g.kernels = {"adder"} /\ Len(g.kernels["adder"]) = 1
         /\ LET move == MoveAt(g, "adder", m) IN
            /\ move.need = One(In(1)) @@ One(In(3)) /\ move.get = One(In(1)) @@ One(In(3))
            /\ move.put = PutOne(Out(2), {First(In(1)), First(In(3))}) /\ move.keep = {}
<1>1. DOMAIN g.kernels = {"adder"} /\ g.kernels["adder"] = Vck190AdderKernel
  BY DEF IsAdder, :>
<1>2. Len(Vck190AdderKernel) = 1
  BY DEF Vck190AdderKernel
<1>3. m % 1 = 0
  <2>1. m = 1 * m + 0 /\ 0 \in 0 .. 1 - 1
    OBVIOUS
  <2> QED BY <2>1, DivisionUnique
<1>4. MoveAt(g, "adder", m) = Vck190AdderKernel[1]
  BY <1>1, <1>2, <1>3 DEF MoveAt, InRound
<1>5. Vck190AdderKernel[1] = Streaming(One(In(1)) @@ One(In(3)),
                                       PutOne(Out(2), {First(In(1)), First(In(3))}), {})
  BY DEF Vck190AdderKernel
<1> QED BY <1>1, <1>2, <1>4, <1>5 DEF Streaming, Holding

(* The one move of an adder takes a token of each input and adds them.     *)
LEMMA AdderAmounts ==
  ASSUME NEW g, IsAdder(g), NEW m \in Nat
  PROVE  LET move == MoveAt(g, "adder", m) IN
         /\ \A e \in AdderQueues :
              /\ Amount(move.need, e) = IF e = Out(2) THEN 0 ELSE 1
              /\ Amount(move.get, e) = IF e = Out(2) THEN 0 ELSE 1
              /\ Output(move, e) = IF e = Out(2) THEN <<{First(In(1)), First(In(3))}>> ELSE << >>
         /\ move.keep = {}
<1> DEFINE move == MoveAt(g, "adder", m)
<1>1. /\ move.need = One(In(1)) @@ One(In(3)) /\ move.get = One(In(1)) @@ One(In(3))
      /\ move.put = PutOne(Out(2), {First(In(1)), First(In(3))}) /\ move.keep = {}
  BY AdderMove
<1> HIDE DEF move
<1>2. \A e \in AdderQueues : /\ Amount(move.need, e) = IF e = Out(2) THEN 0 ELSE 1
                             /\ Amount(move.get, e) = IF e = Out(2) THEN 0 ELSE 1
  BY <1>1, AdderQueuesDiffer DEF Amount, One, :>, @@, AdderQueues
<1>3. \A e \in AdderQueues :
        Output(move, e) = IF e = Out(2) THEN <<{First(In(1)), First(In(3))}>> ELSE << >>
  BY <1>1, AdderQueuesDiffer DEF Output, PutOne, :>, AdderQueues
<1> QED BY <1>1, <1>2, <1>3 DEF move

(* The plan of an adder, one move for each item.                           *)
LEMMA AdderPlanned ==
  ASSUME NEW g, IsAdder(g), NEW items \in Nat \ {0}, NEW bytes \in Nat,
         NEW reps \in Nat \ {0}, NEW parts \in Nat \ {0}
  PROVE  Plan(g, 1, AdderPlan(items, bytes, reps, parts))
<1> DEFINE s == AdderPlan(items, bytes, reps, parts)
           adder == Kernel("adder")
<1>1. /\ s.items = items /\ s.bytes = bytes /\ s.reps = reps /\ s.parts = parts
      /\ s.channels = 3 /\ s.dirs = <<"to", "to", "from">> /\ s.ports = <<1, 3, 2>>
      /\ s.writer = [e \in AdderQueues |->
                       IF e = In(1) THEN Channel(1)
                       ELSE IF e = In(3) THEN Channel(2) ELSE adder]
      /\ s.reader = [e \in AdderQueues |-> IF e = Out(2) THEN Channel(3) ELSE adder]
      /\ s.put = [e \in AdderQueues |-> [m \in Nat |-> m]]
      /\ s.taken = [e \in AdderQueues |-> [m \in Nat |-> m]]
      /\ s.index = [e \in AdderQueues |-> [n \in Nat |-> n]]
      /\ s.keeps = [k \in {"adder"} |-> [m \in Nat |-> 0]]
      /\ s.rank = [a \in {adder, Channel(1), Channel(2), Channel(3)} |->
                     IF a = adder THEN 1 ELSE 0]
  BY DEF AdderPlan
<1> HIDE DEF s
<1> DEFINE total == Total(s)
<1>2. total \in Nat \ {0}
  BY <1>1 DEF Total
<1> HIDE DEF total
<1>3. /\ DOMAIN g.kernels = {"adder"} /\ Len(g.kernels["adder"]) = 1
      /\ DOMAIN g.capacity = AdderQueues
  BY AdderMove DEF IsAdder
<1>4. Actors(g, s) = {adder, Channel(1), Channel(2), Channel(3)}
  <2>1. 1 .. 3 = {1, 2, 3}
    OBVIOUS
  <2> QED BY <1>1, <1>3, <2>1 DEF Actors
<1>5. /\ In(1) \in AdderQueues /\ In(3) \in AdderQueues /\ Out(2) \in AdderQueues
      /\ \A e \in AdderQueues : e = In(1) \/ e = In(3) \/ e = Out(2)
      /\ In(1) # In(3) /\ In(1) # Out(2) /\ In(3) # Out(2)
  BY AdderQueuesDiffer DEF AdderQueues
<1>6. /\ adder # Channel(1) /\ adder # Channel(2) /\ adder # Channel(3)
      /\ Channel(1) # Channel(2) /\ Channel(1) # Channel(3) /\ Channel(2) # Channel(3)
  BY ActorsDiffer
<1> HIDE DEF adder
<1>7. /\ s.writer[In(1)] = Channel(1) /\ s.writer[In(3)] = Channel(2) /\ s.writer[Out(2)] = adder
      /\ s.reader[In(1)] = adder /\ s.reader[In(3)] = adder /\ s.reader[Out(2)] = Channel(3)
  BY <1>1, <1>5
<1>8. \A e \in AdderQueues, m \in Nat :
        s.put[e][m] = m /\ s.taken[e][m] = m /\ s.index[e][m] = m
  BY <1>1
<1>9. PlanTypes(g, s)
  <2>1. /\ s.items \in Nat \ {0} /\ s.reps \in Nat \ {0} /\ s.parts \in Nat \ {0}
        /\ s.bytes \in Nat /\ s.channels \in Nat \ {0}
    BY <1>1
  <2>2. /\ s.dirs \in [1 .. s.channels -> {"to", "from"}]
        /\ \E i \in 1 .. s.channels : s.dirs[i] = "to"
        /\ s.ports \in [1 .. s.channels -> Nat]
    BY <1>1
  <2>3. \A port \in DOMAIN g.outputs : g.outputs[port] \in DOMAIN g.capacity
    BY <1>3, <1>5 DEF IsAdder
  <2>4. s.writer \in [DOMAIN g.capacity -> Actors(g, s)]
        /\ s.reader \in [DOMAIN g.capacity -> Actors(g, s)]
    BY <1>1, <1>3, <1>4
  <2>5. /\ s.put \in [DOMAIN g.capacity -> [Nat -> Nat]]
        /\ s.taken \in [DOMAIN g.capacity -> [Nat -> Nat]]
        /\ s.index \in [DOMAIN g.capacity -> [Nat -> Nat]]
        /\ s.keeps \in [DOMAIN g.kernels -> [Nat -> Int]]
    BY <1>1, <1>3
  <2>6. s.rank \in [Actors(g, s) -> Nat]
    BY <1>1, <1>4
  <2> QED BY <2>1, <2>2, <2>3, <2>4, <2>5, <2>6 DEF PlanTypes
<1>10. PlanEnds(g, s)
  <2>1. total % 1 = 0
    <3>1. total = 1 * total + 0 /\ 0 \in 0 .. 1 - 1
      BY <1>2
    <3> QED BY <1>2, <3>1, DivisionUnique
  <2>2. \A e \in AdderQueues : /\ s.put[e][0] = 0 /\ s.taken[e][0] = 0
                              /\ s.put[e][total] = s.taken[e][total]
    BY <1>2, <1>8
  <2>3. s.keeps["adder"][0] = 0 /\ s.keeps["adder"][total] = 0
    BY <1>1, <1>2
  <2>4. total % Len(g.kernels["adder"]) = 0 /\ Len(g.kernels["adder"]) \in Nat \ {0}
    BY <1>3, <2>1
  <2>5. ASSUME NEW k \in {"adder"}
        PROVE  /\ Len(g.kernels[k]) \in Nat \ {0}
               /\ total % Len(g.kernels[k]) = 0
               /\ s.keeps[k][0] \in {-1, 0} /\ s.keeps[k][total] = s.keeps[k][0]
    <3>1. k = "adder"
      OBVIOUS
    <3>2. s.keeps[k][0] \in {-1, 0} /\ s.keeps[k][total] = s.keeps[k][0]
      BY <2>3, <3>1
    <3> QED BY <2>4, <3>1, <3>2
  <2> QED BY <1>3, <2>2, <2>5 DEF PlanEnds, total
<1>11. PlanChannels(g, 1, s)
  <2> SUFFICES ASSUME NEW i \in {1, 2, 3}, NEW e \in AdderQueues
               PROVE  /\ s.writer[e] = Channel(i) <=>
                           s.dirs[i] = "to" /\ s.ports[i] \in DOMAIN g.inputs
                           /\ e \in g.inputs[s.ports[i]]
                      /\ s.reader[e] = Channel(i) <=>
                           s.dirs[i] = "from" /\ s.ports[i] \in DOMAIN g.outputs
                           /\ e = g.outputs[s.ports[i]]
                      /\ \A m \in Nat : s.put[e][m] = m /\ s.taken[e][m] = m
                      /\ \A n \in 1 .. total : s.index[e][n] = ((n - 1) \div 1) + 1
    <3>1. 1 .. s.channels = {1, 2, 3}
      BY <1>1
    <3> QED BY <1>3, <3>1 DEF PlanChannels, total
  <2>1. /\ g.inputs[1] = {In(1)} /\ g.inputs[3] = {In(3)} /\ DOMAIN g.inputs = {1, 3}
        /\ g.outputs[2] = Out(2) /\ DOMAIN g.outputs = {2}
    BY DEF IsAdder
  <2>2. /\ s.dirs[1] = "to" /\ s.dirs[2] = "to" /\ s.dirs[3] = "from"
        /\ s.ports[1] = 1 /\ s.ports[2] = 3 /\ s.ports[3] = 2
    BY <1>1
  <2>3. s.writer[e] = Channel(i) <=>
          s.dirs[i] = "to" /\ s.ports[i] \in DOMAIN g.inputs /\ e \in g.inputs[s.ports[i]]
    BY <1>5, <1>6, <1>7, <2>1, <2>2
  <2>4. s.reader[e] = Channel(i) <=>
          s.dirs[i] = "from" /\ s.ports[i] \in DOMAIN g.outputs /\ e = g.outputs[s.ports[i]]
    BY <1>5, <1>6, <1>7, <2>1, <2>2
  <2>5. ASSUME NEW n \in 1 .. total PROVE s.index[e][n] = ((n - 1) \div 1) + 1
    <3> DEFINE y == n - 1
    <3>1. y \in Int /\ y = 1 * y + 0 /\ 0 \in 0 .. 1 - 1 /\ y + 1 = n /\ n \in Nat
      BY <1>2
    <3> HIDE DEF y
    <3>2. y \div 1 = y
      BY <3>1, DivisionUnique
    <3>3. s.index[e][n] = (y \div 1) + 1
      BY <1>8, <3>1, <3>2
    <3> QED BY <3>3 DEF y
  <2> QED BY <1>8, <2>3, <2>4, <2>5
<1>12. ASSUME NEW m \in Nat
       PROVE  /\ PlanTakes(g, s, "adder", m) /\ PlanPuts(g, s, "adder", m)
              /\ PlanKeeps(g, s, "adder", m)
  <2>1. PICK move : move = MoveAt(g, "adder", m)
    OBVIOUS
  <2>2. /\ \A e \in AdderQueues :
             /\ Amount(move.need, e) = IF e = Out(2) THEN 0 ELSE 1
             /\ Amount(move.get, e) = IF e = Out(2) THEN 0 ELSE 1
             /\ Output(move, e) = IF e = Out(2) THEN <<{First(In(1)), First(In(3))}>> ELSE << >>
        /\ move.keep = {}
    BY <2>1, AdderAmounts
  <2>3. \A e \in AdderQueues : s.put[e][m + 1] = m + 1 /\ s.taken[e][m + 1] = m + 1
    BY <1>8
  <2>4. PlanTakes(g, s, "adder", m)
    BY <1>3, <1>5, <1>6, <1>7, <1>8, <2>1, <2>2, <2>3 DEF PlanTakes, adder
  <2>5. PlanKeeps(g, s, "adder", m)
    BY <1>1, <2>1, <2>2 DEF PlanKeeps
  <2>6. FromPlace(g, s, "adder", m, {First(In(1)), First(In(3))}, m + 1)
    <3> SUFFICES ASSUME NEW e \in {In(1), In(3)}
                 PROVE  /\ First(e) # Kept
                        /\ First(e)[1] = e /\ s.reader[e] = adder
                        /\ First(e)[2] \in 1 .. Amount(move.need, e)
                        /\ s.index[e][s.taken[e][m] + First(e)[2]] = m + 1
      BY <1>3, <1>5, <2>1 DEF FromPlace, adder
    <3>1. First(e) # Kept /\ First(e)[1] = e /\ First(e)[2] = 1
      BY DEF First, Kept, In, Net
    <3> QED BY <1>5, <1>7, <1>8, <2>2, <3>1
  <2>7. First(In(1)) # Kept
    BY DEF First, Kept, In, Net
  <2>8. PlanPuts(g, s, "adder", m)
    <3> SUFFICES ASSUME NEW e \in AdderQueues
                 PROVE  IF s.writer[e] = adder
                          THEN /\ s.put[e][m] <= s.put[e][m + 1]
                               /\ DOMAIN Output(move, e) = 1 .. s.put[e][m + 1] - s.put[e][m]
                               /\ \A j \in DOMAIN Output(move, e) :
                                    /\ FromPlace(g, s, "adder", m, Output(move, e)[j],
                                                 s.index[e][s.put[e][m] + j])
                                    /\ \E x \in Output(move, e)[j] : x # Kept
                          ELSE DOMAIN Output(move, e) = {}
      BY <1>3, <2>1 DEF PlanPuts, adder
    <3>1. CASE e = Out(2)
      <4>1. Output(move, e) = <<{First(In(1)), First(In(3))}>> /\ s.writer[e] = adder
        BY <1>7, <2>2, <3>1
      <4>2. DOMAIN Output(move, e) = {1} /\ Output(move, e)[1] = {First(In(1)), First(In(3))}
        BY <4>1
      <4>3. /\ s.put[e][m] = m /\ s.put[e][m + 1] = m + 1 /\ s.index[e][m + 1] = m + 1
            /\ 1 .. (m + 1) - m = {1} /\ m <= m + 1
        BY <1>8
      <4> QED BY <2>6, <2>7, <4>1, <4>2, <4>3
    <3>2. CASE e # Out(2)
      <4>1. s.writer[e] # adder /\ Output(move, e) = << >>
        BY <1>5, <1>6, <1>7, <2>2, <3>2
      <4> QED BY <4>1
    <3> QED BY <3>1, <3>2
  <2> QED BY <2>4, <2>5, <2>8
<1>13. PlanBlocks(g, s, "adder")
  <2>1. Amount(MoveAt(g, "adder", 0).need, In(1)) = 1
    BY <1>5, AdderAmounts
  <2>2. \A m \in 0 .. total : s.put[In(1)][m] <= s.put[In(1)][total]
    BY <1>2, <1>5, <1>8
  <2>3. s.rank[Channel(3)] < s.rank[adder]
    BY <1>1, <1>6
  <2>4. \A m \in 0 .. total - 1 : s.put[Out(2)][m] < s.taken[Out(2)][total]
    BY <1>2, <1>5, <1>8
  <2> QED BY <1>3, <1>5, <1>7, <2>1, <2>2, <2>3, <2>4 DEF PlanBlocks, total, adder
<1>14. \A m \in 0 .. Total(s) - 1 : m \in Nat
  BY <1>2 DEF total
<1> QED BY <1>3, <1>9, <1>10, <1>11, <1>12, <1>13, <1>14 DEF Plan, s

-----------------------------------------------------------------------------
(* The programs of the adders.                                             *)

Next1(last) == [strm \in 0 .. last |-> strm + 1]
Straight(last) == Wired(Same(0 .. last), Same(0 .. last), Next1(last))

(* Same wires through both functions, ports numbered from 1.               *)
LEMMA StraightIs ==
  ASSUME NEW last \in Nat, NEW n \in 0 .. last
  PROVE  Straight(last)[n] = n + 1
<1>1. DOMAIN Same(0 .. last) = 0 .. last /\ Same(0 .. last)[n] = n
  BY DEF Same
<1>2. Next1(last)[n] = n + 1
  BY DEF Next1
<1>3. Straight(last)[n] = Next1(last)[Same(0 .. last)[Same(0 .. last)[n]]]
  BY <1>1 DEF Straight, Wired
<1> QED BY <1>1, <1>2, <1>3

(* The wires of the vck190, on which port n + 1 follows stream n.          *)
LEMMA Vck190Wires ==
  ASSUME NEW n \in 0 .. 35
  PROVE  Boards["vck190"].to[n] = n + 1 /\ Boards["vck190"].from[n] = n + 1
<1>1. /\ Boards["vck190"].to = Wired(Vck190Feeds, Vck190Call.to, Vck190Ports.to)
      /\ Boards["vck190"].from = Wired(Vck190Gets, Vck190Call.from, Vck190Ports.from)
  BY DEF Boards
<1>2. /\ Vck190Feeds = Same(0 .. 35) /\ Vck190Gets = Same(0 .. 35)
      /\ Vck190Call.to = Same(0 .. 35) /\ Vck190Call.from = Same(0 .. 35)
  BY DEF Vck190Feeds, Vck190Gets, Vck190Call
<1>3. Vck190Ports.to = Next1(35) /\ Vck190Ports.from = Next1(35)
  BY DEF Vck190Ports, Next1
<1>4. Boards["vck190"].to = Straight(35) /\ Boards["vck190"].from = Straight(35)
  BY ONLY <1>1, <1>2, <1>3 DEF Straight
<1> QED BY <1>4, StraightIs

(* The first sixteen streams reach the port of their number on any board.  *)
LEMMA PortsOfBoards ==
  ASSUME NEW device \in {"vck190", "vek280", "vek385"}, NEW n \in 0 .. 15
  PROVE  Boards[device].to[n] = n + 1 /\ Boards[device].from[n] = n + 1
<1>1. n \in 0 .. 35
  OBVIOUS
<1>2. Boards["vck190"].to[n] = n + 1 /\ Boards["vck190"].from[n] = n + 1
  BY <1>1, Vck190Wires
<1>3. Boards["vek280"].to = Straight(15) /\ Boards["vek280"].from = Straight(15)
  <2>1. /\ Boards["vek280"].to = Wired(Vek280Feeds, Vek280Call.to, Vek280Ports.to)
        /\ Boards["vek280"].from = Wired(Vek280Gets, Vek280Call.from, Vek280Ports.from)
    BY DEF Boards
  <2>2. /\ Vek280Feeds = Same(0 .. 15) /\ Vek280Gets = Same(0 .. 15)
        /\ Vek280Call.to = Same(0 .. 15) /\ Vek280Call.from = Same(0 .. 15)
    BY DEF Vek280Feeds, Vek280Gets, Vek280Call
  <2>3. Vek280Ports.to = Next1(15) /\ Vek280Ports.from = Next1(15)
    BY DEF Vek280Ports, Next1
  <2> QED BY ONLY <2>1, <2>2, <2>3 DEF Straight
<1>4. Boards["vek385"].to = Straight(15) /\ Boards["vek385"].from = Straight(15)
  <2>1. /\ Boards["vek385"].to = Wired(Vek385Feeds, Vek385Call.to, Vek385Ports.to)
        /\ Boards["vek385"].from = Wired(Vek385Gets, Vek385Call.from, Vek385Ports.from)
    BY DEF Boards
  <2>2. /\ Vek385Feeds = Same(0 .. 15) /\ Vek385Gets = Same(0 .. 15)
        /\ Vek385Call.to = Same(0 .. 15) /\ Vek385Call.from = Same(0 .. 15)
    BY DEF Vek385Feeds, Vek385Gets, Vek385Call
  <2>3. Vek385Ports.to = Next1(15) /\ Vek385Ports.from = Next1(15)
    BY DEF Vek385Ports, Next1
  <2> QED BY ONLY <2>1, <2>2, <2>3 DEF Straight
<1>5. Straight(15)[n] = n + 1
  BY StraightIs
<1>6. device = "vck190" \/ device = "vek280" \/ device = "vek385"
  OBVIOUS
<1> QED BY ONLY <1>2, <1>3, <1>4, <1>5, <1>6

(* With a span of 1 the input is its own places.                           *)
LEMMA InputOfPlaces ==
  ASSUME NEW n \in Nat
  PROVE  Input(n, 1) = [x \in 1 .. n |-> x] /\ Input(n, 1) \in [1 .. n -> Nat]
<1>1. \A x \in 1 .. n : ((x - 1) \div 1) + 1 = x
  <2> TAKE x \in 1 .. n
  <2> DEFINE y == x - 1
  <2>1. y \in Int /\ y = 1 * y + 0 /\ 0 \in 0 .. 1 - 1
    OBVIOUS
  <2> HIDE DEF y
  <2>2. y \div 1 = y
    BY <2>1, DivisionUnique
  <2> QED BY <2>2 DEF y
<1> QED BY <1>1 DEF Input

(* A phase of an adder with results in the vector to.                      *)
AdderPhase(ph, items, bytes, reps, parts, to) ==
  /\ ph.mode \in {"FUNC", "PERF"}
  /\ ph.asks = "valid" \/ (ph.asks = "always" /\ ph.mode = "FUNC")
  /\ ph.golden = {to}
  /\ Len(ph.transactions) = parts
  /\ \A n \in 1 .. parts :
       /\ DOMAIN ph.transactions[n] = 1 .. 3
       /\ \A i \in 1 .. 3 :
            ph.transactions[n][i] =
              [AdderArgs(items, bytes, reps, to)[i] EXCEPT !.skip = (n - 1) * items]

AdderBuffer(i, to) == IF i = 1 THEN "a" ELSE IF i = 2 THEN "b" ELSE to

(* The i-th argument of the n-th transaction.                              *)
AdderArgument(arg, items, bytes, reps, to, n, i) ==
  /\ arg.dir = IF i = 3 THEN "from" ELSE "to"
  /\ arg.plio = IF i = 1 THEN 1 ELSE IF i = 2 THEN 3 ELSE 2
  /\ arg.items = items /\ arg.bytes = bytes /\ arg.rep = reps
  /\ arg.skip = (n - 1) * items
  /\ arg.buf = AdderBuffer(i, to)

(* A phase of an adder has its arguments in every transaction.             *)
LEMMA AdderPhaseArguments ==
  ASSUME NEW ph, NEW items, NEW bytes, NEW reps, NEW parts, NEW to,
         AdderPhase(ph, items, bytes, reps, parts, to),
         NEW n \in 1 .. parts, NEW i \in 1 .. 3
  PROVE  AdderArgument(ph.transactions[n][i], items, bytes, reps, to, n, i)
<1> DEFINE old == AdderArgs(items, bytes, reps, to)[i]
           skip == (n - 1) * items
<1>1. old = Arg(IF i = 3 THEN "from" ELSE "to", IF i = 1 THEN 1 ELSE IF i = 2 THEN 3 ELSE 2,
                items, bytes, reps, AdderBuffer(i, to))
  <2>1. i = 1 \/ i = 2 \/ i = 3
    OBVIOUS
  <2> QED BY <2>1 DEF AdderArgs, AdderBuffer
<1> DEFINE arg == ph.transactions[n][i]
<1>2. arg = [old EXCEPT !.skip = skip]
  BY DEF AdderPhase
<1> HIDE DEF old, skip, arg
<1>3. /\ arg.dir = old.dir /\ arg.plio = old.plio /\ arg.items = old.items
      /\ arg.bytes = old.bytes /\ arg.rep = old.rep /\ arg.buf = old.buf /\ arg.skip = skip
  BY <1>1, <1>2 DEF Arg
<1>4. AdderArgument(arg, items, bytes, reps, to, n, i)
  BY <1>1, <1>3 DEF AdderArgument, Arg, skip
<1> QED BY <1>4 DEF arg

(* Such a phase fits the plan of the adder.                                *)
LEMMA AdderPhaseFits ==
  ASSUME NEW p, NEW s, NEW h, NEW items, NEW bytes, NEW reps, NEW parts \in Nat \ {0}, NEW to,
         AdderPhase(p.phases[h], items, bytes, reps, parts, to),
         s.items = items, s.bytes = bytes, s.reps = reps, s.parts = parts,
         s.channels = 3, s.dirs = <<"to", "to", "from">>, s.ports = <<1, 3, 2>>,
         p.span = 1, p.device \in {"vck190", "vek280", "vek385"},
         "a" \in DOMAIN p.data, "b" \in DOMAIN p.data, to \in DOMAIN p.data,
         to # "a", to # "b"
  PROVE  PhaseFits(p, s, h)
<1> DEFINE ph == p.phases[h]
           buffer(i) == ph.transactions[1][i].buf
<1>1. 1 \in 1 .. parts /\ 1 .. 3 = {1, 2, 3}
  OBVIOUS
<1>2. \A i \in 1 .. 3 : buffer(i) = AdderBuffer(i, to)
  <2> TAKE i \in 1 .. 3
  <2>1. AdderArgument(ph.transactions[1][i], items, bytes, reps, to, 1, i)
    BY <1>1, AdderPhaseArguments
  <2> QED BY <2>1 DEF AdderArgument
<1>3. \A i \in 1 .. 3 : /\ s.dirs[i] = IF i = 3 THEN "from" ELSE "to"
                        /\ s.ports[i] = IF i = 1 THEN 1 ELSE IF i = 2 THEN 3 ELSE 2
  BY <1>1
<1>4. ASSUME NEW n \in 1 .. parts, NEW i \in 1 .. 3, NEW arg, arg = ph.transactions[n][i]
      PROVE  ArgumentFits(p.device, s, arg, n, i) /\ arg.buf = buffer(i)
  <2>1. /\ arg.dir = IF i = 3 THEN "from" ELSE "to"
        /\ arg.plio = IF i = 1 THEN 1 ELSE IF i = 2 THEN 3 ELSE 2
        /\ arg.items = items /\ arg.bytes = bytes /\ arg.rep = reps
        /\ arg.skip = (n - 1) * items
        /\ arg.buf = AdderBuffer(i, to)
    <3>1. AdderArgument(ph.transactions[n][i], items, bytes, reps, to, n, i)
      BY AdderPhaseArguments
    <3>2. AdderArgument(arg, items, bytes, reps, to, n, i)
      BY ONLY <1>4, <3>1
    <3> QED BY ONLY <3>2 DEF AdderArgument
  <2>2. arg.plio - 1 \in 0 .. 15 /\ (arg.plio - 1) + 1 = arg.plio
    BY <2>1
  <2>3. /\ Boards[p.device].to[arg.plio - 1] = arg.plio
        /\ Boards[p.device].from[arg.plio - 1] = arg.plio
    BY <2>2, PortsOfBoards
  <2>4. s.ports[i] = arg.plio
    BY <1>3, <2>1
  <2>5. arg.dir = s.dirs[i]
    BY <1>3, <2>1
  <2> HIDE DEF ph
  <2> QED BY <1>2, <2>1, <2>3, <2>4, <2>5 DEF ArgumentFits
<1>5. /\ ph.mode \in {"FUNC", "PERF"}
      /\ ph.asks = "valid" \/ (ph.asks \in {"always", "unset"} /\ ph.mode = "FUNC")
      /\ Len(ph.transactions) = s.parts
      /\ \A n \in 1 .. s.parts : DOMAIN ph.transactions[n] = 1 .. s.channels
      /\ ph.golden = {to}
  BY DEF AdderPhase
<1> HIDE DEF ph
<1>6. \A i \in 1 .. 3 : buffer(i) \in DOMAIN p.data
  BY <1>2 DEF AdderBuffer
<1>7. \A i, j \in 1 .. 3 : i # j /\ s.dirs[j] = "from" => buffer(i) # buffer(j)
  <2> SUFFICES ASSUME NEW i \in 1 .. 3, NEW j \in 1 .. 3, i # j, s.dirs[j] = "from"
               PROVE  buffer(i) # buffer(j)
    OBVIOUS
  <2>1. j = 3 /\ (i = 1 \/ i = 2)
    BY <1>1, <1>3
  <2>2. AdderBuffer(i, to) # AdderBuffer(j, to)
    BY <2>1 DEF AdderBuffer
  <2> QED BY <1>2, <2>2
<1>8. \A b \in ph.golden : p.span = 1 /\ \E i \in 1 .. 3 : s.dirs[i] = "from" /\ buffer(i) = b
  <2>1. 3 \in 1 .. 3 /\ AdderBuffer(3, to) = to
    BY DEF AdderBuffer
  <2> QED BY <1>2, <1>3, <1>5, <2>1
<1>9. \A n \in 1 .. s.parts : \A i \in 1 .. s.channels :
        /\ ArgumentFits(p.device, s, ph.transactions[n][i], n, i)
        /\ ph.transactions[n][i].buf = buffer(i)
  <2> SUFFICES ASSUME NEW n \in 1 .. parts, NEW i \in 1 .. 3
               PROVE  /\ ArgumentFits(p.device, s, ph.transactions[n][i], n, i)
                      /\ ph.transactions[n][i].buf = buffer(i)
    OBVIOUS
  <2>1. PICK arg : arg = ph.transactions[n][i]
    OBVIOUS
  <2>2. ArgumentFits(p.device, s, arg, n, i) /\ arg.buf = buffer(i)
    BY <1>4, <2>1
  <2> HIDE DEF buffer
  <2> QED BY ONLY <2>1, <2>2
<1>10. s.channels = 3
  OBVIOUS
<1>11. /\ \A i \in 1 .. s.channels : buffer(i) \in DOMAIN p.data
       /\ \A i, j \in 1 .. s.channels : i # j /\ s.dirs[j] = "from" => buffer(i) # buffer(j)
       /\ \A b \in ph.golden :
            p.span = 1 /\ \E i \in 1 .. s.channels : s.dirs[i] = "from" /\ buffer(i) = b
  BY <1>6, <1>7, <1>8, <1>10
<1>12. ph = p.phases[h]
  BY DEF ph
<1> QED BY ONLY <1>5, <1>9, <1>11, <1>12, ZenonT(60) DEF PhaseFits

(* A program of an adder: its phases have results of their own or put them *)
(* where the one before has.                                               *)
AdderProgram(p, items, bytes, reps, parts, to) ==
  /\ p.device \in {"vck190", "vek280", "vek385"} /\ IsAdder(p.graph) /\ p.span = 1
  /\ Len(p.phases) \in Nat \ {0}
  /\ \A h \in 1 .. Len(p.phases) :
       /\ AdderPhase(p.phases[h], items, bytes, reps, parts, to[h])
       /\ to[h] \in DOMAIN p.data /\ to[h] # "a" /\ to[h] # "b"
  /\ "a" \in DOMAIN p.data /\ "b" \in DOMAIN p.data
  /\ p.data = [b \in DOMAIN p.data |-> IF b \in {"a", "b"} THEN Input(items * parts, 1)
                                                           ELSE Zeroes(items * parts)]

(* A program with such phases has a plan.                                  *)
LEMMA AdderFits ==
  ASSUME NEW p, NEW items \in Nat \ {0}, NEW bytes \in Nat, NEW reps \in Nat \ {0},
         NEW parts \in Nat \ {0}, NEW to, AdderProgram(p, items, bytes, reps, parts, to)
  PROVE  HasPlan(p)
<1> DEFINE s == AdderPlan(items, bytes, reps, parts)
<1>1. /\ s.items = items /\ s.bytes = bytes /\ s.reps = reps /\ s.parts = parts
      /\ s.channels = 3 /\ s.dirs = <<"to", "to", "from">> /\ s.ports = <<1, 3, 2>>
  BY DEF AdderPlan
<1>2. Plan(p.graph, p.span, s)
  BY AdderPlanned DEF AdderProgram
<1> HIDE DEF s
<1> DEFINE size == items * parts
<1>3. size \in Nat /\ Length(s) = size
  BY <1>1 DEF Length
<1> HIDE DEF size
<1>4. /\ p.data["a"] = [x \in 1 .. size |-> x] /\ p.data["b"] = [x \in 1 .. size |-> x]
      /\ p.data \in [DOMAIN p.data -> [1 .. size -> Nat]]
  <2>1. Input(size, 1) = [x \in 1 .. size |-> x] /\ Input(size, 1) \in [1 .. size -> Nat]
    BY <1>3, InputOfPlaces
  <2>2. Zeroes(size) \in [1 .. size -> Nat]
    BY DEF Zeroes
  <2>3. p.data = [b \in DOMAIN p.data |-> IF b \in {"a", "b"} THEN Input(size, 1)
                                                              ELSE Zeroes(size)]
    BY DEF AdderProgram, size
  <2>4. "a" \in DOMAIN p.data /\ "b" \in DOMAIN p.data
    BY DEF AdderProgram
  <2> QED BY <2>1, <2>2, <2>3, <2>4
<1>5. \A h \in 1 .. Len(p.phases) : PhaseFits(p, s, h)
  BY <1>1, AdderPhaseFits DEF AdderProgram
<1>6. ASSUME NEW h \in 1 .. Len(p.phases), NEW i \in 1 .. 3, i = 1 \/ i = 2
      PROVE  p.phases[h].transactions[1][i].buf = IF i = 1 THEN "a" ELSE "b"
  <2>1. AdderPhase(p.phases[h], items, bytes, reps, parts, to[h]) /\ 1 \in 1 .. parts
    BY DEF AdderProgram
  <2>2. p.phases[h].transactions[1][i].buf = AdderBuffer(i, to[h])
    <3>1. AdderArgument(p.phases[h].transactions[1][i], items, bytes, reps, to[h], 1, i)
      BY <2>1, AdderPhaseArguments
    <3> QED BY ONLY <3>1 DEF AdderArgument
  <2> QED BY <1>6, <2>2 DEF AdderBuffer
<1>7. ASSUME NEW h \in 1 .. Len(p.phases) PROVE InputsThere(p, s, h)
  <2> SUFFICES ASSUME NEW i \in 1 .. 3, s.dirs[i] = "to"
               PROVE  LET b == p.phases[h].transactions[1][i].buf IN
                      IF h = 1
                        THEN p.span = 1 => \A x \in 1 .. Length(s) : p.data[b][x] = x
                        ELSE \E j \in 1 .. 3 :
                               /\ p.phases[h - 1].transactions[1][j].buf = b
                               /\ s.dirs[j] = "to" \/ p.phases[h - 1].mode = "FUNC"
    BY <1>1 DEF InputsThere
  <2>1. i = 1 \/ i = 2
    BY <1>1
  <2>2. p.phases[h].transactions[1][i].buf = IF i = 1 THEN "a" ELSE "b"
    BY <1>6, <2>1
  <2>3. CASE h = 1
    BY <1>3, <1>4, <2>1, <2>2, <2>3
  <2>4. CASE h # 1
    <3>1. h - 1 \in 1 .. Len(p.phases)
      BY <2>4 DEF AdderProgram
    <3>2. p.phases[h - 1].transactions[1][i].buf = IF i = 1 THEN "a" ELSE "b"
      BY <1>6, <2>1, <3>1
    <3> QED BY <2>2, <2>4, <3>2
  <2> QED BY <2>3, <2>4
<1>8. Boards[p.device].depth \in Nat
  BY DEF Boards, AdderProgram
<1>9. Fitting(p, s)
  BY <1>2, <1>3, <1>4, <1>5, <1>7, <1>8 DEF Fitting, AdderProgram
<1> QED BY <1>9 DEF HasPlan

(* A phase with one transaction.                                           *)
LEMMA AdderOnePhase ==
  ASSUME NEW mode, NEW asks, mode \in {"FUNC", "PERF"},
         asks = "valid" \/ (asks = "always" /\ mode = "FUNC"),
         NEW iterations, NEW items \in Nat \ {0}, NEW bytes, NEW reps, NEW to, NEW ph,
         ph = Phase(mode, iterations, asks, {to}, <<AdderArgs(items, bytes, reps, to)>>)
  PROVE  AdderPhase(ph, items, bytes, reps, 1, to)
<1> DEFINE args == AdderArgs(items, bytes, reps, to)
<1>1. /\ ph.mode = mode /\ ph.asks = asks /\ ph.golden = {to} /\ ph.transactions = <<args>>
  BY DEF Phase
<1>2. ASSUME NEW i \in 1 .. 3 PROVE args[i] = [args[i] EXCEPT !.skip = (1 - 1) * items]
  <2>1. i = 1 \/ i = 2 \/ i = 3
    OBVIOUS
  <2>2. (1 - 1) * items = 0
    OBVIOUS
  <2>3. \E dir, plio, buf : args[i] = Arg(dir, plio, items, bytes, reps, buf)
    BY <2>1 DEF AdderArgs
  <2> HIDE DEF args
  <2> QED BY <2>2, <2>3 DEF Arg
<1>3. DOMAIN args = 1 .. 3
  BY DEF AdderArgs
<1> HIDE DEF args
<1>4. ASSUME NEW n \in 1 .. 1
      PROVE  /\ DOMAIN ph.transactions[n] = 1 .. 3
             /\ \A i \in 1 .. 3 : ph.transactions[n][i] = [args[i] EXCEPT !.skip = (n - 1) * items]
  <2>1. n = 1 /\ ph.transactions[n] = args
    BY <1>1
  <2> QED BY <1>2, <1>3, <2>1
<1>5. Len(ph.transactions) = 1
  BY <1>1
<1> QED BY <1>1, <1>4, <1>5 DEF AdderPhase, args

AreAdderPhases(phases, iters, reps) ==
  /\ Len(phases) \in Nat \ {0}
  /\ \A h \in 1 .. Len(phases) : AdderPhase(phases[h], iters, iters * 16384, reps, 1, "s")

(* Functional and performance mode of the adder programs.                  *)
LEMMA AdderPhasesFit ==
  ASSUME NEW iters \in Nat \ {0}, NEW reps \in Nat \ {0}
  PROVE  AreAdderPhases(AdderPhases(iters, reps), iters, reps)
<1> DEFINE modes == AdderModes(reps)
           phases == AdderPhases(iters, reps)
<1>1. /\ Len(modes) \in Nat \ {0} /\ DOMAIN modes = 1 .. Len(modes)
      /\ \A h \in 1 .. Len(modes) : modes[h] \in {"FUNC", "PERF"}
  <2>1. CASE reps = 1
    BY <2>1 DEF AdderModes
  <2>2. CASE reps # 1
    BY <2>2 DEF AdderModes
  <2> QED BY <2>1, <2>2
<1>2. phases = [h \in 1 .. Len(modes) |->
                  Phase(modes[h], iters * reps, "valid", {"s"},
                        <<AdderArgs(iters, iters * 16384, reps, "s")>>)]
  BY <1>1 DEF AdderPhases
<1> HIDE DEF modes, phases
<1>3. Len(phases) = Len(modes)
  BY <1>1, <1>2
<1>4. \A h \in 1 .. Len(phases) : AdderPhase(phases[h], iters, iters * 16384, reps, 1, "s")
  BY <1>1, <1>2, <1>3, AdderOnePhase
<1> QED BY <1>1, <1>3, <1>4 DEF AreAdderPhases, phases

(* The vectors of the adder programs.                                      *)
LEMMA AdderDataFits ==
  ASSUME NEW items
  PROVE  LET data == AdderData(items) IN
         /\ DOMAIN data = {"a", "b", "s"}
         /\ data = [b \in DOMAIN data |-> IF b \in {"a", "b"} THEN Input(items, 1) ELSE Zeroes(items)]
BY DEF AdderData

(* adder_perf of each board.                                               *)
LEMMA AdderPerfFits ==
  ASSUME NEW iters \in Nat \ {0}, NEW reps \in Nat \ {0},
         NEW device \in {"vck190", "vek280", "vek385"}, NEW g, IsAdder(g)
  PROVE  HasPlan(Program(device, g, "none", 1, AdderData(iters), AdderPhases(iters, reps)))
<1> DEFINE p == Program(device, g, "none", 1, AdderData(iters), AdderPhases(iters, reps))
           to == [h \in 1 .. Len(AdderPhases(iters, reps)) |-> "s"]
<1>1. /\ p.device = device /\ p.graph = g /\ p.span = 1 /\ p.data = AdderData(iters)
      /\ p.phases = AdderPhases(iters, reps)
  BY DEF Program
<1>2. /\ DOMAIN p.data = {"a", "b", "s"}
      /\ p.data = [b \in DOMAIN p.data |-> IF b \in {"a", "b"} THEN Input(iters, 1)
                                                               ELSE Zeroes(iters)]
  BY <1>1, AdderDataFits
<1>3. /\ Len(p.phases) \in Nat \ {0}
      /\ \A h \in 1 .. Len(p.phases) :
           /\ AdderPhase(p.phases[h], iters, iters * 16384, reps, 1, to[h])
           /\ to[h] = "s"
  <2>0. PICK phases : phases = AdderPhases(iters, reps)
    OBVIOUS
  <2>1. /\ Len(phases) \in Nat \ {0}
        /\ \A h \in 1 .. Len(phases) :
             AdderPhase(phases[h], iters, iters * 16384, reps, 1, "s")
    <3>1. AreAdderPhases(phases, iters, reps)
      BY <2>0, AdderPhasesFit
    <3> QED BY <3>1 DEF AreAdderPhases
  <2>2. \A h \in 1 .. Len(phases) : to[h] = "s"
    BY <2>0
  <2> HIDE DEF to, p
  <2>3. p.phases = phases
    BY <1>1, <2>0
  <2> QED BY <2>1, <2>2, <2>3
<1>4. iters * 1 = iters /\ iters * 16384 \in Nat
  OBVIOUS
<1> HIDE DEF p, to
<1>5. AdderProgram(p, iters, iters * 16384, reps, 1, to)
  BY <1>1, <1>2, <1>3, <1>4 DEF AdderProgram
<1>6. HasPlan(p)
  BY <1>4, <1>5, AdderFits
<1> QED BY <1>6 DEF p

(* The adder programs of the three boards have plans.                      *)
LEMMA BoardAddersFit ==
  ASSUME NEW iters \in Nat \ {0}, NEW reps \in Nat \ {0}
  PROVE  /\ HasPlan(Vck190Adder(iters, reps)) /\ HasPlan(Vek280Adder(iters, reps))
         /\ HasPlan(Vek385Adder(iters, reps))
<1>1. HasPlan(Vck190Adder(iters, reps))
  BY AdderGraphs, AdderPerfFits DEF Vck190Adder
<1>2. HasPlan(Vek280Adder(iters, reps))
  BY AdderGraphs, AdderPerfFits DEF Vek280Adder
<1>3. HasPlan(Vek385Adder(iters, reps))
  BY AdderGraphs, AdderPerfFits DEF Vek385Adder
<1> QED BY <1>1, <1>2, <1>3

(* The programs of the bindings: matlab, python and the pipelined one.     *)
LEMMA MatlabFitsPlan ==
  ASSUME NEW iters \in Nat \ {0}
  PROVE  HasPlan(MatlabAdder(iters))
<1> DEFINE p == MatlabAdder(iters)
           items == iters * Window
           bytes == iters * 262144
           ph(mode, asks) == Phase(mode, iters, asks, {"s"}, <<AdderArgs(items, bytes, 1, "s")>>)
           to == [h \in 1 .. 2 |-> "s"]
<1>1. /\ p.device = "vck190" /\ p.graph = StreamAdderGraph /\ p.span = 1
      /\ p.data = AdderData(items) /\ p.phases = <<ph("FUNC", "always"), ph("PERF", "valid")>>
  BY DEF MatlabAdder, Program
<1>2. items \in Nat \ {0} /\ bytes \in Nat
  BY WindowAssumption
<1> HIDE DEF p, items, bytes
<1>3. AdderPhase(ph("FUNC", "always"), items, bytes, 1, 1, "s")
  BY <1>2, AdderOnePhase
<1>4. AdderPhase(ph("PERF", "valid"), items, bytes, 1, 1, "s")
  BY <1>2, AdderOnePhase
<1> HIDE DEF ph
<1>5. /\ Len(p.phases) = 2
      /\ \A h \in 1 .. 2 : AdderPhase(p.phases[h], items, bytes, 1, 1, to[h]) /\ to[h] = "s"
  BY <1>1, <1>3, <1>4
<1>6. /\ DOMAIN p.data = {"a", "b", "s"}
      /\ p.data = [b \in DOMAIN p.data |-> IF b \in {"a", "b"} THEN Input(items, 1)
                                                               ELSE Zeroes(items)]
  BY <1>1, AdderDataFits
<1>7. items * 1 = items
  BY <1>2
<1> HIDE DEF to
<1>8. AdderProgram(p, items, bytes, 1, 1, to)
  BY <1>1, <1>5, <1>6, <1>7, AdderGraphs DEF AdderProgram
<1>9. HasPlan(p)
  BY <1>2, <1>8, AdderFits
<1> QED BY <1>9 DEF p

(* The Python program has a plan.                                          *)
LEMMA PythonFitsPlan ==
  ASSUME NEW iters \in Nat \ {0}
  PROVE  HasPlan(PythonAdder(iters))
<1> DEFINE p == PythonAdder(iters)
           items == iters * Window
           bytes == iters * 262144
           ph(mode, to) == Phase(mode, iters, "valid", {to}, <<AdderArgs(items, bytes, 1, to)>>)
           to == <<"s", "t">>
<1>1. /\ p.device = "vck190" /\ p.graph = StreamAdderGraph /\ p.span = 1
      /\ p.data = AdderData(items) @@ [t |-> Zeroes(items)]
      /\ p.phases = <<ph("FUNC", "s"), ph("PERF", "t")>>
  BY DEF PythonAdder, Program
<1>2. items \in Nat \ {0} /\ bytes \in Nat
  BY WindowAssumption
<1> HIDE DEF p, items, bytes
<1>3. AdderPhase(ph("FUNC", "s"), items, bytes, 1, 1, "s")
  BY <1>2, AdderOnePhase
<1>4. AdderPhase(ph("PERF", "t"), items, bytes, 1, 1, "t")
  BY <1>2, AdderOnePhase
<1> HIDE DEF ph
<1>5. /\ Len(p.phases) = 2
      /\ \A h \in 1 .. 2 : /\ AdderPhase(p.phases[h], items, bytes, 1, 1, to[h])
                           /\ to[h] \in {"s", "t"}
  BY <1>1, <1>3, <1>4
<1>6. /\ DOMAIN p.data = {"a", "b", "s", "t"}
      /\ p.data = [b \in DOMAIN p.data |-> IF b \in {"a", "b"} THEN Input(items, 1)
                                                               ELSE Zeroes(items)]
  BY <1>1 DEF AdderData, @@
<1>7. items * 1 = items
  BY <1>2
<1> HIDE DEF to
<1>8. AdderProgram(p, items, bytes, 1, 1, to)
  BY <1>1, <1>5, <1>6, <1>7, AdderGraphs DEF AdderProgram
<1>9. HasPlan(p)
  BY <1>2, <1>8, AdderFits
<1> QED BY <1>9 DEF p

(* The pipelined Python program has a plan, in which it has many parts.    *)
LEMMA PipelinedFitsPlan ==
  ASSUME NEW transactions \in Nat \ {0}, NEW iters \in Nat \ {0}
  PROVE  HasPlan(PythonPipelined(transactions, iters))
<1> DEFINE p == PythonPipelined(transactions, iters)
           items == iters * Window
           bytes == iters * 262144
           parts == [n \in 1 .. transactions |->
                       [i \in 1 .. 3 |-> [AdderArgs(items, bytes, 1, "s")[i]
                                            EXCEPT !.skip = (n - 1) * items]]]
           to == <<"s">>
<1>1. /\ p.device = "vck190" /\ p.graph = StreamAdderGraph /\ p.span = 1
      /\ p.data = AdderData(transactions * items)
      /\ p.phases = <<Phase("FUNC", transactions * iters, "always", {"s"}, parts)>>
  BY DEF PythonPipelined, Program
<1>2. items \in Nat \ {0} /\ bytes \in Nat
  BY WindowAssumption
<1> HIDE DEF p
<1>3. Len(p.phases) = 1 /\ p.phases[1] = Phase("FUNC", transactions * iters, "always", {"s"}, parts)
  BY <1>1
<1>4. /\ p.phases[1].mode = "FUNC" /\ p.phases[1].asks = "always" /\ p.phases[1].golden = {"s"}
      /\ p.phases[1].transactions = parts
  BY <1>3 DEF Phase
<1> HIDE DEF items, bytes
<1>5. AdderPhase(p.phases[1], items, bytes, 1, transactions, "s")
  <2>1. Len(parts) = transactions
    OBVIOUS
  <2>2. \A n \in 1 .. transactions :
          /\ DOMAIN parts[n] = 1 .. 3
          /\ \A i \in 1 .. 3 : parts[n][i] = [AdderArgs(items, bytes, 1, "s")[i]
                                                EXCEPT !.skip = (n - 1) * items]
    OBVIOUS
  <2> HIDE DEF parts
  <2> QED BY <1>4, <2>1, <2>2 DEF AdderPhase
<1>6. /\ DOMAIN p.data = {"a", "b", "s"}
      /\ p.data = [b \in DOMAIN p.data |-> IF b \in {"a", "b"} THEN Input(items * transactions, 1)
                                                               ELSE Zeroes(items * transactions)]
  <2>1. transactions * items = items * transactions
    BY <1>2
  <2> QED BY <1>1, <2>1, AdderDataFits
<1>7. to[1] = "s" /\ 1 .. 1 = {1}
  OBVIOUS
<1> HIDE DEF parts, to
<1>8. AdderProgram(p, items, bytes, 1, transactions, to)
  BY <1>1, <1>3, <1>5, <1>6, <1>7, AdderGraphs DEF AdderProgram
<1>9. HasPlan(p)
  BY <1>2, <1>8, AdderFits
<1> QED BY <1>9 DEF p
-----------------------------------------------------------------------------
(* The plan of dmafifo.                                                    *)

FifoQueues == {In(1), Net(1), Net(2), Out(1)}
Windows(m) == (m \div Window) * Window
FifoPlan(items, bytes, reps) == [
  items |-> items, bytes |-> bytes, reps |-> reps, parts |-> 1,
  channels |-> 2, dirs |-> <<"to", "from">>, ports |-> <<1, 1>>,
  writer |-> [e \in FifoQueues |->
                IF e = In(1) THEN Channel(1)
                ELSE IF e = Out(1) THEN Kernel("k1") ELSE Kernel("k0")],
  reader |-> [e \in FifoQueues |->
                IF e = In(1) THEN Kernel("k0")
                ELSE IF e = Out(1) THEN Channel(2) ELSE Kernel("k1")],
  put |-> [e \in FifoQueues |-> [m \in Nat |-> IF e = Net(2) THEN Windows(m) ELSE m]],
  taken |-> [e \in FifoQueues |->
               [m \in Nat |-> IF e \in {In(1), Net(2)} THEN Windows(m) ELSE m]],
  index |-> [e \in FifoQueues |-> [n \in Nat |-> n]],
  keeps |-> [k \in {"k0", "k1"} |-> [m \in Nat |-> 0]],
  rank |-> [a \in {Kernel("k0"), Kernel("k1"), Channel(1), Channel(2)} |->
              IF a = Kernel("k0") THEN 2 ELSE IF a = Kernel("k1") THEN 1 ELSE 0]]

(* A quotient goes up with the last remainder.                             *)
LEMMA NextDivision ==
  ASSUME NEW n \in Nat \ {0}, NEW m \in Nat
  PROVE  (m + 1) \div n = (m \div n) + IF m % n = n - 1 THEN 1 ELSE 0
<1> DEFINE q == m \div n
           r == m % n
<1>1. q \in Int /\ r \in 0 .. n - 1 /\ m = n * q + r
  BY Division
<1> HIDE DEF q, r
<1>2. n * q \in Int
  BY <1>1
<1>3. CASE r = n - 1
  <2>1. n * (q + 1) = n * q + n
    BY <1>1
  <2>2. m + 1 = n * (q + 1) + 0 /\ q + 1 \in Int /\ m + 1 \in Int /\ 0 \in 0 .. n - 1
    BY <1>1, <1>2, <1>3, <2>1
  <2>3. (m + 1) \div n = q + 1
    BY <2>2, DivisionUnique
  <2> QED BY <1>3, <2>3 DEF q, r
<1>4. CASE r # n - 1
  <2>1. m + 1 = n * q + (r + 1) /\ m + 1 \in Int /\ r + 1 \in 0 .. n - 1
    BY <1>1, <1>2, <1>4
  <2>2. (m + 1) \div n = q
    BY <1>1, <2>1, DivisionUnique
  <2> QED BY <1>1, <1>4, <2>2 DEF q, r
<1> QED BY <1>3, <1>4

(* The whole windows among m vectors, and among one more.                  *)
LEMMA WindowFacts ==
  ASSUME NEW m \in Nat
  PROVE  /\ m % Window \in 0 .. Window - 1 /\ Windows(m) \in Nat
         /\ Windows(m) + (m % Window) = m
         /\ Windows(m + 1) = IF m % Window = Window - 1 THEN Windows(m) + Window ELSE Windows(m)
<1> DEFINE q == m \div Window
           r == m % Window
           w == Window
<1>1. w \in Nat \ {0}
  BY WindowAssumption
<1>2. q \in Nat /\ r \in 0 .. w - 1
  BY <1>1, DivisionNat
<1>3. m = w * q + r
  BY <1>1, Division
<1>4. (m + 1) \div Window = q + IF r = w - 1 THEN 1 ELSE 0
  BY <1>1, NextDivision
<1> HIDE DEF q, r
<1>5. Windows(m) = q * w /\ Windows(m + 1) = (q + IF r = w - 1 THEN 1 ELSE 0) * w
  BY <1>4 DEF Windows, q
<1> HIDE DEF w
<1>6. q * w = w * q /\ q * w \in Nat /\ (q + 1) * w = q * w + w /\ (q + 0) * w = q * w
  BY <1>1, <1>2
<1>7. Windows(m + 1) = IF r = w - 1 THEN q * w + w ELSE q * w
  BY <1>5, <1>6
<1>8. q * w + r = m
  BY <1>2, <1>3, <1>6
<1> QED BY <1>2, <1>5, <1>6, <1>7, <1>8 DEF r, w

(* The same, by the position of the vector in its window.                  *)
LEMMA WindowLength ==
  ASSUME NEW m \in Nat, NEW i, i = (m % Window) + 1
  PROVE  /\ Window \in Nat \ {0} /\ Windows(m) \in Nat /\ i \in 1 .. Window
         /\ Windows(m) + i = m + 1
         /\ Windows(m + 1) = IF i = Window THEN Windows(m) + Window ELSE Windows(m)
<1>1. PICK r : r = m % Window
  OBVIOUS
<1>2. PICK w : w = Window
  OBVIOUS
<1>3. w \in Nat \ {0}
  BY <1>2, WindowAssumption
<1>4. /\ r \in 0 .. w - 1 /\ Windows(m) \in Nat /\ Windows(m) + r = m
      /\ Windows(m + 1) = IF r = w - 1 THEN Windows(m) + w ELSE Windows(m)
  BY <1>1, <1>2, WindowFacts
<1>5. i = r + 1
  BY <1>1
<1> QED BY <1>2, <1>3, <1>4, <1>5

(* The queues of the dmafifo program.                                      *)
LEMMA FifoQueuesDiffer ==
  /\ In(1) # Net(1) /\ In(1) # Net(2) /\ In(1) # Out(1)
  /\ Net(1) # Net(2) /\ Net(1) # Out(1) /\ Net(2) # Out(1)
BY DEF In, Net, Out

(* Both of its kernels have a move for each vector of a window.            *)
LEMMA FifoMoves ==
  ASSUME NEW m \in Nat, NEW i, i = (m % Window) + 1
  PROVE  /\ DOMAIN DmaFifoGraph.kernels = {"k0", "k1"}
         /\ Len(DmaFifoGraph.kernels["k0"]) = Window /\ Len(DmaFifoGraph.kernels["k1"]) = Window
         /\ MoveAt(DmaFifoGraph, "k0", m) = AieDest1[i]
         /\ MoveAt(DmaFifoGraph, "k1", m) = AieDest2[i]
         /\ i \in Vectors
<1>1. DmaFifoGraph.kernels = [k0 |-> AieDest1, k1 |-> AieDest2]
  BY DEF DmaFifoGraph
<1>2. Len(AieDest1) = Window /\ Len(AieDest2) = Window
  BY WindowAssumption DEF AieDest1, AieDest2, Vectors
<1>3. i \in Vectors
  BY WindowFacts, WindowAssumption DEF Vectors
<1> QED BY <1>1, <1>2, <1>3 DEF MoveAt, InRound

(* The i-th move of the kernel that fans out, and what it does to queue e. *)
FifoFirstMove(i, e, move) ==
  /\ Amount(move.need, e) = IF e = In(1) THEN Window ELSE 0
  /\ Amount(move.get, e) = IF e = In(1) /\ i = Window THEN Window ELSE 0
  /\ Output(move, e) = IF e = Net(1) THEN <<{<<In(1), i>>}>>
                       ELSE IF e = Net(2) /\ i = Window
                         THEN [j \in Vectors |-> {<<In(1), j>>}] ELSE << >>
  /\ move.keep = {}

(* aie_dest1 passes a vector on at once and the window at its end.         *)
LEMMA FifoFirst ==
  ASSUME NEW i \in Vectors, NEW e \in FifoQueues
  PROVE  FifoFirstMove(i, e, AieDest1[i])
<1> DEFINE move == AieDest1[i]
<1>1. /\ move.need = In(1) :> Window
      /\ move.get = IF i = Window THEN In(1) :> Window ELSE Nothing
      /\ move.put = PutOne(Net(1), {<<In(1), i>>})
                      @@ IF i = Window THEN Net(2) :> [j \in Vectors |-> {<<In(1), j>>}]
                                       ELSE Nothing
      /\ move.keep = {}
  BY DEF AieDest1, Holding
<1> HIDE DEF move
<1>2. Amount(move.need, e) = IF e = In(1) THEN Window ELSE 0
  BY <1>1 DEF Amount, :>
<1>3. Amount(move.get, e) = IF e = In(1) /\ i = Window THEN Window ELSE 0
  BY <1>1 DEF Amount, :>, Nothing
<1>4. CASE i = Window
  <2>1. move.put = PutOne(Net(1), {<<In(1), i>>}) @@ (Net(2) :> [j \in Vectors |-> {<<In(1), j>>}])
    BY <1>1, <1>4
  <2>2. Output(move, e) = IF e = Net(1) THEN <<{<<In(1), i>>}>>
                          ELSE IF e = Net(2) THEN [j \in Vectors |-> {<<In(1), j>>}] ELSE << >>
    BY <2>1, FifoQueuesDiffer DEF Output, PutOne, :>, @@
  <2> QED BY <1>1, <1>2, <1>3, <1>4, <2>2 DEF FifoFirstMove, move
<1>5. CASE i # Window
  <2>1. move.put = PutOne(Net(1), {<<In(1), i>>}) @@ Nothing
    BY <1>1, <1>5
  <2>2. Output(move, e) = IF e = Net(1) THEN <<{<<In(1), i>>}>> ELSE << >>
    BY <2>1, FifoQueuesDiffer DEF Output, PutOne, :>, @@, Nothing
  <2> QED BY <1>1, <1>2, <1>3, <1>5, <2>2 DEF FifoFirstMove, move
<1> QED BY <1>4, <1>5

(* aie_dest2 adds the next vector to that of the window.                   *)
LEMMA FifoSecond ==
  ASSUME NEW i \in Vectors, NEW e \in FifoQueues
  PROVE  LET move == AieDest2[i] IN
         /\ Amount(move.need, e) = IF e = Net(2) THEN Window ELSE IF e = Net(1) THEN 1 ELSE 0
         /\ Amount(move.get, e) = IF e = Net(1) THEN 1
                                  ELSE IF e = Net(2) /\ i = Window THEN Window ELSE 0
         /\ Output(move, e) = IF e = Out(1) THEN <<{First(Net(1)), <<Net(2), i>>}>> ELSE << >>
         /\ move.keep = {}
<1> DEFINE move == AieDest2[i]
<1>1. /\ move.need = (Net(2) :> Window) @@ One(Net(1))
      /\ move.get = One(Net(1)) @@ IF i = Window THEN Net(2) :> Window ELSE Nothing
      /\ move.put = PutOne(Out(1), {First(Net(1)), <<Net(2), i>>})
      /\ move.keep = {}
  BY DEF AieDest2, Holding
<1> HIDE DEF move
<1>2. Amount(move.need, e) = IF e = Net(2) THEN Window ELSE IF e = Net(1) THEN 1 ELSE 0
  BY <1>1, FifoQueuesDiffer DEF Amount, One, :>, @@
<1>3. Amount(move.get, e) = IF e = Net(1) THEN 1
                            ELSE IF e = Net(2) /\ i = Window THEN Window ELSE 0
  <2>1. CASE i = Window
    <3>1. move.get = One(Net(1)) @@ (Net(2) :> Window)
      BY <1>1, <2>1
    <3> QED BY <2>1, <3>1, FifoQueuesDiffer DEF Amount, One, :>, @@
  <2>2. CASE i # Window
    <3>1. move.get = One(Net(1)) @@ Nothing
      BY <1>1, <2>2
    <3> QED BY <2>2, <3>1, FifoQueuesDiffer DEF Amount, One, :>, @@, Nothing
  <2> QED BY <2>1, <2>2
<1>4. Output(move, e) = IF e = Out(1) THEN <<{First(Net(1)), <<Net(2), i>>}>> ELSE << >>
  BY <1>1 DEF Output, PutOne, :>
<1> QED BY <1>1, <1>2, <1>3, <1>4 DEF move

(* Whole windows are whole.                                                *)
LEMMA WholeWindows ==
  ASSUME NEW n \in Nat
  PROVE  /\ (n * Window) % Window = 0 /\ Windows(n * Window) = n * Window
         /\ n * Window \in Nat
<1>1. Window \in Nat \ {0}
  BY WindowAssumption
<1>2. PICK m : m = n * Window
  OBVIOUS
<1>3. m \in Nat /\ m = Window * n + 0 /\ 0 \in 0 .. Window - 1
  BY <1>1, <1>2
<1>4. m \div Window = n /\ m % Window = 0
  BY <1>1, <1>3, DivisionUnique
<1> QED BY <1>2, <1>3, <1>4 DEF Windows

AreWindows(items) == \E n \in Nat \ {0} : items = n * Window

(* The plan of the dmafifo graph.                                          *)
LEMMA FifoPlanned ==
  ASSUME NEW items \in Nat \ {0}, AreWindows(items), NEW bytes \in Nat, NEW reps \in Nat \ {0},
         NEW s, s = FifoPlan(items, bytes, reps)
  PROVE  Plan(DmaFifoGraph, 1, s)
<1> DEFINE g == DmaFifoGraph
           k0 == Kernel("k0")
           k1 == Kernel("k1")
           total == Total(s)
<1>1. /\ s.items = items /\ s.bytes = bytes /\ s.reps = reps /\ s.parts = 1
      /\ s.channels = 2 /\ s.dirs = <<"to", "from">> /\ s.ports = <<1, 1>>
      /\ s.writer = [e \in FifoQueues |->
                       IF e = In(1) THEN Channel(1) ELSE IF e = Out(1) THEN k1 ELSE k0]
      /\ s.reader = [e \in FifoQueues |->
                       IF e = In(1) THEN k0 ELSE IF e = Out(1) THEN Channel(2) ELSE k1]
      /\ s.put = [e \in FifoQueues |-> [m \in Nat |-> IF e = Net(2) THEN Windows(m) ELSE m]]
      /\ s.taken = [e \in FifoQueues |->
                      [m \in Nat |-> IF e \in {In(1), Net(2)} THEN Windows(m) ELSE m]]
      /\ s.index = [e \in FifoQueues |-> [n \in Nat |-> n]]
      /\ s.keeps = [k \in {"k0", "k1"} |-> [m \in Nat |-> 0]]
      /\ s.rank = [a \in {k0, k1, Channel(1), Channel(2)} |->
                     IF a = k0 THEN 2 ELSE IF a = k1 THEN 1 ELSE 0]
  BY DEF FifoPlan
<1>2. total \in Nat \ {0} /\ total % Window = 0 /\ Windows(total) = total
  <2>1. PICK n \in Nat \ {0} : items = n * Window
    BY DEF AreWindows
  <2>2. n * reps \in Nat /\ (n * Window) * reps = (n * reps) * Window
    BY WindowAssumption
  <2>3. items * reps \in Nat \ {0}
    OBVIOUS
  <2>4. PICK x : x = n * reps
    OBVIOUS
  <2>5. total = x * Window /\ total \in Nat \ {0} /\ x \in Nat
    BY <1>1, <2>1, <2>2, <2>3, <2>4 DEF Total
  <2> QED BY <2>5, WholeWindows
<1>3. /\ DOMAIN g.kernels = {"k0", "k1"}
      /\ Len(g.kernels["k0"]) = Window /\ Len(g.kernels["k1"]) = Window
      /\ DOMAIN g.capacity = FifoQueues
  <2>1. DOMAIN g.capacity = FifoQueues
    BY DEF DmaFifoGraph, FifoQueues, @@, :>
  <2> QED BY <2>1, FifoMoves
<1>4. /\ g.inputs = (1 :> {In(1)}) /\ g.outputs = (1 :> Out(1))
  BY DEF DmaFifoGraph
<1> HIDE DEF total, g
<1>5. Actors(g, s) = {k0, k1, Channel(1), Channel(2)}
  <2>1. 1 .. 2 = {1, 2}
    OBVIOUS
  <2>2. {Kernel(k) : k \in {"k0", "k1"}} = {k0, k1}
    OBVIOUS
  <2>3. {Channel(i) : i \in {1, 2}} = {Channel(1), Channel(2)}
    OBVIOUS
  <2>4. Actors(g, s) = {Kernel(k) : k \in {"k0", "k1"}} \cup {Channel(i) : i \in {1, 2}}
    BY <1>1, <1>3, <2>1 DEF Actors
  <2> QED BY <2>2, <2>3, <2>4
<1>6. /\ k0 # k1 /\ k0 # Channel(1) /\ k0 # Channel(2)
      /\ k1 # Channel(1) /\ k1 # Channel(2) /\ Channel(1) # Channel(2)
  <2>1. "k0" # "k1"
    OBVIOUS
  <2> QED BY <2>1, ActorsDiffer
<1> HIDE DEF k0, k1
<1>7. /\ In(1) \in FifoQueues /\ Net(1) \in FifoQueues /\ Net(2) \in FifoQueues
      /\ Out(1) \in FifoQueues
      /\ \A e \in FifoQueues : e = In(1) \/ e = Net(1) \/ e = Net(2) \/ e = Out(1)
      /\ In(1) # Net(1) /\ In(1) # Net(2) /\ In(1) # Out(1)
      /\ Net(1) # Net(2) /\ Net(1) # Out(1) /\ Net(2) # Out(1)
  BY FifoQueuesDiffer DEF FifoQueues
<1>8. /\ s.writer[In(1)] = Channel(1) /\ s.writer[Net(1)] = k0 /\ s.writer[Net(2)] = k0
      /\ s.writer[Out(1)] = k1
      /\ s.reader[In(1)] = k0 /\ s.reader[Net(1)] = k1 /\ s.reader[Net(2)] = k1
      /\ s.reader[Out(1)] = Channel(2)
  BY <1>1, <1>7
<1>9. \A m \in Nat :
        /\ s.put[In(1)][m] = m /\ s.put[Net(1)][m] = m /\ s.put[Out(1)][m] = m
        /\ s.put[Net(2)][m] = Windows(m)
        /\ s.taken[Net(1)][m] = m /\ s.taken[Out(1)][m] = m
        /\ s.taken[In(1)][m] = Windows(m) /\ s.taken[Net(2)][m] = Windows(m)
        /\ s.index[In(1)][m] = m /\ s.index[Net(1)][m] = m
        /\ s.index[Net(2)][m] = m /\ s.index[Out(1)][m] = m
  BY <1>1, <1>7
<1>10. PlanTypes(g, s)
  <2>1. /\ s.items \in Nat \ {0} /\ s.reps \in Nat \ {0} /\ s.parts \in Nat \ {0}
        /\ s.bytes \in Nat /\ s.channels \in Nat \ {0}
    BY <1>1, <1>2
  <2>2. /\ s.dirs \in [1 .. s.channels -> {"to", "from"}]
        /\ \E i \in 1 .. s.channels : s.dirs[i] = "to"
        /\ s.ports \in [1 .. s.channels -> Nat]
    BY <1>1
  <2>3. \A port \in DOMAIN g.outputs : g.outputs[port] \in DOMAIN g.capacity
    BY <1>3, <1>4, <1>7 DEF :>
  <2>4. s.writer \in [DOMAIN g.capacity -> Actors(g, s)]
        /\ s.reader \in [DOMAIN g.capacity -> Actors(g, s)]
    BY <1>1, <1>3, <1>5
  <2>5. \A m \in Nat : Windows(m) \in Nat
    BY WindowFacts
  <2>6. /\ s.put \in [DOMAIN g.capacity -> [Nat -> Nat]]
        /\ s.taken \in [DOMAIN g.capacity -> [Nat -> Nat]]
        /\ s.index \in [DOMAIN g.capacity -> [Nat -> Nat]]
        /\ s.keeps \in [DOMAIN g.kernels -> [Nat -> Int]]
    <3>1. \A e \in FifoQueues : s.put[e] \in [Nat -> Nat]
      BY <1>1, <2>5
    <3>2. \A e \in FifoQueues : s.taken[e] \in [Nat -> Nat]
      BY <1>1, <2>5
    <3>3. \A e \in FifoQueues : s.index[e] \in [Nat -> Nat]
      BY <1>1
    <3>4. \A k \in {"k0", "k1"} : s.keeps[k] \in [Nat -> Int]
      BY <1>1
    <3>5. /\ s.put = [e \in FifoQueues |-> s.put[e]] /\ s.taken = [e \in FifoQueues |-> s.taken[e]]
          /\ s.index = [e \in FifoQueues |-> s.index[e]]
          /\ s.keeps = [k \in {"k0", "k1"} |-> s.keeps[k]]
      BY <1>1
    <3> QED BY <1>3, <3>1, <3>2, <3>3, <3>4, <3>5
  <2>7. s.rank \in [Actors(g, s) -> Nat]
    BY <1>1, <1>5
  <2> QED BY <2>1, <2>2, <2>3, <2>4, <2>6, <2>7 DEF PlanTypes
<1>11. PlanEnds(g, s)
  <2>1. Windows(0) = 0
    <3>1. 0 % Window \in 0 .. Window - 1 /\ Windows(0) \in Nat
          /\ Windows(0) + (0 % Window) = 0
      BY WindowFacts
    <3> QED BY <3>1, WindowAssumption
  <2>2. \A e \in FifoQueues : /\ s.put[e][0] = 0 /\ s.taken[e][0] = 0
                             /\ s.put[e][total] = s.taken[e][total]
    BY <1>2, <1>7, <1>9, <2>1
  <2>3. ASSUME NEW k \in {"k0", "k1"}
        PROVE  /\ Len(g.kernels[k]) \in Nat \ {0}
               /\ total % Len(g.kernels[k]) = 0
               /\ s.keeps[k][0] \in {-1, 0} /\ s.keeps[k][total] = s.keeps[k][0]
    <3>1. s.keeps[k][0] = 0 /\ s.keeps[k][total] = 0
      BY <1>1, <1>2
    <3>2. Len(g.kernels[k]) = Window
      BY <1>3
    <3> QED BY <1>2, <3>1, <3>2, WindowAssumption
  <2> QED BY <1>3, <2>2, <2>3 DEF PlanEnds, total
<1>12. PlanChannels(g, 1, s)
  <2> SUFFICES ASSUME NEW i \in {1, 2}, NEW e \in FifoQueues
               PROVE  /\ s.writer[e] = Channel(i) <=>
                           s.dirs[i] = "to" /\ s.ports[i] \in DOMAIN g.inputs
                           /\ e \in g.inputs[s.ports[i]]
                      /\ s.reader[e] = Channel(i) <=>
                           s.dirs[i] = "from" /\ s.ports[i] \in DOMAIN g.outputs
                           /\ e = g.outputs[s.ports[i]]
                      /\ s.writer[e] = Channel(i) => \A m \in Nat : s.put[e][m] = m
                      /\ s.reader[e] = Channel(i) => \A m \in Nat : s.taken[e][m] = m
                      /\ \A n \in 1 .. total : s.index[e][n] = ((n - 1) \div 1) + 1
    <3>1. 1 .. s.channels = {1, 2}
      BY <1>1
    <3> QED BY <1>3, <3>1 DEF PlanChannels, total
  <2>1. /\ g.inputs[1] = {In(1)} /\ DOMAIN g.inputs = {1}
        /\ g.outputs[1] = Out(1) /\ DOMAIN g.outputs = {1}
    BY <1>4 DEF :>
  <2>2. /\ s.dirs[1] = "to" /\ s.dirs[2] = "from" /\ s.ports[1] = 1 /\ s.ports[2] = 1
    BY <1>1
  <2>3. s.writer[e] = Channel(i) <=>
          s.dirs[i] = "to" /\ s.ports[i] \in DOMAIN g.inputs /\ e \in g.inputs[s.ports[i]]
    BY <1>6, <1>7, <1>8, <2>1, <2>2
  <2>4. s.reader[e] = Channel(i) <=>
          s.dirs[i] = "from" /\ s.ports[i] \in DOMAIN g.outputs /\ e = g.outputs[s.ports[i]]
    BY <1>6, <1>7, <1>8, <2>1, <2>2
  <2>5. ASSUME NEW n \in 1 .. total PROVE s.index[e][n] = ((n - 1) \div 1) + 1
    <3> DEFINE y == n - 1
    <3>1. y \in Int /\ y = 1 * y + 0 /\ 0 \in 0 .. 1 - 1 /\ y + 1 = n /\ n \in Nat
      BY <1>2
    <3> HIDE DEF y
    <3>2. y \div 1 = y
      BY <3>1, DivisionUnique
    <3>3. s.index[e][n] = (y \div 1) + 1
      BY <1>7, <1>9, <3>1, <3>2
    <3> QED BY <3>3 DEF y
  <2>6. s.writer[e] = Channel(i) => \A m \in Nat : s.put[e][m] = m
    BY <1>6, <1>7, <1>8, <1>9
  <2>7. s.reader[e] = Channel(i) => \A m \in Nat : s.taken[e][m] = m
    BY <1>6, <1>7, <1>8, <1>9
  <2> QED BY <2>3, <2>4, <2>5, <2>6, <2>7
<1>13. ASSUME NEW m \in Nat
       PROVE  PlanTakes(g, s, "k0", m) /\ PlanPuts(g, s, "k0", m) /\ PlanKeeps(g, s, "k0", m)
  <2>1. PICK i : i = (m % Window) + 1
    OBVIOUS
  <2>2. PICK move : move = AieDest1[i]
    OBVIOUS
  <2>3. i \in Vectors /\ move = MoveAt(g, "k0", m)
    BY <2>1, <2>2, FifoMoves DEF g
  <2>4. \A e \in FifoQueues :
          /\ Amount(move.need, e) = IF e = In(1) THEN Window ELSE 0
          /\ Amount(move.get, e) = IF e = In(1) /\ i = Window THEN Window ELSE 0
          /\ Output(move, e) = IF e = Net(1) THEN <<{<<In(1), i>>}>>
                               ELSE IF e = Net(2) /\ i = Window
                                 THEN [j \in Vectors |-> {<<In(1), j>>}] ELSE << >>
          /\ move.keep = {}
    <3> SUFFICES ASSUME NEW e \in FifoQueues
                 PROVE  /\ Amount(move.need, e) = IF e = In(1) THEN Window ELSE 0
                        /\ Amount(move.get, e) = IF e = In(1) /\ i = Window THEN Window ELSE 0
                        /\ Output(move, e) = IF e = Net(1) THEN <<{<<In(1), i>>}>>
                                             ELSE IF e = Net(2) /\ i = Window
                                               THEN [j \in Vectors |-> {<<In(1), j>>}] ELSE << >>
                        /\ move.keep = {}
      OBVIOUS
    <3>1. i \in Vectors
      BY <2>3
    <3>2. FifoFirstMove(i, e, AieDest1[i])
      BY ONLY <3>1, FifoFirst
    <3>3. FifoFirstMove(i, e, move)
      BY ONLY <2>2, <3>2
    <3> QED BY ONLY <3>3 DEF FifoFirstMove
  <2>5. /\ Window \in Nat \ {0} /\ Windows(m) \in Nat /\ i \in 1 .. Window
        /\ Windows(m) + i = m + 1
        /\ Windows(m + 1) = IF i = Window THEN Windows(m) + Window ELSE Windows(m)
    BY <2>1, WindowLength
  <2>6. m + 1 \in Nat
    OBVIOUS
  <2>7. PlanTakes(g, s, "k0", m)
    <3> SUFFICES ASSUME NEW e \in FifoQueues
                 PROVE  /\ Amount(move.need, e) \in Nat
                        /\ Amount(move.get, e) \in 0 .. Amount(move.need, e)
                        /\ IF s.reader[e] = k0
                             THEN s.taken[e][m + 1] = s.taken[e][m] + Amount(move.get, e)
                             ELSE Amount(move.get, e) = 0
      BY <1>3, <2>3 DEF PlanTakes, k0
    <3>1. CASE e = In(1)
      <4>1. /\ s.reader[e] = k0 /\ s.taken[e][m] = Windows(m)
            /\ s.taken[e][m + 1] = Windows(m + 1)
        BY <1>8, <1>9, <2>6, <3>1
      <4>2. Amount(move.need, e) = Window /\ Amount(move.get, e) = IF i = Window THEN Window ELSE 0
        BY <2>4, <3>1
      <4> QED BY <2>5, <4>1, <4>2
    <3>2. CASE e # In(1)
      <4>1. s.reader[e] # k0
        BY <1>6, <1>7, <1>8, <3>2
      <4>2. Amount(move.need, e) = 0 /\ Amount(move.get, e) = 0
        BY <2>4, <3>2
      <4> QED BY <4>1, <4>2
    <3> QED BY <3>1, <3>2
  <2>8. PlanKeeps(g, s, "k0", m)
    <3>1. s.keeps["k0"][m + 1] = 0
      BY <1>1, <2>6
    <3> QED BY <1>7, <2>3, <2>4, <3>1 DEF PlanKeeps
  <2>9. \A j \in 1 .. Window : FromPlace(g, s, "k0", m, {<<In(1), j>>}, Windows(m) + j)
    <3> SUFFICES ASSUME NEW j \in 1 .. Window
                 PROVE  /\ <<In(1), j>> # Kept /\ s.reader[In(1)] = k0
                        /\ j \in 1 .. Amount(move.need, In(1))
                        /\ s.index[In(1)][s.taken[In(1)][m] + j] = Windows(m) + j
      BY <1>3, <1>7, <2>3 DEF FromPlace, k0
    <3>1. <<In(1), j>> # Kept
      BY DEF In, Kept, Net
    <3>2. Windows(m) + j \in Nat
      BY <2>5
    <3> QED BY <1>7, <1>8, <1>9, <2>4, <3>1, <3>2
  <2>10. \A j : <<In(1), j>> # Kept
    BY DEF In, Kept, Net
  <2>11. PlanPuts(g, s, "k0", m)
    <3> SUFFICES ASSUME NEW e \in FifoQueues
                 PROVE  IF s.writer[e] = k0
                          THEN /\ s.put[e][m] <= s.put[e][m + 1]
                               /\ DOMAIN Output(move, e) = 1 .. s.put[e][m + 1] - s.put[e][m]
                               /\ \A j \in DOMAIN Output(move, e) :
                                    /\ FromPlace(g, s, "k0", m, Output(move, e)[j],
                                                 s.index[e][s.put[e][m] + j])
                                    /\ \E x \in Output(move, e)[j] : x # Kept
                          ELSE DOMAIN Output(move, e) = {}
      BY <1>3, <2>3 DEF PlanPuts, k0
    <3>1. CASE e = Net(1)
      <4>1. Output(move, e) = <<{<<In(1), i>>}>> /\ s.writer[e] = k0
        BY <1>8, <2>4, <3>1
      <4>2. DOMAIN Output(move, e) = {1} /\ Output(move, e)[1] = {<<In(1), i>>}
        BY <4>1
      <4>3. /\ s.put[e][m] = m /\ s.put[e][m + 1] = m + 1 /\ s.index[e][m + 1] = m + 1
            /\ 1 .. (m + 1) - m = {1} /\ m <= m + 1
        BY <1>9, <2>6, <3>1
      <4>4. FromPlace(g, s, "k0", m, {<<In(1), i>>}, m + 1)
        BY <2>5, <2>9
      <4> QED BY <2>10, <4>1, <4>2, <4>3, <4>4
    <3>2. CASE e = Net(2)
      <4>1. /\ s.put[e][m] = Windows(m) /\ s.put[e][m + 1] = Windows(m + 1)
            /\ s.writer[e] = k0
        BY <1>8, <1>9, <2>6, <3>2
      <4>2. CASE i = Window
        <5>1. Output(move, e) = [j \in Vectors |-> {<<In(1), j>>}]
          BY <1>7, <2>4, <3>2, <4>2
        <5>2. DOMAIN Output(move, e) = 1 .. Window
              /\ \A j \in 1 .. Window : Output(move, e)[j] = {<<In(1), j>>}
          BY <5>1 DEF Vectors
        <5>3. /\ s.put[e][m] <= s.put[e][m + 1]
              /\ s.put[e][m + 1] - s.put[e][m] = Window
          BY <2>5, <4>1, <4>2
        <5>4. \A j \in 1 .. Window : s.index[e][s.put[e][m] + j] = Windows(m) + j
          <6> TAKE j \in 1 .. Window
          <6>1. Windows(m) + j \in Nat
            BY <2>5
          <6> QED BY <1>9, <3>2, <4>1, <6>1
        <5>5. ASSUME NEW j \in DOMAIN Output(move, e)
              PROVE  /\ FromPlace(g, s, "k0", m, Output(move, e)[j], s.index[e][s.put[e][m] + j])
                     /\ \E x \in Output(move, e)[j] : x # Kept
          <6>1. j \in 1 .. Window /\ Output(move, e)[j] = {<<In(1), j>>}
            BY <5>2
          <6>2. FromPlace(g, s, "k0", m, {<<In(1), j>>}, Windows(m) + j)
            BY <2>9, <6>1
          <6> QED BY <2>10, <5>4, <6>1, <6>2
        <5> QED BY <4>1, <5>2, <5>3, <5>5
      <4>3. CASE i # Window
        <5>1. Output(move, e) = << >>
          BY <1>7, <2>4, <3>2, <4>3
        <5>2. /\ DOMAIN Output(move, e) = {} /\ s.put[e][m + 1] = s.put[e][m]
              /\ s.put[e][m] \in Nat
          BY <2>5, <4>1, <4>3, <5>1
        <5> QED BY <5>2
      <4> QED BY <4>2, <4>3
    <3>3. CASE e # Net(1) /\ e # Net(2)
      <4>1. s.writer[e] # k0 /\ Output(move, e) = << >>
        BY <1>6, <1>7, <1>8, <2>4, <3>3
      <4> QED BY <4>1
    <3> QED BY <3>1, <3>2, <3>3
  <2> QED BY <2>7, <2>8, <2>11
<1>14. ASSUME NEW m \in Nat
       PROVE  PlanTakes(g, s, "k1", m) /\ PlanPuts(g, s, "k1", m) /\ PlanKeeps(g, s, "k1", m)
  <2>1. PICK i : i = (m % Window) + 1
    OBVIOUS
  <2>2. PICK move : move = AieDest2[i]
    OBVIOUS
  <2>3. i \in Vectors /\ move = MoveAt(g, "k1", m)
    BY <2>1, <2>2, FifoMoves DEF g
  <2>4. \A e \in FifoQueues :
          /\ Amount(move.need, e) = IF e = Net(2) THEN Window ELSE IF e = Net(1) THEN 1 ELSE 0
          /\ Amount(move.get, e) = IF e = Net(1) THEN 1
                                   ELSE IF e = Net(2) /\ i = Window THEN Window ELSE 0
          /\ Output(move, e) = IF e = Out(1) THEN <<{First(Net(1)), <<Net(2), i>>}>> ELSE << >>
          /\ move.keep = {}
    <3>1. \A e \in FifoQueues :
            /\ Amount(AieDest2[i].need, e) = IF e = Net(2) THEN Window
                                             ELSE IF e = Net(1) THEN 1 ELSE 0
            /\ Amount(AieDest2[i].get, e) = IF e = Net(1) THEN 1
                                            ELSE IF e = Net(2) /\ i = Window THEN Window ELSE 0
            /\ Output(AieDest2[i], e) =
                 IF e = Out(1) THEN <<{First(Net(1)), <<Net(2), i>>}>> ELSE << >>
            /\ AieDest2[i].keep = {}
      BY <2>3, FifoSecond
    <3> QED BY <2>2, <3>1
  <2>5. /\ Window \in Nat \ {0} /\ Windows(m) \in Nat /\ i \in 1 .. Window
        /\ Windows(m) + i = m + 1
        /\ Windows(m + 1) = IF i = Window THEN Windows(m) + Window ELSE Windows(m)
    BY <2>1, WindowLength
  <2>6. m + 1 \in Nat
    OBVIOUS
  <2>7. PlanTakes(g, s, "k1", m)
    <3> SUFFICES ASSUME NEW e \in FifoQueues
                 PROVE  /\ Amount(move.need, e) \in Nat
                        /\ Amount(move.get, e) \in 0 .. Amount(move.need, e)
                        /\ IF s.reader[e] = k1
                             THEN s.taken[e][m + 1] = s.taken[e][m] + Amount(move.get, e)
                             ELSE Amount(move.get, e) = 0
      BY <1>3, <2>3 DEF PlanTakes, k1
    <3>1. CASE e = Net(1)
      <4>1. s.reader[e] = k1 /\ s.taken[e][m] = m /\ s.taken[e][m + 1] = m + 1
        BY <1>8, <1>9, <2>6, <3>1
      <4>2. Amount(move.need, e) = 1 /\ Amount(move.get, e) = 1
        BY <1>7, <2>4, <3>1
      <4> QED BY <4>1, <4>2
    <3>2. CASE e = Net(2)
      <4>1. /\ s.reader[e] = k1 /\ s.taken[e][m] = Windows(m)
            /\ s.taken[e][m + 1] = Windows(m + 1)
        BY <1>8, <1>9, <2>6, <3>2
      <4>2. Amount(move.need, e) = Window /\ Amount(move.get, e) = IF i = Window THEN Window ELSE 0
        BY <1>7, <2>4, <3>2
      <4> QED BY <2>5, <4>1, <4>2
    <3>3. CASE e # Net(1) /\ e # Net(2)
      <4>1. s.reader[e] # k1
        BY <1>6, <1>7, <1>8, <3>3
      <4>2. Amount(move.need, e) = 0 /\ Amount(move.get, e) = 0
        BY <2>4, <3>3
      <4> QED BY <4>1, <4>2
    <3> QED BY <3>1, <3>2, <3>3
  <2>8. PlanKeeps(g, s, "k1", m)
    <3>1. s.keeps["k1"][m + 1] = 0
      BY <1>1, <2>6
    <3> QED BY <1>7, <2>3, <2>4, <3>1 DEF PlanKeeps
  <2>9. FromPlace(g, s, "k1", m, {First(Net(1)), <<Net(2), i>>}, m + 1)
    <3>1. First(Net(1)) = <<Net(1), 1>>
      BY DEF First
    <3> SUFFICES ASSUME NEW e \in {Net(1), Net(2)}, NEW j, j = IF e = Net(1) THEN 1 ELSE i
                 PROVE  /\ <<e, j>> # Kept /\ s.reader[e] = k1
                        /\ j \in 1 .. Amount(move.need, e)
                        /\ s.index[e][s.taken[e][m] + j] = m + 1
      <4>1. ASSUME NEW x \in {First(Net(1)), <<Net(2), i>>}
            PROVE  \E e \in {Net(1), Net(2)} : x = <<e, IF e = Net(1) THEN 1 ELSE i>>
        BY <1>7, <3>1
      <4>2. Net(1) \in DOMAIN g.capacity /\ Net(2) \in DOMAIN g.capacity
        BY <1>3, <1>7
      <4>3. \A e, j : <<e, j>>[1] = e /\ <<e, j>>[2] = j
        OBVIOUS
      <4> QED BY <2>3, <4>1, <4>2, <4>3 DEF FromPlace, k1
    <3>2. <<e, j>> # Kept
      BY DEF Kept, Net
    <3>3. CASE e = Net(1)
      BY <1>7, <1>8, <1>9, <2>4, <2>6, <3>2, <3>3
    <3>4. CASE e = Net(2)
      BY <1>7, <1>8, <1>9, <2>4, <2>5, <2>6, <3>2, <3>4
    <3> QED BY <3>3, <3>4
  <2>10. First(Net(1)) # Kept
    BY DEF First, Kept, Net
  <2>11. PlanPuts(g, s, "k1", m)
    <3> SUFFICES ASSUME NEW e \in FifoQueues
                 PROVE  IF s.writer[e] = k1
                          THEN /\ s.put[e][m] <= s.put[e][m + 1]
                               /\ DOMAIN Output(move, e) = 1 .. s.put[e][m + 1] - s.put[e][m]
                               /\ \A j \in DOMAIN Output(move, e) :
                                    /\ FromPlace(g, s, "k1", m, Output(move, e)[j],
                                                 s.index[e][s.put[e][m] + j])
                                    /\ \E x \in Output(move, e)[j] : x # Kept
                          ELSE DOMAIN Output(move, e) = {}
      BY <1>3, <2>3 DEF PlanPuts, k1
    <3>1. CASE e = Out(1)
      <4>1. Output(move, e) = <<{First(Net(1)), <<Net(2), i>>}>> /\ s.writer[e] = k1
        BY <1>8, <2>4, <3>1
      <4>2. DOMAIN Output(move, e) = {1} /\ Output(move, e)[1] = {First(Net(1)), <<Net(2), i>>}
        BY <4>1
      <4>3. /\ s.put[e][m] = m /\ s.put[e][m + 1] = m + 1 /\ s.index[e][m + 1] = m + 1
            /\ 1 .. (m + 1) - m = {1} /\ m <= m + 1
        BY <1>9, <2>6, <3>1
      <4> QED BY <2>9, <2>10, <4>1, <4>2, <4>3
    <3>2. CASE e # Out(1)
      <4>1. s.writer[e] # k1 /\ Output(move, e) = << >>
        BY <1>6, <1>7, <1>8, <2>4, <3>2
      <4> QED BY <4>1
    <3> QED BY <3>1, <3>2
  <2> QED BY <2>7, <2>8, <2>11
<1>15. PlanBlocks(g, s, "k0")
  <2>1. Amount(MoveAt(g, "k0", 0).need, In(1)) = Window
    <3>1. PICK i : i = (0 % Window) + 1
      OBVIOUS
    <3>2. i \in Vectors /\ MoveAt(g, "k0", 0) = AieDest1[i]
      BY <3>1, FifoMoves DEF g
    <3> QED BY <1>7, <3>2, FifoFirst DEF FifoFirstMove
  <2>2. \A m \in 0 .. total : s.put[In(1)][m] <= s.put[In(1)][total]
    BY <1>2, <1>9
  <2>3. s.rank[k1] < s.rank[k0]
    BY <1>1, <1>6
  <2>4. \A m \in 0 .. total - 1 : s.put[Net(1)][m] < s.taken[Net(1)][total]
    BY <1>2, <1>9
  <2> QED BY <1>3, <1>7, <1>8, <2>1, <2>2, <2>3, <2>4, WindowAssumption
          DEF PlanBlocks, total, k0
<1>16. PlanBlocks(g, s, "k1")
  <2>1. Amount(MoveAt(g, "k1", 0).need, Net(1)) = 1
    <3>1. PICK i : i = (0 % Window) + 1
      OBVIOUS
    <3>2. i \in Vectors /\ MoveAt(g, "k1", 0) = AieDest2[i]
      BY <3>1, FifoMoves DEF g
    <3> QED BY <1>7, <3>2, FifoSecond
  <2>2. \A m \in 0 .. total : s.put[Net(1)][m] <= s.put[Net(1)][total]
    BY <1>2, <1>9
  <2>3. s.rank[Channel(2)] < s.rank[k1]
    BY <1>1, <1>6
  <2>4. \A m \in 0 .. total - 1 : s.put[Out(1)][m] < s.taken[Out(1)][total]
    BY <1>2, <1>9
  <2> QED BY <1>3, <1>7, <1>8, <2>1, <2>2, <2>3, <2>4 DEF PlanBlocks, total, k1
<1>17. \A m \in 0 .. Total(s) - 1 : m \in Nat
  BY <1>2 DEF total
<1>18. \A k \in DOMAIN g.kernels :
         /\ \A m \in 0 .. Total(s) - 1 :
              PlanTakes(g, s, k, m) /\ PlanPuts(g, s, k, m) /\ PlanKeeps(g, s, k, m)
         /\ PlanBlocks(g, s, k)
  BY <1>3, <1>13, <1>14, <1>15, <1>16, <1>17
<1> QED BY <1>10, <1>11, <1>12, <1>18 DEF Plan, g

(* A program of one transaction with one input and one output.             *)
IsPair(s) ==
  /\ s.items \in Nat /\ s.parts = 1 /\ s.channels = 2 /\ s.dirs = <<"to", "from">>
  /\ \E port1, port2 \in 1 .. 16 : s.ports = <<port1, port2>>

PairPhase(p, s, h, b1, b2) ==
  LET ph == p.phases[h] IN
  /\ ph.mode \in {"FUNC", "PERF"}
  /\ ph.asks = "valid" \/ (ph.asks \in {"always", "unset"} /\ ph.mode = "FUNC")
  /\ ph.golden = {} \/ (ph.golden = {b2} /\ p.span = 1)
  /\ ph.transactions = << <<Arg("to", s.ports[1], s.items, s.bytes, s.reps, b1),
                            Arg("from", s.ports[2], s.items, s.bytes, s.reps, b2)>> >>
  /\ b1 \in DOMAIN p.data /\ b2 \in DOMAIN p.data /\ b1 # b2

(* A phase with one input and one output fits its plan.                    *)
LEMMA PairPhaseFits ==
  ASSUME NEW p, NEW s, NEW h, NEW b1, NEW b2, IsPair(s), PairPhase(p, s, h, b1, b2),
         p.device \in {"vck190", "vek280", "vek385"}
  PROVE  PhaseFits(p, s, h)
<1> DEFINE ph == p.phases[h]
           buffer(i) == ph.transactions[1][i].buf
           arg1 == Arg("to", s.ports[1], s.items, s.bytes, s.reps, b1)
           arg2 == Arg("from", s.ports[2], s.items, s.bytes, s.reps, b2)
<1>0. PICK port1 \in 1 .. 16, port2 \in 1 .. 16 : s.ports = <<port1, port2>>
  BY DEF IsPair
<1>1. /\ ph.mode \in {"FUNC", "PERF"}
      /\ ph.asks = "valid" \/ (ph.asks \in {"always", "unset"} /\ ph.mode = "FUNC")
      /\ ph.golden = {} \/ (ph.golden = {b2} /\ p.span = 1)
      /\ ph.transactions = << <<arg1, arg2>> >>
      /\ b1 \in DOMAIN p.data /\ b2 \in DOMAIN p.data /\ b1 # b2
  BY DEF PairPhase
<1>2. /\ arg1.dir = "to" /\ arg1.plio = port1 /\ arg1.items = s.items
      /\ arg1.bytes = s.bytes /\ arg1.rep = s.reps /\ arg1.buf = b1 /\ arg1.skip = 0
      /\ arg2.dir = "from" /\ arg2.plio = port2 /\ arg2.items = s.items
      /\ arg2.bytes = s.bytes /\ arg2.rep = s.reps /\ arg2.buf = b2 /\ arg2.skip = 0
  <2>1. s.ports[1] = port1 /\ s.ports[2] = port2
    BY <1>0
  <2> QED BY <2>1 DEF Arg
<1>3. s.items \in Nat /\ s.parts = 1 /\ s.channels = 2 /\ s.dirs = <<"to", "from">>
  BY DEF IsPair
<1> HIDE DEF ph, arg1, arg2
<1>4. /\ Len(ph.transactions) = 1 /\ DOMAIN ph.transactions[1] = 1 .. 2
      /\ ph.transactions[1][1] = arg1 /\ ph.transactions[1][2] = arg2
  BY <1>1
<1>5. 1 .. 1 = {1} /\ 1 .. 2 = {1, 2}
  OBVIOUS
<1>6. /\ s.dirs[1] = "to" /\ s.dirs[2] = "from" /\ s.ports[1] = port1 /\ s.ports[2] = port2
  BY <1>0, <1>3
<1>7. buffer(1) = b1 /\ buffer(2) = b2
  BY <1>2, <1>4
<1>8. /\ Boards[p.device].to[port1 - 1] = port1
      /\ Boards[p.device].from[port2 - 1] = port2
  <2>1. port1 - 1 \in 0 .. 15 /\ port2 - 1 \in 0 .. 15
        /\ (port1 - 1) + 1 = port1 /\ (port2 - 1) + 1 = port2
    OBVIOUS
  <2> QED BY <2>1, PortsOfBoards
<1>9. (1 - 1) * s.items = 0
  BY <1>3
<1>10. ArgumentFits(p.device, s, arg1, 1, 1) /\ ArgumentFits(p.device, s, arg2, 1, 2)
  <2>1. ArgumentFits(p.device, s, arg1, 1, 1)
    BY <1>2, <1>6, <1>8, <1>9 DEF ArgumentFits
  <2>2. ArgumentFits(p.device, s, arg2, 1, 2)
    BY <1>2, <1>6, <1>8, <1>9 DEF ArgumentFits
  <2> QED BY <2>1, <2>2
<1>11. \A n \in 1 .. s.parts :
         /\ DOMAIN ph.transactions[n] = 1 .. s.channels
         /\ \A i \in 1 .. s.channels :
              /\ ArgumentFits(p.device, s, ph.transactions[n][i], n, i)
              /\ ph.transactions[n][i].buf = buffer(i)
  <2> SUFFICES ASSUME NEW n \in {1}
               PROVE  /\ DOMAIN ph.transactions[n] = 1 .. 2
                      /\ \A i \in {1, 2} :
                           /\ ArgumentFits(p.device, s, ph.transactions[n][i], n, i)
                           /\ ph.transactions[n][i].buf = buffer(i)
    BY <1>5, <1>3
  <2>1. n = 1
    OBVIOUS
  <2>2. \A i \in {1, 2} : ArgumentFits(p.device, s, ph.transactions[1][i], 1, i)
    BY <1>4, <1>10
  <2> QED BY <1>4, <2>1, <2>2
<1>12. \A i \in 1 .. s.channels : buffer(i) \in DOMAIN p.data
  BY <1>1, <1>5, <1>7, <1>3
<1>13. \A i, j \in 1 .. s.channels : i # j /\ s.dirs[j] = "from" => buffer(i) # buffer(j)
  <2> SUFFICES ASSUME NEW i \in {1, 2}, NEW j \in {1, 2}, i # j, s.dirs[j] = "from"
               PROVE  buffer(i) # buffer(j)
    BY <1>5, <1>3
  <2>1. i = 1 /\ j = 2
    BY <1>6
  <2> QED BY <1>1, <1>7, <2>1
<1>14. \A b \in ph.golden :
         p.span = 1 /\ \E i \in 1 .. s.channels : s.dirs[i] = "from" /\ buffer(i) = b
  BY <1>1, <1>5, <1>6, <1>7, <1>3
<1>15. /\ ph.mode \in {"FUNC", "PERF"}
       /\ ph.asks = "valid" \/ (ph.asks \in {"always", "unset"} /\ ph.mode = "FUNC")
       /\ Len(ph.transactions) = s.parts
  BY <1>1, <1>4, <1>3
<1>16. ph = p.phases[h]
  BY DEF ph
<1> QED BY ONLY <1>11, <1>12, <1>13, <1>14, <1>15, <1>16 DEF PhaseFits

(* The dmafifo program has a plan.                                         *)
LEMMA DmaFifoFits ==
  ASSUME NEW iters \in Nat \ {0}, NEW reps \in Nat \ {0}
  PROVE  HasPlan(DmaFifo(iters, reps))
<1> DEFINE p == DmaFifo(iters, reps)
           items == iters * Window
           bytes == iters * 4096
           s == FifoPlan(items, bytes, reps)
           in(b) == Arg("to", 1, items, bytes, reps, b)
           out(b) == Arg("from", 1, items, bytes, reps, b)
           ph(mode, asks, from, to) ==
             Phase(mode, iters * reps, asks, {to}, << <<in(from), out(to)>> >>)
<1>1. /\ p.device = "vck190" /\ p.graph = DmaFifoGraph /\ p.span = 1
      /\ p.data = [a |-> Input(items, 1), s |-> Zeroes(items), s2 |-> Zeroes(items)]
      /\ p.phases = <<ph("FUNC", "unset", "a", "s"), ph("PERF", "valid", "s", "s2")>>
  BY DEF DmaFifo, Program
<1>2. /\ items \in Nat \ {0} /\ AreWindows(items) /\ bytes \in Nat
  <2>1. items \in Nat \ {0} /\ bytes \in Nat
    BY WindowAssumption
  <2>2. AreWindows(items)
    BY DEF AreWindows
  <2> QED BY <2>1, <2>2
<1> HIDE DEF p, items, bytes
<1>3. /\ s.items = items /\ s.bytes = bytes /\ s.reps = reps /\ s.parts = 1
      /\ s.channels = 2 /\ s.dirs = <<"to", "from">> /\ s.ports = <<1, 1>>
  BY DEF FifoPlan
<1>4. Plan(p.graph, p.span, s)
  BY <1>1, <1>2, FifoPlanned
<1> HIDE DEF s, in, out
<1>5. /\ Len(p.phases) = 2
      /\ p.phases[1] = ph("FUNC", "unset", "a", "s")
      /\ p.phases[2] = ph("PERF", "valid", "s", "s2")
  BY <1>1
<1>6. /\ p.phases[1].mode = "FUNC" /\ p.phases[1].asks = "unset"
      /\ p.phases[1].golden = {"s"} /\ p.phases[1].transactions = << <<in("a"), out("s")>> >>
      /\ p.phases[2].mode = "PERF" /\ p.phases[2].asks = "valid"
      /\ p.phases[2].golden = {"s2"} /\ p.phases[2].transactions = << <<in("s"), out("s2")>> >>
  BY <1>5 DEF Phase
<1> HIDE DEF ph
<1>7. DOMAIN p.data = {"a", "s", "s2"} /\ "a" # "s" /\ "s" # "s2"
  BY <1>1
<1>8. IsPair(s)
  BY <1>2, <1>3 DEF IsPair
<1>9. PhaseFits(p, s, 1) /\ PhaseFits(p, s, 2)
  <2>1. s.ports[1] = 1 /\ s.ports[2] = 1
    BY <1>3
  <2>2. PairPhase(p, s, 1, "a", "s")
    BY <1>1, <1>3, <1>6, <1>7, <2>1 DEF PairPhase, in, out
  <2>3. PairPhase(p, s, 2, "s", "s2")
    BY <1>1, <1>3, <1>6, <1>7, <2>1 DEF PairPhase, in, out
  <2>4. p.device \in {"vck190", "vek280", "vek385"}
    BY <1>1
  <2> QED BY <1>8, <2>2, <2>3, <2>4, PairPhaseFits
<1>10. /\ p.phases[1].transactions[1][1].buf = "a" /\ p.phases[1].transactions[1][2].buf = "s"
       /\ p.phases[2].transactions[1][1].buf = "s" /\ p.phases[1].mode = "FUNC"
  BY <1>6 DEF in, out, Arg
<1>11. Length(s) = items
  BY <1>2, <1>3 DEF Length
<1>12. p.data["a"] = [x \in 1 .. items |-> x] /\ p.data \in [DOMAIN p.data -> [1 .. items -> Nat]]
  <2>1. Input(items, 1) = [x \in 1 .. items |-> x] /\ Input(items, 1) \in [1 .. items -> Nat]
    BY <1>2, InputOfPlaces
  <2>2. Zeroes(items) \in [1 .. items -> Nat]
    BY DEF Zeroes
  <2> QED BY <1>1, <2>1, <2>2
<1>13. s.dirs[1] = "to" /\ s.dirs[2] = "from" /\ \A i \in 1 .. s.channels : i = 1 \/ i = 2
  BY <1>3
<1>14. InputsThere(p, s, 1)
  <2>1. \A x \in 1 .. Length(s) : p.data["a"][x] = x
    BY <1>11, <1>12
  <2>2. \A i \in 1 .. s.channels : s.dirs[i] = "to" => i = 1
    BY <1>13
  <2> QED BY <1>10, <2>1, <2>2 DEF InputsThere
<1>15. InputsThere(p, s, 2)
  <2>1. 2 \in 1 .. s.channels /\ 2 # 1 /\ 2 - 1 = 1
    BY <1>3
  <2> QED BY <1>10, <1>13, <2>1 DEF InputsThere
<1>16. Boards[p.device].depth \in Nat
  BY <1>1 DEF Boards
<1>17. \A h \in 1 .. Len(p.phases) : PhaseFits(p, s, h) /\ InputsThere(p, s, h)
  <2>1. \A h \in 1 .. Len(p.phases) : h = 1 \/ h = 2
    BY <1>5
  <2> QED BY <1>9, <1>14, <1>15, <2>1
<1>18. Len(p.phases) \in Nat \ {0} /\ p.span \in Nat \ {0}
  BY <1>1, <1>5
<1>19. Fitting(p, s)
  BY <1>4, <1>11, <1>12, <1>16, <1>17, <1>18 DEF Fitting
<1>20. HasPlan(p)
  BY <1>19 DEF HasPlan
<1> QED BY <1>20 DEF p
-----------------------------------------------------------------------------
(* The plan of normalization: a frame of six tiles after the other.        *)

NormQueues == Readers \cup {In(1), Net(1), Net(2), Out(2)}
NormKernels == {"mtxA", "mean", "deviation", "norm"}
Frames(m) == m \div Repeat
NormPlan(items, bytes, reps) == [
  items |-> items, bytes |-> bytes, reps |-> reps, parts |-> 1,
  channels |-> 2, dirs |-> <<"to", "from">>, ports |-> <<1, 2>>,
  writer |-> [e \in NormQueues |->
                IF e = In(1) THEN Channel(1)
                ELSE IF e = Net(1) THEN Kernel("mean")
                ELSE IF e = Net(2) THEN Kernel("deviation")
                ELSE IF e = Out(2) THEN Kernel("norm") ELSE Kernel("mtxA")],
  reader |-> [e \in NormQueues |->
                IF e = In(1) THEN Kernel("mtxA")
                ELSE IF e = Out(2) THEN Channel(2)
                ELSE IF e = Reader.mean THEN Kernel("mean")
                ELSE IF e \in {Reader.deviation, Net(1)} THEN Kernel("deviation")
                ELSE Kernel("norm")],
  put |-> [e \in NormQueues |->
             [m \in Nat |->
                IF e \in {In(1), Out(2)} THEN m
                ELSE IF e \in Readers THEN Frames(m) * Repeat ELSE Frames(m)]],
  taken |-> [e \in NormQueues |->
               [m \in Nat |-> IF e \in {Net(1), Net(2)} THEN Frames(m + Repeat - 1) ELSE m]],
  index |-> [e \in NormQueues |->
               [n \in Nat |-> IF e \in {Net(1), Net(2)} \/ n = 0 THEN n ELSE Frames(n - 1) + 1]],
  keeps |-> [k \in NormKernels |->
               [m \in Nat |-> IF m % Repeat # 0 THEN Frames(m) + 1
                              ELSE IF k = "norm" THEN -1 ELSE 0]],
  rank |-> [a \in {Kernel(k) : k \in NormKernels} \cup {Channel(1), Channel(2)} |->
              IF a = Kernel("mean") THEN 3
              ELSE IF a \in {Kernel("deviation"), Kernel("mtxA")} THEN 2
              ELSE IF a = Kernel("norm") THEN 1 ELSE 0]]

(* A frame has six tiles.                                                  *)
LEMMA SixTiles == Repeat = 6 /\ Tiles = 1 .. 6
BY DEF Repeat, Tiles

(* The whole frames among m tiles, and among one more.                     *)
LEMMA NextFrame ==
  ASSUME NEW m \in Nat, NEW r, r = m % Repeat
  PROVE  /\ r \in 0 .. 5 /\ Frames(m) \in Nat /\ 6 * Frames(m) + r = m
         /\ Frames(m + 1) = IF r = 5 THEN Frames(m) + 1 ELSE Frames(m)
         /\ (m + 1) % Repeat = IF r = 5 THEN 0 ELSE r + 1
<1>1. PICK q : q = m \div 6
  OBVIOUS
<1>2. r = m % 6 /\ Frames(m) = q
  BY <1>1, SixTiles DEF Frames
<1>3. r \in 0 .. 5 /\ q \in Nat /\ m = 6 * q + r
  <2>1. r \in 0 .. 5 /\ q \in Nat
    BY <1>1, <1>2
  <2>2. m = 6 * q + r
    BY <1>1, <1>2
  <2> QED BY <2>1, <2>2
<1>4. CASE r = 5
  <2>1. m + 1 = 6 * (q + 1) + 0 /\ q + 1 \in Int /\ 0 \in 0 .. 6 - 1 /\ m + 1 \in Int
    BY <1>3, <1>4
  <2>2. (m + 1) \div 6 = q + 1 /\ (m + 1) % 6 = 0
    BY <2>1, DivisionUnique
  <2> QED BY <1>2, <1>3, <1>4, <2>2, SixTiles DEF Frames
<1>5. CASE r # 5
  <2>1. m + 1 = 6 * q + (r + 1) /\ r + 1 \in 0 .. 6 - 1 /\ m + 1 \in Int /\ q \in Int
    BY <1>3, <1>5
  <2>2. (m + 1) \div 6 = q /\ (m + 1) % 6 = r + 1
    BY <2>1, DivisionUnique
  <2> QED BY <1>2, <1>3, <1>5, <2>2, SixTiles DEF Frames
<1> QED BY <1>4, <1>5

(* How many they are, given quotient and remainder.                        *)
LEMMA FrameOf ==
  ASSUME NEW q \in Nat, NEW r \in 0 .. 5, NEW m, m = 6 * q + r
  PROVE  Frames(m) = q /\ m % Repeat = r
<1>1. m \in Int /\ q \in Int /\ 6 \in Nat \ {0} /\ r \in 0 .. 6 - 1
  OBVIOUS
<1>2. m \div 6 = q /\ m % 6 = r
  BY <1>1, DivisionUnique
<1> QED BY <1>2, SixTiles DEF Frames

(* How far the statistics are taken when m tiles are.                      *)
LEMMA StatisticsTaken ==
  ASSUME NEW m \in Nat, NEW r, r = m % Repeat
  PROVE  /\ Frames(m + Repeat - 1) = IF r = 0 THEN Frames(m) ELSE Frames(m) + 1
         /\ Frames((m + 1) + Repeat - 1) = Frames(m) + 1
<1>1. PICK q : q = Frames(m)
  OBVIOUS
<1>2. r \in 0 .. 5 /\ q \in Nat /\ m = 6 * q + r
  BY <1>1, NextFrame
<1>3. m + Repeat - 1 = IF r = 0 THEN 6 * q + 5 ELSE 6 * (q + 1) + (r - 1)
  BY <1>2, SixTiles
<1>4. (m + 1) + Repeat - 1 = 6 * (q + 1) + r
  BY <1>2, SixTiles
<1>5. Frames((m + 1) + Repeat - 1) = q + 1
  <2>1. PICK x : x = (m + 1) + Repeat - 1
    OBVIOUS
  <2>2. x = 6 * (q + 1) + r /\ q + 1 \in Nat
    BY <1>2, <1>4, <2>1
  <2> QED BY <1>2, <2>1, <2>2, FrameOf
<1>6. CASE r = 0
  <2>1. m + Repeat - 1 = 6 * q + 5 /\ 5 \in 0 .. 5
    BY <1>3, <1>6
  <2>2. Frames(m + Repeat - 1) = q
    BY <1>2, <2>1, FrameOf
  <2> QED BY <1>1, <1>5, <1>6, <2>2
<1>7. CASE r # 0
  <2>1. m + Repeat - 1 = 6 * (q + 1) + (r - 1) /\ r - 1 \in 0 .. 5 /\ q + 1 \in Nat
    BY <1>2, <1>3, <1>7
  <2>2. Frames(m + Repeat - 1) = q + 1
    BY <2>1, FrameOf
  <2> QED BY <1>1, <1>5, <1>7, <2>2
<1> QED BY <1>6, <1>7

(* The queues of the normalization program.                                *)
LEMMA NormQueuesDiffer ==
  /\ In(1) # Reader.mean /\ In(1) # Reader.deviation /\ In(1) # Reader.norm
  /\ In(1) # Net(1) /\ In(1) # Net(2) /\ In(1) # Out(2)
  /\ Reader.mean # Reader.deviation /\ Reader.mean # Reader.norm
  /\ Reader.deviation # Reader.norm
  /\ \A e \in Readers : e # Net(1) /\ e # Net(2) /\ e # Out(2) /\ e # In(1)
  /\ Net(1) # Net(2) /\ Net(1) # Out(2) /\ Net(2) # Out(2)
  /\ Reader.mean \in Readers /\ Reader.deviation \in Readers /\ Reader.norm \in Readers
  /\ \A e \in Readers : e = Reader.mean \/ e = Reader.deviation \/ e = Reader.norm
  /\ \A e \in NormQueues : e \in Readers \/ e = In(1) \/ e = Net(1) \/ e = Net(2) \/ e = Out(2)
  /\ Readers \subseteq NormQueues /\ In(1) \in NormQueues /\ Net(1) \in NormQueues
  /\ Net(2) \in NormQueues /\ Out(2) \in NormQueues
<1>1. /\ In(1) # Reader.mean /\ In(1) # Reader.deviation /\ In(1) # Reader.norm
      /\ In(1) # Net(1) /\ In(1) # Net(2) /\ In(1) # Out(2)
      /\ Net(1) # Net(2) /\ Net(1) # Out(2) /\ Net(2) # Out(2)
  BY DEF In, Reader, Net, Out
<1>2. /\ Reader.mean # Reader.deviation /\ Reader.mean # Reader.norm
      /\ Reader.deviation # Reader.norm
  BY DEF Reader
<1>3. \A e \in Readers : e[1] = "mtxA"
  BY DEF Readers, Reader
<1>4. \A e \in Readers : e # Net(1) /\ e # Net(2) /\ e # Out(2) /\ e # In(1)
  BY <1>3 DEF Net, Out, In
<1>5. /\ Reader.mean \in Readers /\ Reader.deviation \in Readers /\ Reader.norm \in Readers
      /\ \A e \in Readers : e = Reader.mean \/ e = Reader.deviation \/ e = Reader.norm
  BY DEF Readers
<1>6. /\ \A e \in NormQueues : e \in Readers \/ e = In(1) \/ e = Net(1) \/ e = Net(2) \/ e = Out(2)
      /\ Readers \subseteq NormQueues /\ In(1) \in NormQueues /\ Net(1) \in NormQueues
      /\ Net(2) \in NormQueues /\ Out(2) \in NormQueues
  BY DEF NormQueues
<1> QED BY <1>1, <1>2, <1>4, <1>5, <1>6

(* Its kernels have a move for each tile of a frame.                       *)
LEMMA NormMoves ==
  ASSUME NEW m \in Nat, NEW i, i = (m % Repeat) + 1
  PROVE  /\ DOMAIN NormalizationGraph.kernels = NormKernels
         /\ \A k \in NormKernels : Len(NormalizationGraph.kernels[k]) = Repeat
         /\ MoveAt(NormalizationGraph, "mtxA", m) = SharedBuffer[i]
         /\ MoveAt(NormalizationGraph, "mean", m) = Mean[i]
         /\ MoveAt(NormalizationGraph, "deviation", m) = Deviation[i]
         /\ MoveAt(NormalizationGraph, "norm", m) = Norm[i]
         /\ i \in 1 .. 6
<1>1. NormalizationGraph.kernels = [mtxA |-> SharedBuffer, mean |-> Mean,
                                    deviation |-> Deviation, norm |-> Norm]
  BY DEF NormalizationGraph
<1>2. /\ Len(SharedBuffer) = Repeat /\ Len(Mean) = Repeat /\ Len(Deviation) = Repeat
      /\ Len(Norm) = Repeat
  BY SixTiles DEF SharedBuffer, Mean, Deviation, Norm
<1>3. i \in 1 .. 6
  <2>1. PICK r : r = m % Repeat
    OBVIOUS
  <2>2. r \in 0 .. 5
    BY <2>1, NextFrame
  <2> QED BY <2>1, <2>2
<1>4. DOMAIN NormalizationGraph.kernels = NormKernels
  BY <1>1 DEF NormKernels
<1>5. \A k \in NormKernels : Len(NormalizationGraph.kernels[k]) = Repeat
  BY <1>1, <1>2 DEF NormKernels
<1> QED BY <1>1, <1>2, <1>3, <1>4, <1>5 DEF MoveAt, InRound

(* The shared buffer is filled tile by tile and read frame by frame.       *)
LEMMA MtxMove ==
  ASSUME NEW i \in 1 .. 6, NEW e \in NormQueues
  PROVE  LET move == SharedBuffer[i] IN
         /\ Amount(move.need, e) = IF e = In(1) THEN 1 ELSE 0
         /\ Amount(move.get, e) = IF e = In(1) THEN 1 ELSE 0
         /\ Output(move, e) = IF e \in Readers /\ i = 6
                                THEN [j \in 1 .. 6 |-> {Kept, First(In(1))}] ELSE << >>
         /\ move.keep = IF i = 6 THEN {} ELSE {Kept, First(In(1))}
<1> DEFINE move == SharedBuffer[i]
           tile == {Kept, First(In(1))}
<1>1. /\ move.need = One(In(1)) /\ move.get = One(In(1))
      /\ move.put = IF i = 6 THEN [d \in Readers |-> [j \in 1 .. 6 |-> tile]] ELSE Nothing
      /\ move.keep = IF i = 6 THEN {} ELSE tile
  BY SixTiles DEF SharedBuffer, Holding
<1> HIDE DEF move, tile
<1>2. Amount(move.need, e) = (IF e = In(1) THEN 1 ELSE 0) /\ Amount(move.get, e) = Amount(move.need, e)
  BY <1>1 DEF Amount, One, :>
<1>3. Output(move, e) = IF e \in Readers /\ i = 6 THEN [j \in 1 .. 6 |-> tile] ELSE << >>
  <2>1. CASE i = 6
    BY <1>1, <2>1 DEF Output
  <2>2. CASE i # 6
    BY <1>1, <2>2 DEF Output, Nothing
  <2> QED BY <2>1, <2>2
<1> QED BY <1>1, <1>2, <1>3 DEF move, tile

(* mean takes a tile at a time and puts the result with the last.          *)
LEMMA MeanMove ==
  ASSUME NEW i \in 1 .. 6, NEW e \in NormQueues
  PROVE  LET move == Mean[i] IN
         /\ Amount(move.need, e) = IF e = Reader.mean THEN 1 ELSE 0
         /\ Amount(move.get, e) = IF e = Reader.mean THEN 1 ELSE 0
         /\ Output(move, e) = IF e = Net(1) /\ i = 6
                                THEN <<{Kept, First(Reader.mean)}>> ELSE << >>
         /\ move.keep = IF i = 6 THEN {} ELSE {Kept, First(Reader.mean)}
<1> DEFINE move == Mean[i]
           own == {Kept, First(Reader.mean)}
<1>1. /\ move.need = One(Reader.mean) /\ move.get = One(Reader.mean)
      /\ move.put = IF i = 6 THEN PutOne(Net(1), own) ELSE Nothing
      /\ move.keep = IF i = 6 THEN {} ELSE own
  BY SixTiles DEF Mean, Streaming, Holding
<1> HIDE DEF move, own
<1>2. /\ Amount(move.need, e) = (IF e = Reader.mean THEN 1 ELSE 0)
      /\ Amount(move.get, e) = Amount(move.need, e)
  BY <1>1 DEF Amount, One, :>
<1>3. Output(move, e) = IF e = Net(1) /\ i = 6 THEN <<own>> ELSE << >>
  <2>1. CASE i = 6
    BY <1>1, <2>1 DEF Output, PutOne, :>
  <2>2. CASE i # 6
    BY <1>1, <2>2 DEF Output, Nothing
  <2> QED BY <2>1, <2>2
<1> QED BY <1>1, <1>2, <1>3 DEF move, own

DeviationOwn(i) ==
  {Kept, First(Reader.deviation)} \cup IF i = 1 THEN {First(Net(1))} ELSE {}

(* deviation takes the mean with the first tile of a frame.                *)
LEMMA DeviationMove ==
  ASSUME NEW i \in 1 .. 6, NEW e \in NormQueues
  PROVE  LET move == Deviation[i] IN
         /\ Amount(move.need, e) = IF e = Reader.deviation \/ (e = Net(1) /\ i = 1) THEN 1 ELSE 0
         /\ Amount(move.get, e) = IF e = Reader.deviation \/ (e = Net(1) /\ i = 1) THEN 1 ELSE 0
         /\ Output(move, e) = IF e = Net(2) /\ i = 6 THEN <<DeviationOwn(i)>> ELSE << >>
         /\ move.keep = IF i = 6 THEN {} ELSE DeviationOwn(i)
<1> DEFINE move == Deviation[i]
           takes == One(Reader.deviation) @@ IF i = 1 THEN One(Net(1)) ELSE Nothing
<1>1. /\ move.need = takes /\ move.get = takes
      /\ move.put = IF i = 6 THEN PutOne(Net(2), DeviationOwn(i)) ELSE Nothing
      /\ move.keep = IF i = 6 THEN {} ELSE DeviationOwn(i)
  BY SixTiles DEF Deviation, Streaming, Holding, DeviationOwn
<1>2. Amount(takes, e) = IF e = Reader.deviation \/ (e = Net(1) /\ i = 1) THEN 1 ELSE 0
  <2>1. CASE i = 1
    <3>1. takes = One(Reader.deviation) @@ One(Net(1))
      BY <2>1
    <3> HIDE DEF takes
    <3> QED BY <2>1, <3>1 DEF Amount, One, :>, @@
  <2>2. CASE i # 1
    <3>1. takes = One(Reader.deviation) @@ Nothing
      BY <2>2
    <3> HIDE DEF takes
    <3> QED BY <2>2, <3>1 DEF Amount, One, :>, @@, Nothing
  <2> QED BY <2>1, <2>2
<1> HIDE DEF move, takes
<1>3. Output(move, e) = IF e = Net(2) /\ i = 6 THEN <<DeviationOwn(i)>> ELSE << >>
  <2>1. CASE i = 6
    BY <1>1, <2>1 DEF Output, PutOne, :>
  <2>2. CASE i # 6
    BY <1>1, <2>2 DEF Output, Nothing
  <2> QED BY <2>1, <2>2
<1> QED BY <1>1, <1>2, <1>3 DEF move

Statistics(i) == IF i = 1 THEN First(Net(2)) ELSE Kept

(* norm takes both with its first tile and puts a tile each time.          *)
LEMMA NormMove ==
  ASSUME NEW i \in 1 .. 6, NEW e \in NormQueues
  PROVE  LET move == Norm[i] IN
         /\ Amount(move.need, e) = IF e = Reader.norm \/ (e = Net(2) /\ i = 1) THEN 1 ELSE 0
         /\ Amount(move.get, e) = IF e = Reader.norm \/ (e = Net(2) /\ i = 1) THEN 1 ELSE 0
         /\ Output(move, e) = IF e = Out(2) THEN <<{First(Reader.norm), Statistics(i)}>> ELSE << >>
         /\ move.keep = {Statistics(i)}
<1> DEFINE move == Norm[i]
           takes == One(Reader.norm) @@ IF i = 1 THEN One(Net(2)) ELSE Nothing
<1>1. /\ move.need = takes /\ move.get = takes
      /\ move.put = PutOne(Out(2), {First(Reader.norm), Statistics(i)})
      /\ move.keep = {Statistics(i)}
  BY SixTiles DEF Norm, Streaming, Holding, Statistics
<1>2. Amount(takes, e) = IF e = Reader.norm \/ (e = Net(2) /\ i = 1) THEN 1 ELSE 0
  <2>1. CASE i = 1
    <3>1. takes = One(Reader.norm) @@ One(Net(2))
      BY <2>1
    <3> HIDE DEF takes
    <3> QED BY <2>1, <3>1 DEF Amount, One, :>, @@
  <2>2. CASE i # 1
    <3>1. takes = One(Reader.norm) @@ Nothing
      BY <2>2
    <3> HIDE DEF takes
    <3> QED BY <2>2, <3>1 DEF Amount, One, :>, @@, Nothing
  <2> QED BY <2>1, <2>2
<1> HIDE DEF move, takes
<1>3. Output(move, e) = IF e = Out(2) THEN <<{First(Reader.norm), Statistics(i)}>> ELSE << >>
  BY <1>1 DEF Output, PutOne, :>
<1> QED BY <1>1, <1>2, <1>3 DEF move

(* Tokens that are kept or at the front of their queues.                   *)
LEMMA FromFronts ==
  ASSUME NEW g, NEW s, NEW k, NEW m, NEW sources, NEW f,
         \A x \in sources :
           \/ x = Kept /\ s.keeps[k][m] \in {0, f}
           \/ \E e \in DOMAIN g.capacity :
                /\ x = First(e) /\ s.reader[e] = Kernel(k)
                /\ Amount(MoveAt(g, k, m).need, e) = 1
                /\ s.index[e][s.taken[e][m] + 1] = f
  PROVE  FromPlace(g, s, k, m, sources, f)
<1>1. \A e : First(e) # Kept /\ First(e)[1] = e /\ First(e)[2] = 1
  BY DEF First, Kept
<1>2. 1 \in 1 .. 1
  OBVIOUS
<1> QED BY <1>1, <1>2 DEF FromPlace

(* What the plan says, queue by queue.                                     *)
IsNormPlan(s, items) ==
  /\ s.items = items /\ s.parts = 1 /\ s.channels = 2
  /\ s.dirs = <<"to", "from">> /\ s.ports = <<1, 2>>
  /\ s.writer[In(1)] = Channel(1) /\ s.reader[In(1)] = Kernel("mtxA")
  /\ \A e \in Readers : s.writer[e] = Kernel("mtxA")
  /\ s.reader[Reader.mean] = Kernel("mean")
  /\ s.reader[Reader.deviation] = Kernel("deviation")
  /\ s.reader[Reader.norm] = Kernel("norm")
  /\ s.writer[Net(1)] = Kernel("mean") /\ s.reader[Net(1)] = Kernel("deviation")
  /\ s.writer[Net(2)] = Kernel("deviation") /\ s.reader[Net(2)] = Kernel("norm")
  /\ s.writer[Out(2)] = Kernel("norm") /\ s.reader[Out(2)] = Channel(2)
  /\ s.rank[Kernel("mean")] = 3 /\ s.rank[Kernel("deviation")] = 2 /\ s.rank[Kernel("mtxA")] = 2
  /\ s.rank[Kernel("norm")] = 1 /\ s.rank[Channel(2)] = 0
  /\ \A m \in Nat :
       /\ s.put[In(1)][m] = m /\ s.taken[In(1)][m] = m
       /\ s.put[Out(2)][m] = m /\ s.taken[Out(2)][m] = m
       /\ \A e \in Readers : s.put[e][m] = Frames(m) * Repeat /\ s.taken[e][m] = m
       /\ s.put[Net(1)][m] = Frames(m) /\ s.put[Net(2)][m] = Frames(m)
       /\ s.taken[Net(1)][m] = Frames(m + Repeat - 1)
       /\ s.taken[Net(2)][m] = Frames(m + Repeat - 1)
       /\ s.index[Net(1)][m] = m /\ s.index[Net(2)][m] = m
       /\ \A k \in {"mtxA", "mean", "deviation"} :
            s.keeps[k][m] = IF m % Repeat # 0 THEN Frames(m) + 1 ELSE 0
       /\ s.keeps["norm"][m] = IF m % Repeat # 0 THEN Frames(m) + 1 ELSE -1
  /\ \A m \in Nat \ {0} : \A e \in Readers \cup {In(1), Out(2)} :
       s.index[e][m] = Frames(m - 1) + 1

(* The plan of the normalization graph, read queue by queue.               *)
LEMMA NormPlanIs ==
  ASSUME NEW items, NEW bytes, NEW reps, NEW s, s = NormPlan(items, bytes, reps)
  PROVE  IsNormPlan(s, items)
<1>1. s.items = items /\ s.parts = 1 /\ s.channels = 2
      /\ s.dirs = <<"to", "from">> /\ s.ports = <<1, 2>>
  BY DEF NormPlan
<1>2. /\ "mtxA" # "mean" /\ "mtxA" # "deviation" /\ "mtxA" # "norm"
      /\ "mean" # "deviation" /\ "mean" # "norm" /\ "deviation" # "norm"
  OBVIOUS
<1>3. s.writer = [e \in NormQueues |->
                IF e = In(1) THEN Channel(1)
                ELSE IF e = Net(1) THEN Kernel("mean")
                ELSE IF e = Net(2) THEN Kernel("deviation")
                ELSE IF e = Out(2) THEN Kernel("norm") ELSE Kernel("mtxA")]
  BY DEF NormPlan
<1>4. s.reader = [e \in NormQueues |->
                IF e = In(1) THEN Kernel("mtxA")
                ELSE IF e = Out(2) THEN Channel(2)
                ELSE IF e = Reader.mean THEN Kernel("mean")
                ELSE IF e \in {Reader.deviation, Net(1)} THEN Kernel("deviation")
                ELSE Kernel("norm")]
  BY DEF NormPlan
<1>5. /\ s.writer[In(1)] = Channel(1)
      /\ s.writer[Net(1)] = Kernel("mean") /\ s.writer[Net(2)] = Kernel("deviation")
      /\ s.writer[Out(2)] = Kernel("norm")
      /\ \A e \in Readers : s.writer[e] = Kernel("mtxA")
  BY <1>3, NormQueuesDiffer
<1>6. /\ s.reader[In(1)] = Kernel("mtxA") /\ s.reader[Out(2)] = Channel(2)
      /\ s.reader[Reader.mean] = Kernel("mean")
      /\ s.reader[Reader.deviation] = Kernel("deviation")
      /\ s.reader[Reader.norm] = Kernel("norm")
      /\ s.reader[Net(1)] = Kernel("deviation") /\ s.reader[Net(2)] = Kernel("norm")
  BY <1>4, NormQueuesDiffer
<1>7. /\ s.rank[Kernel("mean")] = 3 /\ s.rank[Kernel("deviation")] = 2 /\ s.rank[Kernel("mtxA")] = 2
      /\ s.rank[Kernel("norm")] = 1 /\ s.rank[Channel(2)] = 0
  <2>1. s.rank = [a \in {Kernel(k) : k \in NormKernels} \cup {Channel(1), Channel(2)} |->
                    IF a = Kernel("mean") THEN 3
                    ELSE IF a \in {Kernel("deviation"), Kernel("mtxA")} THEN 2
                    ELSE IF a = Kernel("norm") THEN 1 ELSE 0]
    BY DEF NormPlan
  <2>2. /\ Kernel("mean") # Kernel("deviation") /\ Kernel("mean") # Kernel("mtxA")
        /\ Kernel("mean") # Kernel("norm") /\ Kernel("deviation") # Kernel("norm")
        /\ Kernel("mtxA") # Kernel("norm")
        /\ \A k : Kernel(k) # Channel(2)
    BY <1>2, ActorsDiffer
  <2>3. /\ Kernel("mean") \in {Kernel(k) : k \in NormKernels}
        /\ Kernel("deviation") \in {Kernel(k) : k \in NormKernels}
        /\ Kernel("mtxA") \in {Kernel(k) : k \in NormKernels}
        /\ Kernel("norm") \in {Kernel(k) : k \in NormKernels}
    BY DEF NormKernels
  <2> QED BY <2>1, <2>2, <2>3
<1>8. s.put = [e \in NormQueues |->
             [m \in Nat |->
                IF e \in {In(1), Out(2)} THEN m
                ELSE IF e \in Readers THEN Frames(m) * Repeat ELSE Frames(m)]]
  BY DEF NormPlan
<1>9. s.taken = [e \in NormQueues |->
               [m \in Nat |-> IF e \in {Net(1), Net(2)} THEN Frames(m + Repeat - 1) ELSE m]]
  BY DEF NormPlan
<1>10. s.index = [e \in NormQueues |->
                [n \in Nat |-> IF e \in {Net(1), Net(2)} \/ n = 0 THEN n ELSE Frames(n - 1) + 1]]
  BY DEF NormPlan
<1>11. s.keeps = [k \in NormKernels |->
               [m \in Nat |-> IF m % Repeat # 0 THEN Frames(m) + 1
                              ELSE IF k = "norm" THEN -1 ELSE 0]]
  BY DEF NormPlan
<1>12. ASSUME NEW m \in Nat
       PROVE  /\ s.put[In(1)][m] = m /\ s.put[Out(2)][m] = m
              /\ \A e \in Readers : s.put[e][m] = Frames(m) * Repeat
              /\ s.put[Net(1)][m] = Frames(m) /\ s.put[Net(2)][m] = Frames(m)
  BY <1>8, NormQueuesDiffer
<1>13. ASSUME NEW m \in Nat
       PROVE  /\ s.taken[In(1)][m] = m /\ s.taken[Out(2)][m] = m
              /\ \A e \in Readers : s.taken[e][m] = m
              /\ s.taken[Net(1)][m] = Frames(m + Repeat - 1)
              /\ s.taken[Net(2)][m] = Frames(m + Repeat - 1)
  BY <1>9, NormQueuesDiffer
<1>14. ASSUME NEW m \in Nat
       PROVE  s.index[Net(1)][m] = m /\ s.index[Net(2)][m] = m
  BY <1>10, NormQueuesDiffer
<1>15. ASSUME NEW m \in Nat \ {0}, NEW e \in Readers \cup {In(1), Out(2)}
       PROVE  s.index[e][m] = Frames(m - 1) + 1
  <2>1. e \in NormQueues /\ e # Net(1) /\ e # Net(2) /\ m # 0 /\ m \in Nat
    BY NormQueuesDiffer
  <2> QED BY <1>10, <2>1
<1>16. ASSUME NEW m \in Nat
       PROVE  /\ \A k \in {"mtxA", "mean", "deviation"} :
                   s.keeps[k][m] = IF m % Repeat # 0 THEN Frames(m) + 1 ELSE 0
              /\ s.keeps["norm"][m] = IF m % Repeat # 0 THEN Frames(m) + 1 ELSE -1
  BY <1>11 DEF NormKernels
<1> QED BY <1>1, <1>5, <1>6, <1>7, <1>12, <1>13, <1>14, <1>15, <1>16 DEF IsNormPlan

(* Move i of a frame, when q frames are done.                              *)
AreNormNumbers(m, i, q) ==
  /\ i \in 1 .. 6 /\ q \in Nat /\ 6 * q + i = m + 1 /\ Repeat = 6
  /\ Frames(m) = q /\ Frames(m + 1) = IF i = 6 THEN q + 1 ELSE q
  /\ (m % Repeat # 0) = (i # 1)
  /\ ((m + 1) % Repeat # 0) = (i # 6)
  /\ Frames(m + Repeat - 1) = IF i = 1 THEN q ELSE q + 1
  /\ Frames((m + 1) + Repeat - 1) = q + 1

(* The numbers of that plan.                                               *)
LEMMA NormNumbers ==
  ASSUME NEW m \in Nat, NEW i, i = (m % Repeat) + 1, NEW q, q = Frames(m)
  PROVE  AreNormNumbers(m, i, q)
<1>1. PICK r : r = m % Repeat
  OBVIOUS
<1>2. /\ r \in 0 .. 5 /\ q \in Nat /\ 6 * q + r = m
      /\ Frames(m + 1) = IF r = 5 THEN q + 1 ELSE q
      /\ (m + 1) % Repeat = IF r = 5 THEN 0 ELSE r + 1
  BY <1>1, NextFrame
<1>3. /\ Frames(m + Repeat - 1) = IF r = 0 THEN q ELSE q + 1
      /\ Frames((m + 1) + Repeat - 1) = q + 1
  BY <1>1, StatisticsTaken
<1>4. i = r + 1
  BY <1>1
<1> QED BY <1>1, <1>2, <1>3, <1>4, SixTiles DEF AreNormNumbers

(* The queues of the graph, and the kernels of the plan.                   *)
LEMMA NormGraph ==
  /\ DOMAIN NormalizationGraph.capacity = NormQueues
  /\ DOMAIN NormalizationGraph.kernels = NormKernels
  /\ NormalizationGraph.inputs = (1 :> {In(1)}) /\ NormalizationGraph.outputs = (2 :> Out(2))
<1>1. DOMAIN NormalizationGraph.capacity = NormQueues
  BY DEF NormalizationGraph, NormQueues, @@, :>
<1>2. DOMAIN NormalizationGraph.kernels = NormKernels
  BY DEF NormalizationGraph, NormKernels
<1>3. NormalizationGraph.inputs = (1 :> {In(1)}) /\ NormalizationGraph.outputs = (2 :> Out(2))
  BY DEF NormalizationGraph
<1> QED BY <1>1, <1>2, <1>3

(* The kernels of the normalization graph.                                 *)
LEMMA NormKernelsDiffer ==
  /\ Kernel("mtxA") # Kernel("mean") /\ Kernel("mtxA") # Kernel("deviation")
  /\ Kernel("mtxA") # Kernel("norm") /\ Kernel("mean") # Kernel("deviation")
  /\ Kernel("mean") # Kernel("norm") /\ Kernel("deviation") # Kernel("norm")
  /\ \A k, i : Kernel(k) # Channel(i)
<1>1. /\ "mtxA" # "mean" /\ "mtxA" # "deviation" /\ "mtxA" # "norm"
      /\ "mean" # "deviation" /\ "mean" # "norm" /\ "deviation" # "norm"
  OBVIOUS
<1> QED BY <1>1, ActorsDiffer

(* The shared buffer follows the plan.                                     *)
LEMMA MtxKernelPlanned ==
  ASSUME NEW s, NEW items, IsNormPlan(s, items), NEW m \in Nat
  PROVE  /\ PlanTakes(NormalizationGraph, s, "mtxA", m)
         /\ PlanPuts(NormalizationGraph, s, "mtxA", m)
         /\ PlanKeeps(NormalizationGraph, s, "mtxA", m)
<1> DEFINE g == NormalizationGraph
<1>1. PICK i : i = (m % Repeat) + 1
  OBVIOUS
<1>2. PICK q : q = Frames(m)
  OBVIOUS
<1>3. PICK move : move = MoveAt(g, "mtxA", m)
  OBVIOUS
<1>4. /\ i \in 1 .. 6 /\ q \in Nat /\ 6 * q + i = m + 1 /\ Repeat = 6
      /\ Frames(m + 1) = IF i = 6 THEN q + 1 ELSE q
      /\ (m % Repeat # 0) = (i # 1)
      /\ ((m + 1) % Repeat # 0) = (i # 6)
  <2>1. AreNormNumbers(m, i, q)
    BY <1>1, <1>2, NormNumbers
  <2> QED BY <2>1 DEF AreNormNumbers
<1>5. DOMAIN g.capacity = NormQueues
  BY NormGraph
<1>6. move = SharedBuffer[i]
  BY <1>1, <1>3, NormMoves
<1> HIDE DEF g
<1>7. \A e \in NormQueues :
        /\ Amount(move.need, e) = IF e = In(1) THEN 1 ELSE 0
        /\ Amount(move.get, e) = IF e = In(1) THEN 1 ELSE 0
        /\ Output(move, e) = IF e \in Readers /\ i = 6
                               THEN [j \in 1 .. 6 |-> {Kept, First(In(1))}] ELSE << >>
        /\ move.keep = IF i = 6 THEN {} ELSE {Kept, First(In(1))}
  BY <1>4, <1>6, MtxMove
<1>8. m + 1 \in Nat /\ m + 1 \in Nat \ {0} /\ (m + 1) - 1 = m
  OBVIOUS
<1>9. In(1) \in NormQueues /\ Readers \subseteq NormQueues
  BY NormQueuesDiffer
<1>10. /\ s.reader[In(1)] = Kernel("mtxA") /\ s.taken[In(1)][m] = m /\ s.taken[In(1)][m + 1] = m + 1
       /\ s.index[In(1)][m + 1] = q + 1
       /\ \A e \in NormQueues : e # In(1) => s.reader[e] # Kernel("mtxA")
  <2>1. /\ s.reader[In(1)] = Kernel("mtxA") /\ s.taken[In(1)][m] = m
        /\ s.taken[In(1)][m + 1] = m + 1 /\ s.index[In(1)][m + 1] = Frames((m + 1) - 1) + 1
    BY <1>8 DEF IsNormPlan
  <2>2. \A e \in NormQueues : e # In(1) => s.reader[e] # Kernel("mtxA")
    BY NormQueuesDiffer, NormKernelsDiffer DEF IsNormPlan
  <2> QED BY <1>2, <1>8, <2>1, <2>2
<1>11. /\ s.keeps["mtxA"][m] = IF i # 1 THEN q + 1 ELSE 0
       /\ s.keeps["mtxA"][m + 1] = IF i # 6 THEN q + 1 ELSE 0
  <2>1. /\ s.keeps["mtxA"][m] = IF m % Repeat # 0 THEN Frames(m) + 1 ELSE 0
        /\ s.keeps["mtxA"][m + 1] = IF (m + 1) % Repeat # 0 THEN Frames(m + 1) + 1 ELSE 0
    BY <1>8 DEF IsNormPlan
  <2> QED BY <1>2, <1>4, <2>1
<1>12. FromPlace(g, s, "mtxA", m, {Kept, First(In(1))}, q + 1)
  <2> SUFFICES ASSUME NEW x \in {Kept, First(In(1))}
               PROVE  \/ x = Kept /\ s.keeps["mtxA"][m] \in {0, q + 1}
                      \/ \E e \in DOMAIN g.capacity :
                           /\ x = First(e) /\ s.reader[e] = Kernel("mtxA")
                           /\ Amount(MoveAt(g, "mtxA", m).need, e) = 1
                           /\ s.index[e][s.taken[e][m] + 1] = q + 1
    BY FromFronts
  <2>1. CASE x = Kept
    BY <1>11, <2>1
  <2>2. CASE x = First(In(1))
    <3>1. /\ Amount(MoveAt(g, "mtxA", m).need, In(1)) = 1
          /\ s.index[In(1)][s.taken[In(1)][m] + 1] = q + 1
      BY <1>3, <1>7, <1>9, <1>10
    <3> QED BY <1>5, <1>9, <1>10, <2>2, <3>1
  <2> QED BY <2>1, <2>2
<1>13. PlanTakes(g, s, "mtxA", m)
  <2> SUFFICES ASSUME NEW e \in NormQueues
               PROVE  /\ Amount(move.need, e) \in Nat
                      /\ Amount(move.get, e) \in 0 .. Amount(move.need, e)
                      /\ IF s.reader[e] = Kernel("mtxA")
                           THEN s.taken[e][m + 1] = s.taken[e][m] + Amount(move.get, e)
                           ELSE Amount(move.get, e) = 0
    BY <1>3, <1>5 DEF PlanTakes
  <2> QED BY <1>7, <1>10
<1>14. PlanKeeps(g, s, "mtxA", m)
  <2>1. CASE i = 6
    <3>1. move.keep = {} /\ s.keeps["mtxA"][m + 1] = 0
      BY <1>7, <1>9, <1>11, <2>1
    <3> QED BY <1>3, <3>1 DEF PlanKeeps
  <2>2. CASE i # 6
    <3>1. move.keep = {Kept, First(In(1))} /\ s.keeps["mtxA"][m + 1] = q + 1 /\ q + 1 > 0
      BY <1>4, <1>7, <1>9, <1>11, <2>2
    <3> QED BY <1>3, <1>12, <3>1 DEF PlanKeeps
  <2> QED BY <2>1, <2>2
<1>15. First(In(1)) # Kept
  BY DEF First, Kept
<1>16. PlanPuts(g, s, "mtxA", m)
  <2> SUFFICES ASSUME NEW e \in NormQueues
               PROVE  IF s.writer[e] = Kernel("mtxA")
                        THEN /\ s.put[e][m] <= s.put[e][m + 1]
                             /\ DOMAIN Output(move, e) = 1 .. s.put[e][m + 1] - s.put[e][m]
                             /\ \A j \in DOMAIN Output(move, e) :
                                  /\ FromPlace(g, s, "mtxA", m, Output(move, e)[j],
                                               s.index[e][s.put[e][m] + j])
                                  /\ \E x \in Output(move, e)[j] : x # Kept
                        ELSE DOMAIN Output(move, e) = {}
    BY <1>3, <1>5 DEF PlanPuts
  <2>1. CASE e \in Readers
    <3>1. /\ s.writer[e] = Kernel("mtxA") /\ s.put[e][m] = 6 * q
          /\ s.put[e][m + 1] = IF i = 6 THEN 6 * q + 6 ELSE 6 * q
      <4>1. /\ s.writer[e] = Kernel("mtxA") /\ s.put[e][m] = Frames(m) * Repeat
            /\ s.put[e][m + 1] = Frames(m + 1) * Repeat
        BY <1>8, <2>1 DEF IsNormPlan
      <4> QED BY <1>2, <1>4, <4>1
    <3>2. CASE i = 6
      <4>1. /\ DOMAIN Output(move, e) = 1 .. 6
            /\ \A j \in 1 .. 6 : Output(move, e)[j] = {Kept, First(In(1))}
        BY <1>7, <2>1, <3>2
      <4>2. s.put[e][m] <= s.put[e][m + 1] /\ s.put[e][m + 1] - s.put[e][m] = 6
        BY <1>4, <3>1, <3>2
      <4>3. \A j \in 1 .. 6 : s.index[e][s.put[e][m] + j] = q + 1
        <5> TAKE j \in 1 .. 6
        <5>1. PICK n : n = 6 * q + j
          OBVIOUS
        <5>2. n \in Nat \ {0} /\ n - 1 = 6 * q + (j - 1) /\ j - 1 \in 0 .. 5
          BY <1>4, <5>1
        <5>3. PICK y : y = n - 1
          OBVIOUS
        <5>4. Frames(y) = q
          <6>1. PICK r : r = j - 1
            OBVIOUS
          <6>2. r \in 0 .. 5 /\ y = 6 * q + r
            BY <5>2, <5>3, <6>1
          <6>3. q \in Nat
            BY <1>4
          <6> QED BY <6>2, <6>3, FrameOf
        <5>5. s.index[e][n] = Frames(n - 1) + 1
          BY <2>1, <5>2 DEF IsNormPlan
        <5> QED BY <3>1, <5>1, <5>3, <5>4, <5>5
      <4> QED BY <1>12, <1>15, <3>1, <4>1, <4>2, <4>3
    <3>3. CASE i # 6
      <4>1. Output(move, e) = << >> /\ s.put[e][m] \in Nat /\ s.put[e][m + 1] = s.put[e][m]
        BY <1>4, <1>7, <3>1, <3>3
      <4>2. DOMAIN Output(move, e) = {} /\ 1 .. s.put[e][m + 1] - s.put[e][m] = {}
            /\ s.put[e][m] <= s.put[e][m + 1]
        BY <4>1
      <4> QED BY <3>1, <4>2
    <3> QED BY <3>2, <3>3
  <2>2. CASE e \notin Readers
    <3>1. s.writer[e] # Kernel("mtxA")
      BY <2>2, NormQueuesDiffer, NormKernelsDiffer DEF IsNormPlan
    <3>2. Output(move, e) = << >>
      BY <1>7, <2>2
    <3> QED BY <3>1, <3>2
  <2> QED BY <2>1, <2>2
<1> QED BY <1>13, <1>14, <1>16 DEF g

(* mean follows the plan.                                                  *)
LEMMA MeanKernelPlanned ==
  ASSUME NEW s, NEW items, IsNormPlan(s, items), NEW m \in Nat
  PROVE  /\ PlanTakes(NormalizationGraph, s, "mean", m)
         /\ PlanPuts(NormalizationGraph, s, "mean", m)
         /\ PlanKeeps(NormalizationGraph, s, "mean", m)
<1> DEFINE g == NormalizationGraph
<1>1. PICK i : i = (m % Repeat) + 1
  OBVIOUS
<1>2. PICK q : q = Frames(m)
  OBVIOUS
<1>3. PICK move : move = MoveAt(g, "mean", m)
  OBVIOUS
<1>4. /\ i \in 1 .. 6 /\ q \in Nat /\ 6 * q + i = m + 1
      /\ Frames(m) = q /\ Frames(m + 1) = IF i = 6 THEN q + 1 ELSE q
      /\ (m % Repeat # 0) = (i # 1)
      /\ ((m + 1) % Repeat # 0) = (i # 6)
      /\ Frames(m + Repeat - 1) = IF i = 1 THEN q ELSE q + 1
      /\ Frames((m + 1) + Repeat - 1) = q + 1
  <2>1. AreNormNumbers(m, i, q)
    BY <1>1, <1>2, NormNumbers
  <2> QED BY <2>1 DEF AreNormNumbers
<1>5. DOMAIN g.capacity = NormQueues
  BY NormGraph
<1>6. move = Mean[i]
  BY <1>1, <1>3, NormMoves
<1> HIDE DEF g
<1>7. \A e \in NormQueues :
        /\ Amount(move.need, e) = IF e = Reader.mean THEN 1 ELSE 0
        /\ Amount(move.get, e) = IF e = Reader.mean THEN 1 ELSE 0
        /\ Output(move, e) = IF e = Net(1) /\ i = 6 THEN <<{Kept, First(Reader.mean)}>> ELSE << >>
        /\ move.keep = IF i = 6 THEN {} ELSE {Kept, First(Reader.mean)}
  BY <1>4, <1>6, MeanMove
<1>8. m + 1 \in Nat /\ m + 1 \in Nat \ {0} /\ (m + 1) - 1 = m
  OBVIOUS
<1>9. /\ Reader.mean \in NormQueues /\ Net(1) \in NormQueues /\ Net(2) \in NormQueues
      /\ Reader.mean \in Readers /\ Reader.mean # Net(1) /\ Reader.mean # Net(2)
  BY NormQueuesDiffer
<1>10. /\ s.reader[Reader.mean] = Kernel("mean") /\ s.taken[Reader.mean][m] = m
       /\ s.taken[Reader.mean][m + 1] = m + 1 /\ s.index[Reader.mean][m + 1] = q + 1
       /\ \A e \in NormQueues : e # Reader.mean => s.reader[e] # Kernel("mean")
  <2>1. /\ s.reader[Reader.mean] = Kernel("mean") /\ s.taken[Reader.mean][m] = m
        /\ s.taken[Reader.mean][m + 1] = m + 1 /\ s.index[Reader.mean][m + 1] = Frames((m + 1) - 1) + 1
    BY <1>8, <1>9 DEF IsNormPlan
  <2>2. \A e \in NormQueues : e # Reader.mean => s.reader[e] # Kernel("mean")
    BY NormQueuesDiffer, NormKernelsDiffer DEF IsNormPlan
  <2> QED BY <1>2, <1>8, <2>1, <2>2
<1>12. /\ s.keeps["mean"][m] = IF i # 1 THEN q + 1 ELSE 0
       /\ s.keeps["mean"][m + 1] = IF i # 6 THEN q + 1 ELSE 0
  <2>1. /\ s.keeps["mean"][m] = IF m % Repeat # 0 THEN Frames(m) + 1 ELSE 0
        /\ s.keeps["mean"][m + 1] = IF (m + 1) % Repeat # 0 THEN Frames(m + 1) + 1 ELSE 0
    BY <1>8 DEF IsNormPlan
  <2> QED BY <1>2, <1>4, <2>1
<1>13. PlanTakes(g, s, "mean", m)
  <2> SUFFICES ASSUME NEW e \in NormQueues
               PROVE  /\ Amount(move.need, e) \in Nat
                      /\ Amount(move.get, e) \in 0 .. Amount(move.need, e)
                      /\ IF s.reader[e] = Kernel("mean")
                           THEN s.taken[e][m + 1] = s.taken[e][m] + Amount(move.get, e)
                           ELSE Amount(move.get, e) = 0
    BY <1>3, <1>5 DEF PlanTakes
  <2> QED BY <1>7, <1>10
<1>14. FromPlace(g, s, "mean", m, {Kept, First(Reader.mean)}, q + 1)
  <2> SUFFICES ASSUME NEW x \in {Kept, First(Reader.mean)}
               PROVE  \/ x = Kept /\ s.keeps["mean"][m] \in {0, q + 1}
                      \/ \E e \in DOMAIN g.capacity :
                           /\ x = First(e) /\ s.reader[e] = Kernel("mean")
                           /\ Amount(MoveAt(g, "mean", m).need, e) = 1
                           /\ s.index[e][s.taken[e][m] + 1] = q + 1
    BY FromFronts
  <2>1. CASE x = Kept
    BY <1>12, <2>1
  <2>2. CASE x = First(Reader.mean)
    <3>1. /\ Amount(MoveAt(g, "mean", m).need, Reader.mean) = 1
          /\ s.index[Reader.mean][s.taken[Reader.mean][m] + 1] = q + 1
      BY <1>3, <1>7, <1>9, <1>10
    <3> QED BY <1>5, <1>9, <1>10, <2>2, <3>1
  <2> QED BY <2>1, <2>2
<1>15. PlanKeeps(g, s, "mean", m)
  <2>1. CASE i = 6
    <3>1. move.keep = {} /\ s.keeps["mean"][m + 1] = 0
      BY <1>7, <1>9, <1>12, <2>1
    <3> QED BY <1>3, <3>1 DEF PlanKeeps
  <2>2. CASE i # 6
    <3>1. /\ move.keep = {Kept, First(Reader.mean)} /\ s.keeps["mean"][m + 1] = q + 1
          /\ q + 1 > 0
      BY <1>4, <1>7, <1>9, <1>12, <2>2
    <3> QED BY <1>3, <1>14, <3>1 DEF PlanKeeps
  <2> QED BY <2>1, <2>2
<1>16. \E x \in {Kept, First(Reader.mean)} : x # Kept
  <2>1. First(Reader.mean) # Kept
    BY DEF First, Kept
  <2> QED BY <2>1
<1>17. PlanPuts(g, s, "mean", m)
  <2> SUFFICES ASSUME NEW e \in NormQueues
               PROVE  IF s.writer[e] = Kernel("mean")
                        THEN /\ s.put[e][m] <= s.put[e][m + 1]
                             /\ DOMAIN Output(move, e) = 1 .. s.put[e][m + 1] - s.put[e][m]
                             /\ \A j \in DOMAIN Output(move, e) :
                                  /\ FromPlace(g, s, "mean", m, Output(move, e)[j],
                                               s.index[e][s.put[e][m] + j])
                                  /\ \E x \in Output(move, e)[j] : x # Kept
                        ELSE DOMAIN Output(move, e) = {}
    BY <1>3, <1>5 DEF PlanPuts
  <2>1. CASE e = Net(1)
    <3>1. /\ s.writer[e] = Kernel("mean") /\ s.put[e][m] = q
          /\ s.put[e][m + 1] = IF i = 6 THEN q + 1 ELSE q
      <4>1. /\ s.writer[e] = Kernel("mean") /\ s.put[e][m] = Frames(m)
            /\ s.put[e][m + 1] = Frames(m + 1)
        BY <1>8, <2>1 DEF IsNormPlan
      <4> QED BY <1>4, <4>1
    <3>2. CASE i = 6
      <4>1. Output(move, e) = <<{Kept, First(Reader.mean)}>>
        BY <1>7, <2>1, <3>2
      <4>2. DOMAIN Output(move, e) = {1} /\ Output(move, e)[1] = {Kept, First(Reader.mean)}
        BY <4>1
      <4>3. /\ s.put[e][m] <= s.put[e][m + 1]
            /\ 1 .. s.put[e][m + 1] - s.put[e][m] = {1}
        BY <1>4, <3>1, <3>2
      <4>4. s.index[e][s.put[e][m] + 1] = q + 1
        <5>1. q + 1 \in Nat
          BY <1>4
        <5> QED BY <2>1, <3>1, <5>1 DEF IsNormPlan
      <4> QED BY <1>14, <1>16, <3>1, <4>2, <4>3, <4>4
    <3>3. CASE i # 6
      <4>1. Output(move, e) = << >> /\ s.put[e][m] \in Nat /\ s.put[e][m + 1] = s.put[e][m]
        BY <1>4, <1>7, <3>1, <3>3
      <4>2. DOMAIN Output(move, e) = {} /\ 1 .. s.put[e][m + 1] - s.put[e][m] = {}
            /\ s.put[e][m] <= s.put[e][m + 1]
        BY <4>1
      <4> QED BY <3>1, <4>2
    <3> QED BY <3>2, <3>3
  <2>2. CASE e # Net(1)
    <3>1. s.writer[e] # Kernel("mean")
      BY <2>2, NormQueuesDiffer, NormKernelsDiffer DEF IsNormPlan
    <3>2. Output(move, e) = << >>
      BY <1>7, <2>2
    <3> QED BY <3>1, <3>2
  <2> QED BY <2>1, <2>2
<1> QED BY <1>13, <1>15, <1>17 DEF g

(* deviation follows the plan.                                             *)
LEMMA DeviationKernelPlanned ==
  ASSUME NEW s, NEW items, IsNormPlan(s, items), NEW m \in Nat
  PROVE  /\ PlanTakes(NormalizationGraph, s, "deviation", m)
         /\ PlanPuts(NormalizationGraph, s, "deviation", m)
         /\ PlanKeeps(NormalizationGraph, s, "deviation", m)
<1> DEFINE g == NormalizationGraph
<1>1. PICK i : i = (m % Repeat) + 1
  OBVIOUS
<1>2. PICK q : q = Frames(m)
  OBVIOUS
<1>3. PICK move : move = MoveAt(g, "deviation", m)
  OBVIOUS
<1>4. /\ i \in 1 .. 6 /\ q \in Nat /\ 6 * q + i = m + 1
      /\ Frames(m) = q /\ Frames(m + 1) = IF i = 6 THEN q + 1 ELSE q
      /\ (m % Repeat # 0) = (i # 1)
      /\ ((m + 1) % Repeat # 0) = (i # 6)
      /\ Frames(m + Repeat - 1) = IF i = 1 THEN q ELSE q + 1
      /\ Frames((m + 1) + Repeat - 1) = q + 1
  <2>1. AreNormNumbers(m, i, q)
    BY <1>1, <1>2, NormNumbers
  <2> QED BY <2>1 DEF AreNormNumbers
<1>5. DOMAIN g.capacity = NormQueues
  BY NormGraph
<1>6. move = Deviation[i]
  BY <1>1, <1>3, NormMoves
<1> HIDE DEF g
<1>7. \A e \in NormQueues :
        /\ Amount(move.need, e) = IF e = Reader.deviation \/ (e = Net(1) /\ i = 1) THEN 1 ELSE 0
        /\ Amount(move.get, e) = IF e = Reader.deviation \/ (e = Net(1) /\ i = 1) THEN 1 ELSE 0
        /\ Output(move, e) = IF e = Net(2) /\ i = 6 THEN <<DeviationOwn(i)>> ELSE << >>
        /\ move.keep = IF i = 6 THEN {} ELSE DeviationOwn(i)
  BY <1>4, <1>6, DeviationMove
<1>8. m + 1 \in Nat /\ m + 1 \in Nat \ {0} /\ (m + 1) - 1 = m
  OBVIOUS
<1>9. /\ Reader.deviation \in NormQueues /\ Net(1) \in NormQueues /\ Net(2) \in NormQueues
      /\ Reader.deviation \in Readers /\ Reader.deviation # Net(1) /\ Reader.deviation # Net(2)
  BY NormQueuesDiffer
<1>10. /\ s.reader[Reader.deviation] = Kernel("deviation") /\ s.taken[Reader.deviation][m] = m
       /\ s.taken[Reader.deviation][m + 1] = m + 1 /\ s.index[Reader.deviation][m + 1] = q + 1
       /\ \A e \in NormQueues : e # Reader.deviation /\ e # Net(1) => s.reader[e] # Kernel("deviation")
  <2>1. /\ s.reader[Reader.deviation] = Kernel("deviation") /\ s.taken[Reader.deviation][m] = m
        /\ s.taken[Reader.deviation][m + 1] = m + 1 /\ s.index[Reader.deviation][m + 1] = Frames((m + 1) - 1) + 1
    BY <1>8, <1>9 DEF IsNormPlan
  <2>2. \A e \in NormQueues : e # Reader.deviation /\ e # Net(1) => s.reader[e] # Kernel("deviation")
    BY NormQueuesDiffer, NormKernelsDiffer DEF IsNormPlan
  <2> QED BY <1>2, <1>8, <2>1, <2>2
<1>11. /\ s.reader[Net(1)] = Kernel("deviation") /\ s.taken[Net(1)][m] = IF i = 1 THEN q ELSE q + 1
       /\ s.taken[Net(1)][m + 1] = q + 1 /\ s.index[Net(1)][q + 1] = q + 1
  <2>1. /\ s.reader[Net(1)] = Kernel("deviation") /\ s.taken[Net(1)][m] = Frames(m + Repeat - 1)
        /\ s.taken[Net(1)][m + 1] = Frames((m + 1) + Repeat - 1)
    BY <1>8 DEF IsNormPlan
  <2>2. q + 1 \in Nat
    BY <1>4
  <2>3. s.index[Net(1)][q + 1] = q + 1
    BY <2>2 DEF IsNormPlan
  <2> QED BY <1>4, <2>1, <2>3
<1>12. /\ s.keeps["deviation"][m] = IF i # 1 THEN q + 1 ELSE 0
       /\ s.keeps["deviation"][m + 1] = IF i # 6 THEN q + 1 ELSE 0
  <2>1. /\ s.keeps["deviation"][m] = IF m % Repeat # 0 THEN Frames(m) + 1 ELSE 0
        /\ s.keeps["deviation"][m + 1] = IF (m + 1) % Repeat # 0 THEN Frames(m + 1) + 1 ELSE 0
    BY <1>8 DEF IsNormPlan
  <2> QED BY <1>2, <1>4, <2>1
<1>13. PlanTakes(g, s, "deviation", m)
  <2> SUFFICES ASSUME NEW e \in NormQueues
               PROVE  /\ Amount(move.need, e) \in Nat
                      /\ Amount(move.get, e) \in 0 .. Amount(move.need, e)
                      /\ IF s.reader[e] = Kernel("deviation")
                           THEN s.taken[e][m + 1] = s.taken[e][m] + Amount(move.get, e)
                           ELSE Amount(move.get, e) = 0
    BY <1>3, <1>5 DEF PlanTakes
  <2>1. CASE e = Reader.deviation
    BY <1>7, <1>10, <2>1
  <2>2. CASE e = Net(1)
    <3>1. Amount(move.need, e) = (IF i = 1 THEN 1 ELSE 0) /\ Amount(move.get, e) = Amount(move.need, e)
      BY <1>7, <1>9, <2>2
    <3> QED BY <1>4, <1>11, <2>2, <3>1
  <2>3. CASE e # Reader.deviation /\ e # Net(1)
    BY <1>7, <1>10, <2>3
  <2> QED BY <2>1, <2>2, <2>3
<1>14. FromPlace(g, s, "deviation", m, DeviationOwn(i), q + 1)
  <2> SUFFICES ASSUME NEW x \in DeviationOwn(i)
               PROVE  \/ x = Kept /\ s.keeps["deviation"][m] \in {0, q + 1}
                      \/ \E e \in DOMAIN g.capacity :
                           /\ x = First(e) /\ s.reader[e] = Kernel("deviation")
                           /\ Amount(MoveAt(g, "deviation", m).need, e) = 1
                           /\ s.index[e][s.taken[e][m] + 1] = q + 1
    BY FromFronts
  <2>1. CASE x = Kept
    BY <1>12, <2>1
  <2>2. CASE x = First(Reader.deviation)
    <3>1. /\ Amount(MoveAt(g, "deviation", m).need, Reader.deviation) = 1
          /\ s.index[Reader.deviation][s.taken[Reader.deviation][m] + 1] = q + 1
      BY <1>3, <1>7, <1>9, <1>10
    <3> QED BY <1>5, <1>9, <1>10, <2>2, <3>1
  <2>3. CASE x = First(Net(1)) /\ i = 1
    <3>1. /\ Amount(MoveAt(g, "deviation", m).need, Net(1)) = 1
          /\ s.index[Net(1)][s.taken[Net(1)][m] + 1] = q + 1
      BY <1>3, <1>7, <1>9, <1>11, <2>3
    <3> QED BY <1>5, <1>9, <1>11, <2>3, <3>1
  <2> QED BY <2>1, <2>2, <2>3 DEF DeviationOwn
<1>15. PlanKeeps(g, s, "deviation", m)
  <2>1. CASE i = 6
    <3>1. move.keep = {} /\ s.keeps["deviation"][m + 1] = 0
      BY <1>7, <1>9, <1>12, <2>1
    <3> QED BY <1>3, <3>1 DEF PlanKeeps
  <2>2. CASE i # 6
    <3>1. /\ move.keep = DeviationOwn(i) /\ s.keeps["deviation"][m + 1] = q + 1
          /\ q + 1 > 0
      BY <1>4, <1>7, <1>9, <1>12, <2>2
    <3> QED BY <1>3, <1>14, <3>1 DEF PlanKeeps
  <2> QED BY <2>1, <2>2
<1>16. \E x \in DeviationOwn(i) : x # Kept
  <2>1. First(Reader.deviation) # Kept
    BY DEF First, Kept
  <2> QED BY <2>1 DEF DeviationOwn
<1>17. PlanPuts(g, s, "deviation", m)
  <2> SUFFICES ASSUME NEW e \in NormQueues
               PROVE  IF s.writer[e] = Kernel("deviation")
                        THEN /\ s.put[e][m] <= s.put[e][m + 1]
                             /\ DOMAIN Output(move, e) = 1 .. s.put[e][m + 1] - s.put[e][m]
                             /\ \A j \in DOMAIN Output(move, e) :
                                  /\ FromPlace(g, s, "deviation", m, Output(move, e)[j],
                                               s.index[e][s.put[e][m] + j])
                                  /\ \E x \in Output(move, e)[j] : x # Kept
                        ELSE DOMAIN Output(move, e) = {}
    BY <1>3, <1>5 DEF PlanPuts
  <2>1. CASE e = Net(2)
    <3>1. /\ s.writer[e] = Kernel("deviation") /\ s.put[e][m] = q
          /\ s.put[e][m + 1] = IF i = 6 THEN q + 1 ELSE q
      <4>1. /\ s.writer[e] = Kernel("deviation") /\ s.put[e][m] = Frames(m)
            /\ s.put[e][m + 1] = Frames(m + 1)
        BY <1>8, <2>1 DEF IsNormPlan
      <4> QED BY <1>4, <4>1
    <3>2. CASE i = 6
      <4>1. Output(move, e) = <<DeviationOwn(i)>>
        BY <1>7, <2>1, <3>2
      <4>2. DOMAIN Output(move, e) = {1} /\ Output(move, e)[1] = DeviationOwn(i)
        BY <4>1
      <4>3. /\ s.put[e][m] <= s.put[e][m + 1]
            /\ 1 .. s.put[e][m + 1] - s.put[e][m] = {1}
        BY <1>4, <3>1, <3>2
      <4>4. s.index[e][s.put[e][m] + 1] = q + 1
        <5>1. q + 1 \in Nat
          BY <1>4
        <5> QED BY <2>1, <3>1, <5>1 DEF IsNormPlan
      <4> QED BY <1>14, <1>16, <3>1, <4>2, <4>3, <4>4
    <3>3. CASE i # 6
      <4>1. Output(move, e) = << >> /\ s.put[e][m] \in Nat /\ s.put[e][m + 1] = s.put[e][m]
        BY <1>4, <1>7, <3>1, <3>3
      <4>2. DOMAIN Output(move, e) = {} /\ 1 .. s.put[e][m + 1] - s.put[e][m] = {}
            /\ s.put[e][m] <= s.put[e][m + 1]
        BY <4>1
      <4> QED BY <3>1, <4>2
    <3> QED BY <3>2, <3>3
  <2>2. CASE e # Net(2)
    <3>1. s.writer[e] # Kernel("deviation")
      BY <2>2, NormQueuesDiffer, NormKernelsDiffer DEF IsNormPlan
    <3>2. Output(move, e) = << >>
      BY <1>7, <2>2
    <3> QED BY <3>1, <3>2
  <2> QED BY <2>1, <2>2
<1> QED BY <1>13, <1>15, <1>17 DEF g

(* norm follows the plan.                                                  *)
LEMMA NormKernelPlanned ==
  ASSUME NEW s, NEW items, IsNormPlan(s, items), NEW m \in Nat
  PROVE  /\ PlanTakes(NormalizationGraph, s, "norm", m)
         /\ PlanPuts(NormalizationGraph, s, "norm", m)
         /\ PlanKeeps(NormalizationGraph, s, "norm", m)
<1> DEFINE g == NormalizationGraph
<1>1. PICK i : i = (m % Repeat) + 1
  OBVIOUS
<1>2. PICK q : q = Frames(m)
  OBVIOUS
<1>3. PICK move : move = MoveAt(g, "norm", m)
  OBVIOUS
<1>4. /\ i \in 1 .. 6 /\ q \in Nat /\ 6 * q + i = m + 1
      /\ Frames(m) = q /\ Frames(m + 1) = IF i = 6 THEN q + 1 ELSE q
      /\ (m % Repeat # 0) = (i # 1)
      /\ ((m + 1) % Repeat # 0) = (i # 6)
      /\ Frames(m + Repeat - 1) = IF i = 1 THEN q ELSE q + 1
      /\ Frames((m + 1) + Repeat - 1) = q + 1
  <2>1. AreNormNumbers(m, i, q)
    BY <1>1, <1>2, NormNumbers
  <2> QED BY <2>1 DEF AreNormNumbers
<1>5. DOMAIN g.capacity = NormQueues
  BY NormGraph
<1>6. move = Norm[i]
  BY <1>1, <1>3, NormMoves
<1> HIDE DEF g
<1>7. \A e \in NormQueues :
        /\ Amount(move.need, e) = IF e = Reader.norm \/ (e = Net(2) /\ i = 1) THEN 1 ELSE 0
        /\ Amount(move.get, e) = IF e = Reader.norm \/ (e = Net(2) /\ i = 1) THEN 1 ELSE 0
        /\ Output(move, e) = IF e = Out(2) THEN <<{First(Reader.norm), Statistics(i)}>> ELSE << >>
        /\ move.keep = {Statistics(i)}
  BY <1>4, <1>6, NormMove
<1>8. m + 1 \in Nat /\ m + 1 \in Nat \ {0} /\ (m + 1) - 1 = m
  OBVIOUS
<1>9. /\ Reader.norm \in NormQueues /\ Net(1) \in NormQueues /\ Net(2) \in NormQueues
      /\ Reader.norm \in Readers /\ Reader.norm # Net(1) /\ Reader.norm # Net(2)
  BY NormQueuesDiffer
<1>10. /\ s.reader[Reader.norm] = Kernel("norm") /\ s.taken[Reader.norm][m] = m
       /\ s.taken[Reader.norm][m + 1] = m + 1 /\ s.index[Reader.norm][m + 1] = q + 1
       /\ \A e \in NormQueues : e # Reader.norm /\ e # Net(2) => s.reader[e] # Kernel("norm")
  <2>1. /\ s.reader[Reader.norm] = Kernel("norm") /\ s.taken[Reader.norm][m] = m
        /\ s.taken[Reader.norm][m + 1] = m + 1 /\ s.index[Reader.norm][m + 1] = Frames((m + 1) - 1) + 1
    BY <1>8, <1>9 DEF IsNormPlan
  <2>2. \A e \in NormQueues : e # Reader.norm /\ e # Net(2) => s.reader[e] # Kernel("norm")
    BY NormQueuesDiffer, NormKernelsDiffer DEF IsNormPlan
  <2> QED BY <1>2, <1>8, <2>1, <2>2
<1>11. /\ s.reader[Net(2)] = Kernel("norm") /\ s.taken[Net(2)][m] = IF i = 1 THEN q ELSE q + 1
       /\ s.taken[Net(2)][m + 1] = q + 1 /\ s.index[Net(2)][q + 1] = q + 1
  <2>1. /\ s.reader[Net(2)] = Kernel("norm") /\ s.taken[Net(2)][m] = Frames(m + Repeat - 1)
        /\ s.taken[Net(2)][m + 1] = Frames((m + 1) + Repeat - 1)
    BY <1>8 DEF IsNormPlan
  <2>2. q + 1 \in Nat
    BY <1>4
  <2>3. s.index[Net(2)][q + 1] = q + 1
    BY <2>2 DEF IsNormPlan
  <2> QED BY <1>4, <2>1, <2>3
<1>12. /\ s.keeps["norm"][m] = IF i # 1 THEN q + 1 ELSE -1
       /\ s.keeps["norm"][m + 1] = IF i # 6 THEN q + 1 ELSE -1
  <2>1. /\ s.keeps["norm"][m] = IF m % Repeat # 0 THEN Frames(m) + 1 ELSE -1
        /\ s.keeps["norm"][m + 1] = IF (m + 1) % Repeat # 0 THEN Frames(m + 1) + 1 ELSE -1
    BY <1>8 DEF IsNormPlan
  <2> QED BY <1>2, <1>4, <2>1
<1>13. PlanTakes(g, s, "norm", m)
  <2> SUFFICES ASSUME NEW e \in NormQueues
               PROVE  /\ Amount(move.need, e) \in Nat
                      /\ Amount(move.get, e) \in 0 .. Amount(move.need, e)
                      /\ IF s.reader[e] = Kernel("norm")
                           THEN s.taken[e][m + 1] = s.taken[e][m] + Amount(move.get, e)
                           ELSE Amount(move.get, e) = 0
    BY <1>3, <1>5 DEF PlanTakes
  <2>1. CASE e = Reader.norm
    BY <1>7, <1>10, <2>1
  <2>2. CASE e = Net(2)
    <3>1. Amount(move.need, e) = (IF i = 1 THEN 1 ELSE 0) /\ Amount(move.get, e) = Amount(move.need, e)
      BY <1>7, <1>9, <2>2
    <3> QED BY <1>4, <1>11, <2>2, <3>1
  <2>3. CASE e # Reader.norm /\ e # Net(2)
    BY <1>7, <1>10, <2>3
  <2> QED BY <2>1, <2>2, <2>3
<1>14. \A x \in {First(Reader.norm), Statistics(i)} :
         \/ x = Kept /\ s.keeps["norm"][m] \in {0, q + 1}
         \/ \E e \in DOMAIN g.capacity :
              /\ x = First(e) /\ s.reader[e] = Kernel("norm")
              /\ Amount(MoveAt(g, "norm", m).need, e) = 1
              /\ s.index[e][s.taken[e][m] + 1] = q + 1
  <2> TAKE x \in {First(Reader.norm), Statistics(i)}
  <2>1. CASE x = First(Reader.norm)
    <3>1. /\ Amount(MoveAt(g, "norm", m).need, Reader.norm) = 1
          /\ s.index[Reader.norm][s.taken[Reader.norm][m] + 1] = q + 1
      BY <1>3, <1>7, <1>9, <1>10
    <3> QED BY <1>5, <1>9, <1>10, <2>1, <3>1
  <2>2. CASE x = Statistics(i) /\ i = 1
    <3>1. /\ Amount(MoveAt(g, "norm", m).need, Net(2)) = 1
          /\ s.index[Net(2)][s.taken[Net(2)][m] + 1] = q + 1
      BY <1>3, <1>7, <1>9, <1>11, <2>2
    <3>2. x = First(Net(2))
      BY <2>2 DEF Statistics
    <3> QED BY <1>5, <1>9, <1>11, <3>1, <3>2
  <2>3. CASE x = Statistics(i) /\ i # 1
    BY <1>12, <2>3 DEF Statistics
  <2> QED BY <2>1, <2>2, <2>3
<1>15. /\ FromPlace(g, s, "norm", m, {First(Reader.norm), Statistics(i)}, q + 1)
       /\ FromPlace(g, s, "norm", m, {Statistics(i)}, q + 1)
  <2>1. FromPlace(g, s, "norm", m, {First(Reader.norm), Statistics(i)}, q + 1)
    BY <1>14, FromFronts
  <2>2. FromPlace(g, s, "norm", m, {Statistics(i)}, q + 1)
    BY <1>14, FromFronts
  <2> QED BY <2>1, <2>2
<1>16. PlanKeeps(g, s, "norm", m)
  <2>1. CASE i = 6
    <3>1. move.keep = {Kept} /\ s.keeps["norm"][m + 1] = -1
      BY <1>7, <1>9, <1>12, <2>1 DEF Statistics
    <3> QED BY <1>3, <3>1 DEF PlanKeeps
  <2>2. CASE i # 6
    <3>1. move.keep = {Statistics(i)} /\ s.keeps["norm"][m + 1] = q + 1 /\ q + 1 > 0
      BY <1>4, <1>7, <1>9, <1>12, <2>2
    <3> QED BY <1>3, <1>15, <3>1 DEF PlanKeeps
  <2> QED BY <2>1, <2>2
<1>17. First(Reader.norm) # Kept
  BY DEF First, Kept
<1>18. PlanPuts(g, s, "norm", m)
  <2> SUFFICES ASSUME NEW e \in NormQueues
               PROVE  IF s.writer[e] = Kernel("norm")
                        THEN /\ s.put[e][m] <= s.put[e][m + 1]
                             /\ DOMAIN Output(move, e) = 1 .. s.put[e][m + 1] - s.put[e][m]
                             /\ \A j \in DOMAIN Output(move, e) :
                                  /\ FromPlace(g, s, "norm", m, Output(move, e)[j],
                                               s.index[e][s.put[e][m] + j])
                                  /\ \E x \in Output(move, e)[j] : x # Kept
                        ELSE DOMAIN Output(move, e) = {}
    BY <1>3, <1>5 DEF PlanPuts
  <2>1. CASE e = Out(2)
    <3>1. /\ s.writer[e] = Kernel("norm") /\ s.put[e][m] = m /\ s.put[e][m + 1] = m + 1
          /\ s.index[e][m + 1] = q + 1
      <4>1. /\ s.writer[e] = Kernel("norm") /\ s.put[e][m] = m /\ s.put[e][m + 1] = m + 1
            /\ s.index[e][m + 1] = Frames((m + 1) - 1) + 1
        BY <1>8, <2>1 DEF IsNormPlan
      <4> QED BY <1>2, <1>8, <4>1
    <3>2. Output(move, e) = <<{First(Reader.norm), Statistics(i)}>>
      BY <1>7, <2>1
    <3>3. DOMAIN Output(move, e) = {1} /\ Output(move, e)[1] = {First(Reader.norm), Statistics(i)}
      BY <3>2
    <3>4. 1 .. (m + 1) - m = {1} /\ m <= m + 1
      OBVIOUS
    <3> QED BY <1>15, <1>17, <3>1, <3>3, <3>4
  <2>2. CASE e # Out(2)
    <3>1. s.writer[e] # Kernel("norm")
      BY <2>2, NormQueuesDiffer, NormKernelsDiffer DEF IsNormPlan
    <3>2. Output(move, e) = << >>
      BY <1>7, <2>2
    <3> QED BY <3>1, <3>2
  <2> QED BY <2>1, <2>2
<1> QED BY <1>13, <1>16, <1>18 DEF g

AreFrames(items) == \E n \in Nat \ {0} : items = n * Repeat

(* Items and repetitions are whole frames.                                 *)
LEMMA WholeFrames ==
  ASSUME NEW items \in Nat \ {0}, AreFrames(items), NEW reps \in Nat \ {0},
         NEW total, total = items * reps
  PROVE  /\ total \in Nat \ {0} /\ total % Repeat = 0 /\ 6 * Frames(total) = total
         /\ Frames(total) \in Nat /\ Frames(total + Repeat - 1) = Frames(total)
<1>1. PICK n \in Nat \ {0} : items = n * Repeat
  BY DEF AreFrames
<1>2. items = 6 * n
  BY <1>1, SixTiles
<1>3. PICK x : x = n * reps
  OBVIOUS
<1>4. x \in Nat /\ total = 6 * x + 0
  <2>1. x \in Nat
    BY <1>3
  <2>2. (6 * n) * reps = 6 * (n * reps)
    OBVIOUS
  <2> QED BY <1>2, <1>3, <2>1, <2>2
<1>5. total \in Nat \ {0}
  OBVIOUS
<1>6. 0 \in 0 .. 5
  OBVIOUS
<1>7. Frames(total) = x /\ total % Repeat = 0
  BY <1>4, <1>6, FrameOf
<1>8. PICK r : r = total % Repeat
  OBVIOUS
<1>9. Frames(total + Repeat - 1) = Frames(total)
  BY <1>5, <1>7, <1>8, StatisticsTaken
<1> QED BY <1>4, <1>5, <1>7, <1>9

(* A frame that is not whole counts for nothing.                           *)
LEMMA FramesBefore ==
  ASSUME NEW total \in Nat, 6 * Frames(total) = total, NEW m \in 0 .. total
  PROVE  /\ Frames(m) \in Nat /\ Frames(m) <= Frames(total) /\ 6 * Frames(m) <= m
         /\ m # total => Frames(m) < Frames(total)
<1>1. m \in Nat
  OBVIOUS
<1>2. PICK r : r = m % Repeat
  OBVIOUS
<1>3. PICK q : q = Frames(m)
  OBVIOUS
<1>4. r \in 0 .. 5 /\ q \in Nat /\ 6 * q + r = m
  BY <1>1, <1>2, <1>3, NextFrame
<1>5. Frames(total) \in Nat
  BY NextFrame
<1> QED BY <1>3, <1>4, <1>5

(* The plan of the normalization graph.                                    *)
LEMMA NormPlanned ==
  ASSUME NEW items \in Nat \ {0}, AreFrames(items), NEW bytes \in Nat, NEW reps \in Nat \ {0},
         NEW s, s = NormPlan(items, bytes, reps)
  PROVE  Plan(NormalizationGraph, Repeat, s)
<1> DEFINE g == NormalizationGraph
           total == Total(s)
           actors == {Kernel(k) : k \in NormKernels} \cup {Channel(1), Channel(2)}
<1>1. IsNormPlan(s, items)
  BY NormPlanIs
<1>2. /\ s.items = items /\ s.bytes = bytes /\ s.reps = reps /\ s.parts = 1
      /\ s.channels = 2 /\ s.dirs = <<"to", "from">> /\ s.ports = <<1, 2>>
  BY DEF NormPlan
<1>3. /\ total \in Nat \ {0} /\ total % Repeat = 0 /\ 6 * Frames(total) = total
      /\ Frames(total) \in Nat /\ Frames(total + Repeat - 1) = Frames(total)
  <2>1. total = items * reps
    BY <1>2 DEF Total
  <2> HIDE DEF total
  <2> QED BY <2>1, WholeFrames
<1>4. /\ DOMAIN g.capacity = NormQueues /\ DOMAIN g.kernels = NormKernels
      /\ g.inputs = (1 :> {In(1)}) /\ g.outputs = (2 :> Out(2))
  BY NormGraph
<1>5. \A k \in NormKernels : Len(g.kernels[k]) = Repeat
  <2>1. PICK i : i = (0 % Repeat) + 1
    OBVIOUS
  <2> QED BY <2>1, NormMoves
<1>6. \A m \in Nat : Frames(m) \in Nat
  BY NextFrame
<1> HIDE DEF g, total
<1>7. Actors(g, s) = actors
  <2>1. 1 .. 2 = {1, 2}
    OBVIOUS
  <2>2. {Channel(i) : i \in {1, 2}} = {Channel(1), Channel(2)}
    OBVIOUS
  <2>3. Actors(g, s) = {Kernel(k) : k \in NormKernels} \cup {Channel(i) : i \in {1, 2}}
    BY <1>2, <1>4, <2>1 DEF Actors
  <2> QED BY <2>2, <2>3
<1>8. /\ Kernel("mtxA") \in actors /\ Kernel("mean") \in actors
      /\ Kernel("deviation") \in actors /\ Kernel("norm") \in actors
      /\ Channel(1) \in actors /\ Channel(2) \in actors
  BY DEF NormKernels
<1> HIDE DEF actors
<1>9. PlanTypes(g, s)
  <2>1. /\ s.items \in Nat \ {0} /\ s.reps \in Nat \ {0} /\ s.parts \in Nat \ {0}
        /\ s.bytes \in Nat /\ s.channels \in Nat \ {0}
    BY <1>2
  <2>2. /\ s.dirs \in [1 .. s.channels -> {"to", "from"}]
        /\ \E i \in 1 .. s.channels : s.dirs[i] = "to"
        /\ s.ports \in [1 .. s.channels -> Nat]
    BY <1>2
  <2>3. \A port \in DOMAIN g.outputs : g.outputs[port] \in DOMAIN g.capacity
    BY <1>4, NormQueuesDiffer DEF :>
  <2>4. s.writer \in [NormQueues -> actors]
    <3>1. s.writer = [e \in NormQueues |->
                IF e = In(1) THEN Channel(1)
                ELSE IF e = Net(1) THEN Kernel("mean")
                ELSE IF e = Net(2) THEN Kernel("deviation")
                ELSE IF e = Out(2) THEN Kernel("norm") ELSE Kernel("mtxA")]
      BY DEF NormPlan
    <3> QED BY <1>8, <3>1
  <2>5. s.reader \in [NormQueues -> actors]
    <3>1. s.reader = [e \in NormQueues |->
                IF e = In(1) THEN Kernel("mtxA")
                ELSE IF e = Out(2) THEN Channel(2)
                ELSE IF e = Reader.mean THEN Kernel("mean")
                ELSE IF e \in {Reader.deviation, Net(1)} THEN Kernel("deviation")
                ELSE Kernel("norm")]
      BY DEF NormPlan
    <3> QED BY <1>8, <3>1
  <2>6. s.put \in [NormQueues -> [Nat -> Nat]]
    <3>1. s.put = [e \in NormQueues |->
             [m \in Nat |->
                IF e \in {In(1), Out(2)} THEN m
                ELSE IF e \in Readers THEN Frames(m) * Repeat ELSE Frames(m)]]
      BY DEF NormPlan
    <3>2. \A m \in Nat : Frames(m) * Repeat \in Nat
      BY <1>6, SixTiles
    <3>3. \A e \in NormQueues : s.put[e] \in [Nat -> Nat]
      BY <1>6, <3>1, <3>2
    <3>4. s.put = [e \in NormQueues |-> s.put[e]]
      BY <3>1
    <3> QED BY <3>3, <3>4
  <2>7. s.taken \in [NormQueues -> [Nat -> Nat]]
    <3>1. s.taken = [e \in NormQueues |->
               [m \in Nat |-> IF e \in {Net(1), Net(2)} THEN Frames(m + Repeat - 1) ELSE m]]
      BY DEF NormPlan
    <3>2. \A m \in Nat : Frames(m + Repeat - 1) \in Nat
      <4> TAKE m \in Nat
      <4>1. m + Repeat - 1 \in Nat
        BY SixTiles
      <4> QED BY <1>6, <4>1
    <3>3. \A e \in NormQueues : s.taken[e] \in [Nat -> Nat]
      BY <3>1, <3>2
    <3>4. s.taken = [e \in NormQueues |-> s.taken[e]]
      BY <3>1
    <3> QED BY <3>3, <3>4
  <2>8. s.index \in [NormQueues -> [Nat -> Nat]]
    <3>1. s.index = [e \in NormQueues |->
                [n \in Nat |-> IF e \in {Net(1), Net(2)} \/ n = 0 THEN n ELSE Frames(n - 1) + 1]]
      BY DEF NormPlan
    <3>2. \A n \in Nat : n = 0 \/ Frames(n - 1) + 1 \in Nat
      <4> TAKE n \in Nat
      <4>1. n = 0 \/ n - 1 \in Nat
        OBVIOUS
      <4> QED BY <1>6, <4>1
    <3>3. \A e \in NormQueues : s.index[e] \in [Nat -> Nat]
      BY <3>1, <3>2
    <3>4. s.index = [e \in NormQueues |-> s.index[e]]
      BY <3>1
    <3> QED BY <3>3, <3>4
  <2>9. s.keeps \in [NormKernels -> [Nat -> Int]]
    <3>1. s.keeps = [k \in NormKernels |->
               [m \in Nat |-> IF m % Repeat # 0 THEN Frames(m) + 1
                              ELSE IF k = "norm" THEN -1 ELSE 0]]
      BY DEF NormPlan
    <3>2. \A m \in Nat : Frames(m) + 1 \in Int
      BY <1>6
    <3>3. \A k \in NormKernels : s.keeps[k] \in [Nat -> Int]
      BY <3>1, <3>2
    <3>4. s.keeps = [k \in NormKernels |-> s.keeps[k]]
      BY <3>1
    <3> QED BY <3>3, <3>4
  <2>10. s.rank \in [actors -> Nat]
    <3>1. s.rank = [a \in actors |->
              IF a = Kernel("mean") THEN 3
              ELSE IF a \in {Kernel("deviation"), Kernel("mtxA")} THEN 2
              ELSE IF a = Kernel("norm") THEN 1 ELSE 0]
      BY DEF NormPlan, actors
    <3> QED BY <3>1
  <2> QED BY <1>4, <1>7, <2>1, <2>2, <2>3, <2>4, <2>5, <2>6, <2>7, <2>8, <2>9, <2>10 DEF PlanTypes
<1>10. PlanEnds(g, s)
  <2>1. Frames(0) = 0 /\ 0 % Repeat = 0 /\ Frames(0 + Repeat - 1) = 0
    <3>1. Frames(0) = 0 /\ 0 % Repeat = 0
      <4>1. 0 \in Nat /\ 0 \in 0 .. 5 /\ 0 = 6 * 0 + 0
        OBVIOUS
      <4> QED BY <4>1, FrameOf
    <3>2. Frames(0 + Repeat - 1) = 0
      <4>1. PICK y : y = 0 + Repeat - 1
        OBVIOUS
      <4>2. 0 \in Nat /\ 5 \in 0 .. 5 /\ y = 6 * 0 + 5
        BY <4>1, SixTiles
      <4> QED BY <4>1, <4>2, FrameOf
    <3> QED BY <3>1, <3>2
  <2>2. total \in Nat /\ 0 \in Nat /\ 0 * Repeat = 0 /\ Frames(total) * Repeat = total
    BY <1>3, SixTiles
  <2>3. \A e \in NormQueues : /\ s.put[e][0] = 0 /\ s.taken[e][0] = 0
                             /\ s.put[e][total] = s.taken[e][total]
    <3> TAKE e \in NormQueues
    <3>1. CASE e \in Readers
      BY <1>1, <2>1, <2>2, <3>1 DEF IsNormPlan
    <3>2. CASE e = In(1) \/ e = Out(2)
      BY <1>1, <2>2, <3>2 DEF IsNormPlan
    <3>3. CASE e = Net(1) \/ e = Net(2)
      BY <1>1, <1>3, <2>1, <2>2, <3>3 DEF IsNormPlan
    <3> QED BY <3>1, <3>2, <3>3, NormQueuesDiffer
  <2>4. ASSUME NEW k \in NormKernels
        PROVE  /\ Len(g.kernels[k]) \in Nat \ {0}
               /\ total % Len(g.kernels[k]) = 0
               /\ s.keeps[k][0] \in {-1, 0} /\ s.keeps[k][total] = s.keeps[k][0]
    <3>1. Len(g.kernels[k]) = Repeat /\ Repeat \in Nat \ {0}
      BY <1>5, SixTiles
    <3>2. k = "mtxA" \/ k = "mean" \/ k = "deviation" \/ k = "norm"
      BY DEF NormKernels
    <3>3. /\ total % Repeat = 0 /\ 0 % Repeat = 0 /\ total % Len(g.kernels[k]) = 0
          /\ total \in Nat /\ 0 \in Nat
      BY <1>3, <2>1, <2>2, <3>1
    <3>4. s.keeps[k][0] = (IF k = "norm" THEN -1 ELSE 0) /\ s.keeps[k][total] = s.keeps[k][0]
      <4>1. CASE k = "norm"
        <5>1. /\ s.keeps["norm"][0] = IF 0 % Repeat # 0 THEN Frames(0) + 1 ELSE -1
              /\ s.keeps["norm"][total] = IF total % Repeat # 0 THEN Frames(total) + 1 ELSE -1
          BY <1>1, <3>3 DEF IsNormPlan
        <5>2. s.keeps["norm"][0] = -1 /\ s.keeps["norm"][total] = -1
          BY ONLY <3>3, <5>1
        <5> QED BY <4>1, <5>2
      <4>2. CASE k # "norm"
        <5>1. /\ s.keeps[k][0] = IF 0 % Repeat # 0 THEN Frames(0) + 1 ELSE 0
              /\ s.keeps[k][total] = IF total % Repeat # 0 THEN Frames(total) + 1 ELSE 0
          BY <1>1, <3>2, <3>3, <4>2 DEF IsNormPlan
        <5>2. s.keeps[k][0] = 0 /\ s.keeps[k][total] = 0
          BY ONLY <3>3, <5>1
        <5> QED BY <4>2, <5>2
      <4> QED BY <4>1, <4>2
    <3>5. s.keeps[k][0] \in {-1, 0}
      BY <3>4
    <3> QED BY <3>1, <3>3, <3>4, <3>5
  <2> QED BY <1>4, <2>3, <2>4 DEF PlanEnds, total
<1>11. PlanChannels(g, Repeat, s)
  <2> SUFFICES ASSUME NEW i \in {1, 2}, NEW e \in NormQueues
               PROVE  /\ s.writer[e] = Channel(i) <=>
                           s.dirs[i] = "to" /\ s.ports[i] \in DOMAIN g.inputs
                           /\ e \in g.inputs[s.ports[i]]
                      /\ s.reader[e] = Channel(i) <=>
                           s.dirs[i] = "from" /\ s.ports[i] \in DOMAIN g.outputs
                           /\ e = g.outputs[s.ports[i]]
                      /\ s.writer[e] = Channel(i) => \A m \in Nat : s.put[e][m] = m
                      /\ s.reader[e] = Channel(i) => \A m \in Nat : s.taken[e][m] = m
                      /\ s.writer[e] = Channel(i) \/ s.reader[e] = Channel(i) =>
                           \A n \in 1 .. total : s.index[e][n] = ((n - 1) \div Repeat) + 1
    <3>1. 1 .. s.channels = {1, 2}
      BY <1>2
    <3> QED BY <1>4, <3>1, ZenonT(60) DEF PlanChannels, total
  <2>1. /\ g.inputs[1] = {In(1)} /\ DOMAIN g.inputs = {1}
        /\ g.outputs[2] = Out(2) /\ DOMAIN g.outputs = {2}
    BY <1>4 DEF :>
  <2>2. /\ s.dirs[1] = "to" /\ s.dirs[2] = "from" /\ s.ports[1] = 1 /\ s.ports[2] = 2
    BY <1>2
  <2>3. /\ Channel(1) # Channel(2) /\ \A k : Kernel(k) # Channel(i)
    BY ActorsDiffer
  <2>4. /\ s.writer[e] = Channel(i) <=> e = In(1) /\ i = 1
        /\ s.reader[e] = Channel(i) <=> e = Out(2) /\ i = 2
    <3>1. CASE e \in Readers
      BY <1>1, <2>3, <3>1, NormQueuesDiffer DEF IsNormPlan
    <3>2. CASE e \notin Readers
      BY <1>1, <2>3, <3>2, NormQueuesDiffer DEF IsNormPlan
    <3> QED BY <3>1, <3>2
  <2>5. s.writer[e] = Channel(i) <=>
          s.dirs[i] = "to" /\ s.ports[i] \in DOMAIN g.inputs /\ e \in g.inputs[s.ports[i]]
    BY <2>1, <2>2, <2>4
  <2>6. s.reader[e] = Channel(i) <=>
          s.dirs[i] = "from" /\ s.ports[i] \in DOMAIN g.outputs /\ e = g.outputs[s.ports[i]]
    BY <2>1, <2>2, <2>4
  <2>7. e = In(1) \/ e = Out(2) => /\ \A m \in Nat : s.put[e][m] = m /\ s.taken[e][m] = m
                                  /\ \A n \in 1 .. total : s.index[e][n] = Frames(n - 1) + 1
    <3>1. \A n \in 1 .. total : n \in Nat \ {0}
      BY <1>3
    <3> QED BY <1>1, <3>1 DEF IsNormPlan
  <2> QED BY <2>4, <2>5, <2>6, <2>7 DEF Frames
<1>12. ASSUME NEW m \in Nat, NEW k \in NormKernels
       PROVE  PlanTakes(g, s, k, m) /\ PlanPuts(g, s, k, m) /\ PlanKeeps(g, s, k, m)
  <2>1. k = "mtxA" \/ k = "mean" \/ k = "deviation" \/ k = "norm"
    BY DEF NormKernels
  <2> QED BY <1>1, <2>1, MtxKernelPlanned, MeanKernelPlanned, DeviationKernelPlanned, NormKernelPlanned DEF g
<1>13. ASSUME NEW k \in NormKernels
       PROVE  PlanBlocks(g, s, k)
  <2>1. k = "mtxA" \/ k = "mean" \/ k = "deviation" \/ k = "norm"
    BY DEF NormKernels
  <2>2. /\ \A m \in 0 .. total : m \in Nat /\ m <= total
                               /\ Frames(m) <= Frames(total) /\ 6 * Frames(m) <= m
        /\ \A m \in 0 .. total : m # total => Frames(m) < Frames(total)
        /\ \A m \in 0 .. total : Frames(m) \in Nat
    BY <1>3, FramesBefore
  <2>3. PICK i : i = (0 % Repeat) + 1
    OBVIOUS
  <2>4. /\ MoveAt(g, "mtxA", 0) = SharedBuffer[i] /\ MoveAt(g, "mean", 0) = Mean[i]
        /\ MoveAt(g, "deviation", 0) = Deviation[i] /\ MoveAt(g, "norm", 0) = Norm[i]
        /\ i \in 1 .. 6
    BY <2>3, NormMoves DEF g
  <2>5. /\ Amount(MoveAt(g, "mtxA", 0).need, In(1)) = 1
        /\ Amount(MoveAt(g, "mean", 0).need, Reader.mean) = 1
        /\ Amount(MoveAt(g, "deviation", 0).need, Reader.deviation) = 1
        /\ Amount(MoveAt(g, "norm", 0).need, Reader.norm) = 1
    <3>1. Amount(MoveAt(g, "mtxA", 0).need, In(1)) = 1
      BY <2>4, NormQueuesDiffer, MtxMove
    <3>2. Amount(MoveAt(g, "mean", 0).need, Reader.mean) = 1
      BY <2>4, NormQueuesDiffer, MeanMove
    <3>3. Amount(MoveAt(g, "deviation", 0).need, Reader.deviation) = 1
      BY <2>4, NormQueuesDiffer, DeviationMove
    <3>4. Amount(MoveAt(g, "norm", 0).need, Reader.norm) = 1
      BY <2>4, NormQueuesDiffer, NormMove
    <3> QED BY <3>1, <3>2, <3>3, <3>4
  <2>6. \A e \in Readers : /\ \A m \in 0 .. total : s.put[e][m] <= s.put[e][total]
                           /\ \A m \in 0 .. total - 1 : s.put[e][m] < s.taken[e][total]
    <3>1. \A e \in Readers, m \in 0 .. total : s.put[e][m] = 6 * Frames(m)
      <4> TAKE e \in Readers, m \in 0 .. total
      <4>1. m \in Nat /\ s.put[e][m] = Frames(m) * Repeat
        BY <1>1, <2>2 DEF IsNormPlan
      <4> QED BY <1>6, <4>1, SixTiles
    <3>2. total \in 0 .. total /\ \A m \in 0 .. total - 1 : m \in 0 .. total /\ m < total
      BY <1>3
    <3>3. \A e \in Readers : s.taken[e][total] = total /\ s.put[e][total] = total
      BY <1>1, <1>3, <3>1, <3>2 DEF IsNormPlan
    <3> QED BY <1>3, <2>2, <3>1, <3>2, <3>3
  <2>7. /\ \A m \in 0 .. total : s.put[In(1)][m] <= s.put[In(1)][total]
        /\ \A m \in 0 .. total - 1 : s.put[Out(2)][m] < s.taken[Out(2)][total]
    BY <1>1, <1>3 DEF IsNormPlan
  <2>8. \A m \in 0 .. total - 1 : /\ s.put[Net(1)][m] < s.taken[Net(1)][total]
                                  /\ s.put[Net(2)][m] < s.taken[Net(2)][total]
    <3> TAKE m \in 0 .. total - 1
    <3>1. m \in 0 .. total /\ m # total /\ m \in Nat /\ total \in Nat
      BY <1>3
    <3>2. Frames(m) < Frames(total)
      BY <2>2, <3>1
    <3> QED BY <1>1, <1>3, <3>1, <3>2 DEF IsNormPlan
  <2>9. CASE k = "mtxA"
    <3>1. s.reader[In(1)] = Kernel(k) /\ s.writer[Reader.norm] = Kernel(k)
          /\ s.rank[s.reader[Reader.norm]] < s.rank[Kernel(k)]
      BY <1>1, <2>9, NormQueuesDiffer DEF IsNormPlan
    <3>2. /\ In(1) \in NormQueues /\ Reader.norm \in NormQueues /\ Reader.norm \in Readers
          /\ 1 \in Nat \ {0}
      BY NormQueuesDiffer
    <3> QED BY <1>4, <2>5, <2>6, <2>7, <2>9, <3>1, <3>2 DEF PlanBlocks, total
  <2>10. CASE k = "mean"
    <3>1. s.reader[Reader.mean] = Kernel(k) /\ s.writer[Net(1)] = Kernel(k)
          /\ s.rank[s.reader[Net(1)]] < s.rank[Kernel(k)]
      BY <1>1, <2>10 DEF IsNormPlan
    <3>2. /\ Net(1) \in NormQueues /\ Reader.mean \in NormQueues /\ Reader.mean \in Readers
          /\ 1 \in Nat \ {0}
      BY NormQueuesDiffer
    <3> QED BY <1>4, <2>5, <2>6, <2>8, <2>10, <3>1, <3>2 DEF PlanBlocks, total
  <2>11. CASE k = "deviation"
    <3>1. s.reader[Reader.deviation] = Kernel(k) /\ s.writer[Net(2)] = Kernel(k)
          /\ s.rank[s.reader[Net(2)]] < s.rank[Kernel(k)]
      BY <1>1, <2>11 DEF IsNormPlan
    <3>2. /\ Net(2) \in NormQueues /\ Reader.deviation \in NormQueues
          /\ Reader.deviation \in Readers /\ 1 \in Nat \ {0}
      BY NormQueuesDiffer
    <3> QED BY <1>4, <2>5, <2>6, <2>8, <2>11, <3>1, <3>2 DEF PlanBlocks, total
  <2>12. CASE k = "norm"
    <3>1. s.reader[Reader.norm] = Kernel(k) /\ s.writer[Out(2)] = Kernel(k)
          /\ s.rank[s.reader[Out(2)]] < s.rank[Kernel(k)]
      BY <1>1, <2>12 DEF IsNormPlan
    <3>2. /\ Out(2) \in NormQueues /\ Reader.norm \in NormQueues /\ Reader.norm \in Readers
          /\ 1 \in Nat \ {0}
      BY NormQueuesDiffer
    <3> QED BY <1>4, <2>5, <2>6, <2>7, <2>12, <3>1, <3>2 DEF PlanBlocks, total
  <2> QED BY <2>1, <2>9, <2>10, <2>11, <2>12
<1>14. \A m \in 0 .. Total(s) - 1 : m \in Nat
  BY <1>3 DEF total
<1> QED BY <1>4, <1>9, <1>10, <1>11, <1>12, <1>13, <1>14 DEF Plan, g

(* The normalization program has a plan.                                   *)
LEMMA NormalizationFits ==
  ASSUME NEW iters \in Nat \ {0}, NEW reps \in Nat \ {0}
  PROVE  HasPlan(Normalization(iters, reps))
<1> DEFINE p == Normalization(iters, reps)
           items == iters * Repeat
           bytes == iters * 256 * 384 * 2
           s == NormPlan(items, bytes, reps)
<1>1. /\ p.device = "vek280" /\ p.graph = NormalizationGraph /\ p.span = Repeat
      /\ p.data = [a |-> Input(items, Repeat), s |-> Zeroes(items)]
      /\ p.phases = <<Phase("PERF", iters * reps, "valid", {},
                            <<NormalizationArgs(items, bytes, reps)>>)>>
  BY DEF Normalization, Program
<1>2. items \in Nat \ {0} /\ AreFrames(items) /\ bytes \in Nat
  <2>1. items \in Nat \ {0}
    BY SixTiles
  <2>2. bytes \in Nat
    OBVIOUS
  <2>3. AreFrames(items)
    BY DEF AreFrames
  <2> QED BY <2>1, <2>2, <2>3
<1> HIDE DEF p, items, bytes
<1>3. /\ s.items = items /\ s.bytes = bytes /\ s.reps = reps /\ s.parts = 1
      /\ s.channels = 2 /\ s.dirs = <<"to", "from">> /\ s.ports = <<1, 2>>
  BY DEF NormPlan
<1>4. Plan(p.graph, p.span, s)
  BY <1>1, <1>2, NormPlanned
<1> HIDE DEF s
<1>5. Len(p.phases) = 1 /\ p.phases[1] = Phase("PERF", iters * reps, "valid", {},
                                               <<NormalizationArgs(items, bytes, reps)>>)
  BY <1>1
<1>6. /\ p.phases[1].mode = "PERF" /\ p.phases[1].asks = "valid" /\ p.phases[1].golden = {}
      /\ p.phases[1].transactions =
           << <<Arg("to", 1, items, bytes, reps, "a"), Arg("from", 2, items, bytes, reps, "s")>> >>
  BY <1>5 DEF Phase, NormalizationArgs
<1>7. DOMAIN p.data = {"a", "s"} /\ "a" # "s"
  BY <1>1
<1>8. IsPair(s) /\ s.ports[1] = 1 /\ s.ports[2] = 2
  BY <1>2, <1>3 DEF IsPair
<1>9. PhaseFits(p, s, 1)
  <2>1. PairPhase(p, s, 1, "a", "s")
    BY <1>3, <1>6, <1>7, <1>8 DEF PairPhase
  <2>2. p.device \in {"vck190", "vek280", "vek385"}
    BY <1>1
  <2> QED BY <1>8, <2>1, <2>2, PairPhaseFits
<1>10. Length(s) = items
  BY <1>2, <1>3 DEF Length
<1>11. p.data \in [DOMAIN p.data -> [1 .. items -> Nat]]
  <2>1. Input(items, Repeat) \in [1 .. items -> Nat]
    <3>1. \A x \in 1 .. items : ((x - 1) \div Repeat) + 1 \in Nat
      <4> TAKE x \in 1 .. items
      <4>1. x - 1 \in Nat
        BY <1>2
      <4>2. Frames(x - 1) \in Nat
        BY <4>1, NextFrame
      <4> QED BY <4>2 DEF Frames
    <3> QED BY <3>1 DEF Input
  <2>2. Zeroes(items) \in [1 .. items -> Nat]
    BY DEF Zeroes
  <2> QED BY <1>1, <2>1, <2>2
<1>12. InputsThere(p, s, 1)
  BY <1>1, SixTiles DEF InputsThere
<1>13. Boards[p.device].depth \in Nat
  BY <1>1 DEF Boards
<1>14. \A h \in 1 .. Len(p.phases) : PhaseFits(p, s, h) /\ InputsThere(p, s, h)
  <2>1. \A h \in 1 .. Len(p.phases) : h = 1
    BY <1>5
  <2> QED BY <1>9, <1>12, <2>1
<1>15. Len(p.phases) \in Nat \ {0} /\ p.span \in Nat \ {0}
  BY <1>1, <1>5, SixTiles
<1>16. Fitting(p, s)
  BY <1>4, <1>10, <1>11, <1>13, <1>14, <1>15 DEF Fitting
<1>17. HasPlan(p)
  BY <1>16 DEF HasPlan
<1> QED BY <1>17 DEF p
-----------------------------------------------------------------------------
(* The plan of the channelizer, with as many tiles in a widget, widgets    *)
(* and filters as there are ports for.                                     *)

Dft(widget, tile) == <<"dft", widget, tile>>
Fir(i) == <<"fir", 0, i>>
Sizes(tiles, widgets, firs) == tiles \in 2 .. 4 /\ widgets \in 1 .. 4 /\ firs \in 0 .. 8

(* Its queues: of a signal, of a filter's input, of a cascade, of a        *)
(* widget's output and of a filter's.                                      *)
IsSignal(tiles, widgets, e) ==
  \E t \in 0 .. tiles - 1, b \in 0 .. 1, w \in 0 .. widgets - 1 : e = Signal(2 * t + b, w)
IsFirIn(firs, e) == \E i \in 0 .. firs - 1 : e = In(17 + 2 * i)
IsCascade(tiles, widgets, e) ==
  \E w \in 0 .. widgets - 1, t \in 0 .. tiles - 2 : e = Cascade(w, t)
IsDftOut(widgets, e) == \E w \in 0 .. widgets - 1, h \in 1 .. 2 : e = Out(4 * w + 2 * h)
IsFirOut(firs, e) == \E i \in 0 .. firs - 1 : e = Out(18 + 2 * i)

IsQueue(tiles, widgets, firs, e) ==
  \/ IsSignal(tiles, widgets, e) \/ IsFirIn(firs, e) \/ IsCascade(tiles, widgets, e)
  \/ IsDftOut(widgets, e) \/ IsFirOut(firs, e)

(* Signals come in pairs, two for each tile.                               *)
LEMMA Halves ==
  ASSUME NEW n \in Nat, NEW i \in 0 .. 2 * n - 1
  PROVE  \E t \in 0 .. n - 1, b \in 0 .. 1 : i = 2 * t + b
<1>1. i \div 2 \in 0 .. n - 1 /\ i % 2 \in 0 .. 1 /\ i = 2 * (i \div 2) + (i % 2)
  OBVIOUS
<1> QED BY <1>1

(* The ports signals and filters are fed through.                          *)
LEMMA ChannelizerInputs ==
  ASSUME NEW tiles, NEW widgets, NEW firs, Sizes(tiles, widgets, firs),
         NEW g, g = ChannelizerGraph(tiles, widgets, firs), NEW port
  PROVE  /\ port \in DOMAIN g.inputs <=>
              \/ \E i \in 0 .. 2 * tiles - 1 : port = 2 * i + 1
              \/ \E i \in 0 .. firs - 1 : port = 17 + 2 * i
         /\ \A i \in 0 .. 2 * tiles - 1 : port = 2 * i + 1 =>
              g.inputs[port] = {<<"to", port, w>> : w \in 0 .. widgets - 1}
         /\ \A i \in 0 .. firs - 1 : port = 17 + 2 * i => g.inputs[port] = {In(port)}
<1> DEFINE dft == [p \in {2 * i + 1 : i \in 0 .. 2 * tiles - 1} |->
                     {<<"to", p, widget>> : widget \in 0 .. widgets - 1}]
           fir == [p \in {17 + 2 * i : i \in 0 .. firs - 1} |-> {In(p)}]
<1>1. g.inputs = dft @@ fir
  BY DEF ChannelizerGraph, DftPorts
<1>2. tiles \in 2 .. 4 /\ firs \in 0 .. 8
  BY DEF Sizes
<1>3. DOMAIN (dft @@ fir) = DOMAIN dft \cup DOMAIN fir
  BY DEF @@
<1>4. port \in DOMAIN dft => (dft @@ fir)[port] = dft[port]
  BY DEF @@
<1>5. port \in DOMAIN fir /\ port \notin DOMAIN dft => (dft @@ fir)[port] = fir[port]
  BY DEF @@
<1>6. port \in DOMAIN dft <=> \E i \in 0 .. 2 * tiles - 1 : port = 2 * i + 1
  OBVIOUS
<1>7. port \in DOMAIN fir <=> \E i \in 0 .. firs - 1 : port = 17 + 2 * i
  OBVIOUS
<1>8. \A i \in 0 .. firs - 1, j \in 0 .. 2 * tiles - 1 : 17 + 2 * i # 2 * j + 1
  BY <1>2
<1>9. port \in DOMAIN dft => dft[port] = {<<"to", port, w>> : w \in 0 .. widgets - 1}
  OBVIOUS
<1>10. port \in DOMAIN fir => fir[port] = {In(port)}
  OBVIOUS
<1> HIDE DEF dft, fir
<1> QED BY <1>1, <1>3, <1>4, <1>5, <1>6, <1>7, <1>8, <1>9, <1>10

(* The ports widgets and filters give their results to.                    *)
LEMMA ChannelizerOutputs ==
  ASSUME NEW tiles, NEW widgets, NEW firs, Sizes(tiles, widgets, firs),
         NEW g, g = ChannelizerGraph(tiles, widgets, firs), NEW port
  PROVE  /\ port \in DOMAIN g.outputs <=>
              \/ \E i \in 1 .. 2 * widgets : port = 2 * i
              \/ \E i \in 0 .. firs - 1 : port = 18 + 2 * i
         /\ port \in DOMAIN g.outputs => g.outputs[port] = Out(port)
<1>1. g.outputs = [p \in {2 * i : i \in 1 .. 2 * widgets}
                          \cup {18 + 2 * i : i \in 0 .. firs - 1} |-> Out(p)]
  BY DEF ChannelizerGraph
<1> QED BY <1>1

(* The queues of the channelizer, by their kinds.                          *)
LEMMA ChannelizerQueues ==
  ASSUME NEW tiles, NEW widgets, NEW firs, Sizes(tiles, widgets, firs),
         NEW g, g = ChannelizerGraph(tiles, widgets, firs)
  PROVE  \A e : e \in DOMAIN g.capacity <=> IsQueue(tiles, widgets, firs, e)
<1> TAKE e
<1>1. tiles \in 2 .. 4 /\ widgets \in 1 .. 4 /\ firs \in 0 .. 8
  BY DEF Sizes
<1>2. e \in DOMAIN g.capacity <=>
        \/ e \in {Cascade(widget, tile) : widget \in 0 .. widgets - 1, tile \in 0 .. tiles - 2}
        \/ e \in UNION {g.inputs[port] : port \in DOMAIN g.inputs}
        \/ e \in {g.outputs[port] : port \in DOMAIN g.outputs}
  <2> DEFINE cascades == {Cascade(widget, tile) :
                            widget \in 0 .. widgets - 1, tile \in 0 .. tiles - 2}
             others == (UNION {g.inputs[port] : port \in DOMAIN g.inputs})
                         \cup {g.outputs[port] : port \in DOMAIN g.outputs}
             two == [d \in cascades |-> 2]
             one == [d \in others |-> 1]
  <2>1. g.capacity = two @@ one
    BY DEF ChannelizerGraph
  <2>2. DOMAIN two = cascades /\ DOMAIN one = others
    OBVIOUS
  <2>3. DOMAIN (two @@ one) = DOMAIN two \cup DOMAIN one
    BY DEF @@
  <2> HIDE DEF two, one
  <2>4. DOMAIN g.capacity = cascades \cup others
    BY <2>1, <2>2, <2>3
  <2> QED BY <2>4
<1>3. e \in {Cascade(widget, tile) : widget \in 0 .. widgets - 1, tile \in 0 .. tiles - 2}
        <=> IsCascade(tiles, widgets, e)
  BY DEF IsCascade
<1>4. e \in UNION {g.inputs[port] : port \in DOMAIN g.inputs} <=>
        \E port \in DOMAIN g.inputs : e \in g.inputs[port]
  OBVIOUS
<1>5. (\E port \in DOMAIN g.inputs : e \in g.inputs[port])
        => IsSignal(tiles, widgets, e) \/ IsFirIn(firs, e)
  <2> SUFFICES ASSUME NEW port \in DOMAIN g.inputs, e \in g.inputs[port]
               PROVE  IsSignal(tiles, widgets, e) \/ IsFirIn(firs, e)
    OBVIOUS
  <2>1. CASE \E i \in 0 .. 2 * tiles - 1 : port = 2 * i + 1
    <3>1. PICK i \in 0 .. 2 * tiles - 1 : port = 2 * i + 1
      BY <2>1
    <3>2. PICK w \in 0 .. widgets - 1 : e = <<"to", port, w>>
      BY <3>1, ChannelizerInputs
    <3>3. PICK t \in 0 .. tiles - 1, b \in 0 .. 1 : i = 2 * t + b
      BY <1>1, Halves
    <3> QED BY <3>1, <3>2, <3>3 DEF IsSignal, Signal
  <2>2. CASE \E i \in 0 .. firs - 1 : port = 17 + 2 * i
    <3>1. PICK i \in 0 .. firs - 1 : port = 17 + 2 * i
      BY <2>2
    <3>2. e = In(port)
      BY <3>1, ChannelizerInputs
    <3> QED BY <3>1, <3>2 DEF IsFirIn
  <2> QED BY <2>1, <2>2, ChannelizerInputs
<1>6. IsSignal(tiles, widgets, e) => \E port \in DOMAIN g.inputs : e \in g.inputs[port]
  <2> SUFFICES ASSUME NEW t \in 0 .. tiles - 1, NEW b \in 0 .. 1, NEW w \in 0 .. widgets - 1,
                      e = Signal(2 * t + b, w)
               PROVE  \E port \in DOMAIN g.inputs : e \in g.inputs[port]
    BY DEF IsSignal
  <2>1. PICK i : i = 2 * t + b
    OBVIOUS
  <2>2. PICK port : port = 2 * i + 1
    OBVIOUS
  <2>3. i \in 0 .. 2 * tiles - 1
    BY <1>1, <2>1
  <2>4. e = <<"to", port, w>>
    BY <2>1, <2>2 DEF Signal
  <2>5. port \in DOMAIN g.inputs /\ g.inputs[port] = {<<"to", port, v>> : v \in 0 .. widgets - 1}
    BY <2>2, <2>3, ChannelizerInputs
  <2> QED BY <2>4, <2>5
<1>7. IsFirIn(firs, e) => \E port \in DOMAIN g.inputs : e \in g.inputs[port]
  <2> SUFFICES ASSUME NEW i \in 0 .. firs - 1, e = In(17 + 2 * i)
               PROVE  \E port \in DOMAIN g.inputs : e \in g.inputs[port]
    BY DEF IsFirIn
  <2>1. PICK port : port = 17 + 2 * i
    OBVIOUS
  <2>2. port \in DOMAIN g.inputs /\ g.inputs[port] = {In(port)}
    BY <2>1, ChannelizerInputs
  <2> QED BY <2>1, <2>2
<1>8. e \in {g.outputs[port] : port \in DOMAIN g.outputs} => IsDftOut(widgets, e) \/ IsFirOut(firs, e)
  <2> SUFFICES ASSUME NEW port \in DOMAIN g.outputs, e = g.outputs[port]
               PROVE  IsDftOut(widgets, e) \/ IsFirOut(firs, e)
    OBVIOUS
  <2>0. e = Out(port)
    BY ChannelizerOutputs
  <2>1. CASE \E i \in 1 .. 2 * widgets : port = 2 * i
    <3>1. PICK i \in 1 .. 2 * widgets : port = 2 * i
      BY <2>1
    <3>2. PICK j : j = i - 1
      OBVIOUS
    <3>3. j \in 0 .. 2 * widgets - 1 /\ i = j + 1
      BY <1>1, <3>2
    <3>4. PICK w \in 0 .. widgets - 1, b \in 0 .. 1 : j = 2 * w + b
      BY <1>1, <3>3, Halves
    <3>5. port = 4 * w + 2 * (b + 1) /\ b + 1 \in 1 .. 2
      BY <3>1, <3>3, <3>4
    <3> QED BY <2>0, <3>5 DEF IsDftOut
  <2>2. CASE \E i \in 0 .. firs - 1 : port = 18 + 2 * i
    BY <2>0, <2>2 DEF IsFirOut
  <2> QED BY <2>1, <2>2, ChannelizerOutputs
<1>9. IsDftOut(widgets, e) => e \in {g.outputs[port] : port \in DOMAIN g.outputs}
  <2> SUFFICES ASSUME NEW w \in 0 .. widgets - 1, NEW h \in 1 .. 2, e = Out(4 * w + 2 * h)
               PROVE  e \in {g.outputs[port] : port \in DOMAIN g.outputs}
    BY DEF IsDftOut
  <2>1. PICK i : i = 2 * w + h
    OBVIOUS
  <2>2. PICK port : port = 4 * w + 2 * h
    OBVIOUS
  <2>3. i \in 1 .. 2 * widgets /\ port = 2 * i
    BY <1>1, <2>1, <2>2
  <2>4. port \in DOMAIN g.outputs /\ g.outputs[port] = Out(port)
    BY <2>3, ChannelizerOutputs
  <2> QED BY <2>2, <2>4
<1>10. IsFirOut(firs, e) => e \in {g.outputs[port] : port \in DOMAIN g.outputs}
  <2> SUFFICES ASSUME NEW i \in 0 .. firs - 1, e = Out(18 + 2 * i)
               PROVE  e \in {g.outputs[port] : port \in DOMAIN g.outputs}
    BY DEF IsFirOut
  <2>1. PICK port : port = 18 + 2 * i
    OBVIOUS
  <2>2. port \in DOMAIN g.outputs /\ g.outputs[port] = Out(port)
    BY <2>1, ChannelizerOutputs
  <2> QED BY <2>1, <2>2
<1> QED BY <1>2, <1>3, <1>4, <1>5, <1>6, <1>7, <1>8, <1>9, <1>10 DEF IsQueue

DftMoves(tiles, w, t) ==
  IF t = 0 THEN RunInput(w) ELSE IF t = tiles - 1 THEN RunOutput(w, t) ELSE RunMiddle(w, t)

(* The kernels of the channelizer with their moves.                        *)
LEMMA ChannelizerKernels ==
  ASSUME NEW tiles, NEW widgets, NEW firs, Sizes(tiles, widgets, firs),
         NEW g, g = ChannelizerGraph(tiles, widgets, firs)
  PROVE  /\ \A k : k \in DOMAIN g.kernels <=>
                     \/ \E w \in 0 .. widgets - 1, t \in 0 .. tiles - 1 : k = Dft(w, t)
                     \/ \E i \in 0 .. firs - 1 : k = Fir(i)
         /\ \A w \in 0 .. widgets - 1, t \in 0 .. tiles - 1 :
              g.kernels[Dft(w, t)] = DftMoves(tiles, w, t)
         /\ \A i \in 0 .. firs - 1 : g.kernels[Fir(i)] = PolyphaseFir(i)
<1> DEFINE names == UNION {DOMAIN DftWidget(w, tiles) : w \in 0 .. widgets - 1}
           dft == [k \in names |-> DftWidget(k[2], tiles)[k]]
           fir == Filterbank(firs)
<1>1. g.kernels = dft @@ fir
  BY DEF ChannelizerGraph
<1>2. \A k : k \in names <=> \E w \in 0 .. widgets - 1, t \in 0 .. tiles - 1 : k = Dft(w, t)
  <2> TAKE k
  <2>1. \A w : DOMAIN DftWidget(w, tiles) = {<<"dft", w, t>> : t \in 0 .. tiles - 1}
    BY DEF DftWidget
  <2>2. k \in names <=> \E w \in 0 .. widgets - 1 : k \in DOMAIN DftWidget(w, tiles)
    OBVIOUS
  <2>3. \A w : k \in DOMAIN DftWidget(w, tiles) <=> \E t \in 0 .. tiles - 1 : k = Dft(w, t)
    BY ONLY <2>1 DEF Dft
  <2> HIDE DEF names
  <2> QED BY ONLY <2>2, <2>3
<1>3. \A w, t : t \in 0 .. tiles - 1 => DftWidget(w, tiles)[Dft(w, t)] = DftMoves(tiles, w, t)
  BY DEF DftWidget, Dft, DftMoves
<1>4. \A w \in 0 .. widgets - 1, t \in 0 .. tiles - 1 : dft[Dft(w, t)] = DftMoves(tiles, w, t)
  <2> TAKE w \in 0 .. widgets - 1, t \in 0 .. tiles - 1
  <2>1. Dft(w, t) \in names
    BY <1>2
  <2>2. Dft(w, t)[2] = w
    BY DEF Dft
  <2> HIDE DEF names
  <2> QED BY <1>3, <2>1, <2>2
<1>5. /\ \A k : k \in DOMAIN fir <=> \E i \in 0 .. firs - 1 : k = Fir(i)
      /\ \A i \in 0 .. firs - 1 : fir[Fir(i)] = PolyphaseFir(i)
  BY DEF Filterbank, Fir
<1>6. \A w, t, i : Dft(w, t) # Fir(i)
  BY DEF Dft, Fir
<1>7. /\ DOMAIN (dft @@ fir) = DOMAIN dft \cup DOMAIN fir
      /\ \A k \in DOMAIN dft : (dft @@ fir)[k] = dft[k]
      /\ \A k \in DOMAIN fir : k \notin DOMAIN dft => (dft @@ fir)[k] = fir[k]
  BY DEF @@
<1>8. DOMAIN dft = names
  OBVIOUS
<1> HIDE DEF dft, fir, names
<1>9. \A w \in 0 .. widgets - 1, t \in 0 .. tiles - 1 : Dft(w, t) \in DOMAIN dft
  BY <1>2, <1>8
<1>10. \A i \in 0 .. firs - 1 : Fir(i) \in DOMAIN fir /\ Fir(i) \notin DOMAIN dft
  BY <1>2, <1>5, <1>6, <1>8
<1>11. \A k : k \in DOMAIN g.kernels <=> k \in names \/ k \in DOMAIN fir
  BY <1>1, <1>7, <1>8
<1> QED BY <1>1, <1>2, <1>4, <1>5, <1>7, <1>9, <1>10, <1>11

(* What the queues of the channelizer cannot be.                           *)
LEMMA ChannelizerQueuesDiffer ==
  /\ \A i, w, p : Signal(i, w) # Out(p)
  /\ \A i, w, v, t : Signal(i, w) # Cascade(v, t)
  /\ \A p, v, t : In(p) # Cascade(v, t) /\ Out(p) # Cascade(v, t)
  /\ \A p, q : In(p) # Out(q)
  /\ \A p, q : In(p) = In(q) => p = q
  /\ \A p, q : Out(p) = Out(q) => p = q
  /\ \A w, t, v, u : Cascade(w, t) = Cascade(v, u) => w = v /\ t = u
  /\ \A i, w, j, v : Signal(i, w) = Signal(j, v) => 2 * i + 1 = 2 * j + 1 /\ w = v
  /\ \A i, w, p : Signal(i, w) = In(p) => 2 * i + 1 = p
BY DEF Signal, Out, Cascade, In

(* The only move of a tile: with and without a cascade to read from.       *)
Carried(w, t, j) == Sources(w, t) \cup IF t = 0 THEN {} ELSE {<<Cascade(w, t - 1), j>>}

TileTakes(w, t, e) ==
  IF e \in TileSignals(w, t) THEN 1 ELSE IF t # 0 /\ e = Cascade(w, t - 1) THEN 2 ELSE 0

(* What a tile takes from a queue.                                         *)
LEMMA TileAmounts ==
  ASSUME NEW w, NEW t, NEW e, NEW takes,
         takes = IF t = 0 THEN TakeSignals(w, t)
                          ELSE TakeSignals(w, t) @@ (Cascade(w, t - 1) :> 2)
  PROVE  Amount(takes, e) = TileTakes(w, t, e)
<1>1. CASE t = 0
  BY <1>1 DEF Amount, TakeSignals, TileTakes
<1>2. CASE t # 0
  <2> DEFINE f == TakeSignals(w, t)
             h == Cascade(w, t - 1) :> 2
  <2>1. takes = f @@ h
    BY <1>2
  <2>2. DOMAIN f = TileSignals(w, t) /\ \A d \in DOMAIN f : f[d] = 1
    BY DEF TakeSignals
  <2>3. DOMAIN h = {Cascade(w, t - 1)} /\ h[Cascade(w, t - 1)] = 2
    BY DEF :>
  <2>4. /\ DOMAIN (f @@ h) = DOMAIN f \cup DOMAIN h
        /\ \A d \in DOMAIN f \cup DOMAIN h : (f @@ h)[d] = IF d \in DOMAIN f THEN f[d] ELSE h[d]
    BY DEF @@
  <2> HIDE DEF f, h
  <2> QED BY <1>2, <2>1, <2>2, <2>3, <2>4 DEF Amount, TileTakes
<1> QED BY <1>1, <1>2

TileOutput(tiles, w, t, e) ==
  IF t # tiles - 1
    THEN IF e = Cascade(w, t) THEN [j \in 1 .. 2 |-> Carried(w, t, j)] ELSE << >>
    ELSE IF e = Out(4 * w + 2) THEN <<Carried(w, t, 1)>>
         ELSE IF e = Out(4 * w + 4) THEN <<Carried(w, t, 2)>> ELSE << >>

(* The only move of a tile, first, in the middle or last.                  *)
LEMMA TileMove ==
  ASSUME NEW tiles, NEW widgets, NEW firs, Sizes(tiles, widgets, firs),
         NEW w \in 0 .. widgets - 1, NEW t \in 0 .. tiles - 1, NEW e,
         NEW move, move = DftMoves(tiles, w, t)[1]
  PROVE  /\ Len(DftMoves(tiles, w, t)) = 1
         /\ Amount(move.need, e) = TileTakes(w, t, e) /\ Amount(move.get, e) = TileTakes(w, t, e)
         /\ Output(move, e) = TileOutput(tiles, w, t, e)
         /\ move.keep = {}
<1>1. tiles \in 2 .. 4 /\ widgets \in 1 .. 4 /\ w \in Nat /\ t \in Nat
  BY DEF Sizes
<1>2. CASE t = 0
  <2>1. DftMoves(tiles, w, t) = RunInput(w) /\ t # tiles - 1
    BY <1>1, <1>2 DEF DftMoves
  <2>2. /\ Len(RunInput(w)) = 1
        /\ move = Streaming(TakeSignals(w, 0), Cascade(w, 0) :> [j \in 1 .. 2 |-> Sources(w, 0)], {})
    BY <2>1 DEF RunInput
  <2>3. /\ move.need = TakeSignals(w, 0) /\ move.get = TakeSignals(w, 0)
        /\ move.put = (Cascade(w, 0) :> [j \in 1 .. 2 |-> Sources(w, 0)]) /\ move.keep = {}
    BY <2>2 DEF Streaming, Holding
  <2>4. Amount(move.need, e) = TileTakes(w, t, e) /\ Amount(move.get, e) = TileTakes(w, t, e)
    BY <1>2, <2>3, TileAmounts
  <2>5. \A j : Carried(w, t, j) = Sources(w, 0)
    BY <1>2 DEF Carried
  <2>6. Output(move, e) = IF e = Cascade(w, 0) THEN [j \in 1 .. 2 |-> Sources(w, 0)] ELSE << >>
    BY <2>3 DEF Output, :>
  <2>7. Output(move, e) = TileOutput(tiles, w, t, e)
    BY <1>2, <2>1, <2>5, <2>6 DEF TileOutput
  <2> QED BY <2>1, <2>2, <2>3, <2>4, <2>7
<1>3. CASE t # 0
  <2> DEFINE takes == TakeSignals(w, t) @@ (Cascade(w, t - 1) :> 2)
  <2>1. Amount(takes, e) = TileTakes(w, t, e)
    BY <1>3, TileAmounts
  <2>2. \A j \in 1 .. 2 : Partial(w, t)[j] = Carried(w, t, j)
    BY <1>3 DEF Partial, Carried
  <2>3. Partial(w, t) = [j \in 1 .. 2 |-> Carried(w, t, j)]
    BY <1>3 DEF Partial, Carried
  <2>4. CASE t = tiles - 1
    <3> DEFINE outs == {Out(4 * w + 2), Out(4 * w + 4)}
    <3>1. DftMoves(tiles, w, t) = RunOutput(w, t)
      BY <1>3, <2>4 DEF DftMoves
    <3>2. /\ Len(RunOutput(w, t)) = 1
          /\ move = Streaming(takes, [d \in outs |->
                                        << Partial(w, t)[(d[2] - 4 * w) \div 2] >>], {})
      BY <3>1 DEF RunOutput
    <3>3. /\ move.need = takes /\ move.get = takes /\ move.keep = {}
          /\ move.put = [d \in outs |-> << Partial(w, t)[(d[2] - 4 * w) \div 2] >>]
      BY <3>2 DEF Streaming, Holding
    <3>4. /\ Out(4 * w + 2)[2] = 4 * w + 2 /\ Out(4 * w + 4)[2] = 4 * w + 4
          /\ Out(4 * w + 2) # Out(4 * w + 4)
      BY <1>1 DEF Out
    <3>5. ((4 * w + 2) - 4 * w) \div 2 = 1 /\ ((4 * w + 4) - 4 * w) \div 2 = 2
      BY <1>1
    <3>6. /\ move.put[Out(4 * w + 2)] = <<Carried(w, t, 1)>>
          /\ move.put[Out(4 * w + 4)] = <<Carried(w, t, 2)>>
          /\ DOMAIN move.put = outs
      BY <2>2, <3>3, <3>4, <3>5
    <3>7. Output(move, e) = IF e = Out(4 * w + 2) THEN <<Carried(w, t, 1)>>
                            ELSE IF e = Out(4 * w + 4) THEN <<Carried(w, t, 2)>> ELSE << >>
      BY <3>6 DEF Output
    <3> HIDE DEF takes
    <3>8. Output(move, e) = TileOutput(tiles, w, t, e)
      BY <2>4, <3>7 DEF TileOutput
    <3> QED BY <2>1, <3>1, <3>2, <3>3, <3>8
  <2>5. CASE t # tiles - 1
    <3>1. DftMoves(tiles, w, t) = RunMiddle(w, t)
      BY <1>3, <2>5 DEF DftMoves
    <3>2. /\ Len(RunMiddle(w, t)) = 1
          /\ move = Streaming(takes, Cascade(w, t) :> Partial(w, t), {})
      BY <3>1 DEF RunMiddle
    <3>3. /\ move.need = takes /\ move.get = takes /\ move.keep = {}
          /\ move.put = (Cascade(w, t) :> Partial(w, t))
      BY <3>2 DEF Streaming, Holding
    <3>4. Output(move, e) = IF e = Cascade(w, t) THEN Partial(w, t) ELSE << >>
      BY <3>3 DEF Output, :>
    <3> HIDE DEF takes
    <3>5. Output(move, e) = TileOutput(tiles, w, t, e)
      BY <2>3, <2>5, <3>4 DEF TileOutput
    <3> QED BY <2>1, <3>1, <3>2, <3>3, <3>5
  <2> QED BY <2>4, <2>5
<1> QED BY <1>2, <1>3

(* The move of a FIR, from queue in to queue out.                          *)
Passes(in, out, e, move) ==
  /\ Amount(move.need, e) = IF e = in THEN 1 ELSE 0
  /\ Amount(move.get, e) = IF e = in THEN 1 ELSE 0
  /\ Output(move, e) = IF e = out THEN <<{First(in)}>> ELSE << >>
  /\ move.keep = {}

(* The only move of a filter.                                              *)
LEMMA FirMove ==
  ASSUME NEW i, NEW e, NEW move, move = PolyphaseFir(i)[1]
  PROVE  Passes(In(17 + 2 * i), Out(18 + 2 * i), e, move)
<1>1. /\ Len(PolyphaseFir(i)) = 1
      /\ move = Streaming(One(In(17 + 2 * i)), PutOne(Out(18 + 2 * i), {First(In(17 + 2 * i))}), {})
  BY DEF PolyphaseFir
<1>2. /\ move.need = One(In(17 + 2 * i)) /\ move.get = One(In(17 + 2 * i)) /\ move.keep = {}
      /\ move.put = PutOne(Out(18 + 2 * i), {First(In(17 + 2 * i))})
  BY <1>1 DEF Streaming, Holding
<1>3. /\ Amount(move.need, e) = IF e = In(17 + 2 * i) THEN 1 ELSE 0
      /\ Amount(move.get, e) = IF e = In(17 + 2 * i) THEN 1 ELSE 0
  BY <1>2 DEF Amount, One, :>
<1>4. Output(move, e) = IF e = Out(18 + 2 * i) THEN <<{First(In(17 + 2 * i))}>> ELSE << >>
  BY <1>2 DEF Output, PutOne, :>
<1> QED BY <1>2, <1>3, <1>4 DEF Passes

ChannelizerPlan(tiles, widgets, firs) ==
  LET g == ChannelizerGraph(tiles, widgets, firs)
      channels == 2 * tiles + firs + 2 * widgets + firs
      args == ChannelizerArgs(tiles, widgets, firs)
      queues == DOMAIN g.capacity
  IN [
  items |-> 2 * Rounds, bytes |-> 65536, reps |-> 1, parts |-> 1,
  channels |-> channels,
  dirs |-> [i \in 1 .. channels |-> args[i].dir],
  ports |-> [i \in 1 .. channels |-> args[i].plio],
  writer |-> [e \in queues |->
                IF e[1] = "to"
                  THEN Channel(IF e[2] < 17 THEN (e[2] + 1) \div 2
                                            ELSE 2 * tiles + ((e[2] - 15) \div 2))
                ELSE IF e[1] = "acc" THEN Kernel(Dft(e[2], e[3]))
                ELSE IF e[2] < 18 THEN Kernel(Dft((e[2] - 2) \div 4, tiles - 1))
                ELSE Kernel(Fir((e[2] - 18) \div 2))],
  reader |-> [e \in queues |->
                IF e[1] = "to"
                  THEN IF e[2] < 17 THEN Kernel(Dft(e[3], e[2] \div 4))
                                    ELSE Kernel(Fir((e[2] - 17) \div 2))
                ELSE IF e[1] = "acc" THEN Kernel(Dft(e[2], e[3] + 1))
                ELSE Channel(2 * tiles + firs +
                               IF e[2] < 18 THEN e[2] \div 2
                                            ELSE 2 * widgets + ((e[2] - 16) \div 2))],
  put |-> [e \in queues |-> [m \in Nat |-> IF e[1] = "acc" THEN 2 * m ELSE m]],
  taken |-> [e \in queues |-> [m \in Nat |-> IF e[1] = "acc" THEN 2 * m ELSE m]],
  index |-> [e \in queues |-> [n \in Nat |-> IF e[1] = "acc" THEN (n + 1) \div 2 ELSE n]],
  keeps |-> [k \in DOMAIN g.kernels |-> [m \in Nat |-> 0]],
  rank |-> [a \in {Kernel(k) : k \in DOMAIN g.kernels} \cup {Channel(i) : i \in 1 .. channels} |->
              IF a[1] = "channel" THEN 0
              ELSE IF a[2][1] = "fir" THEN 1 ELSE tiles - a[2][3]]]

(* Who writes and reads each queue.                                        *)
SignalsLinked(s, tiles, widgets) ==
  \A t \in 0 .. tiles - 1, b \in 0 .. 1, w \in 0 .. widgets - 1 :
    /\ s.writer[Signal(2 * t + b, w)] = Channel(2 * t + b + 1)
    /\ s.reader[Signal(2 * t + b, w)] = Kernel(Dft(w, t))
CascadesLinked(s, tiles, widgets) ==
  \A w \in 0 .. widgets - 1, t \in 0 .. tiles - 2 :
    /\ s.writer[Cascade(w, t)] = Kernel(Dft(w, t))
    /\ s.reader[Cascade(w, t)] = Kernel(Dft(w, t + 1))
DftOutsLinked(s, tiles, widgets, firs) ==
  \A w \in 0 .. widgets - 1, h \in 1 .. 2 :
    /\ s.writer[Out(4 * w + 2 * h)] = Kernel(Dft(w, tiles - 1))
    /\ s.reader[Out(4 * w + 2 * h)] = Channel(2 * tiles + firs + (2 * w + h))
FirsLinked(s, tiles, widgets, firs) ==
  \A i \in 0 .. firs - 1 :
    /\ s.writer[In(17 + 2 * i)] = Channel(2 * tiles + (i + 1))
    /\ s.reader[In(17 + 2 * i)] = Kernel(Fir(i))
    /\ s.writer[Out(18 + 2 * i)] = Kernel(Fir(i))
    /\ s.reader[Out(18 + 2 * i)] = Channel(2 * tiles + firs + 2 * widgets + (i + 1))

ChannelizerCounts(s, tiles, widgets, firs) ==
  \A e : IsQueue(tiles, widgets, firs, e) =>
    \A m \in Nat :
      /\ s.put[e][m] = IF IsCascade(tiles, widgets, e) THEN 2 * m ELSE m
      /\ s.taken[e][m] = IF IsCascade(tiles, widgets, e) THEN 2 * m ELSE m
      /\ s.index[e][m] = IF IsCascade(tiles, widgets, e) THEN (m + 1) \div 2 ELSE m

IsChannelizerPlan(s, tiles, widgets, firs) ==
  /\ s.items = 2 * Rounds /\ s.bytes = 65536 /\ s.reps = 1 /\ s.parts = 1
  /\ s.channels = 2 * tiles + firs + 2 * widgets + firs
  /\ SignalsLinked(s, tiles, widgets) /\ CascadesLinked(s, tiles, widgets)
  /\ DftOutsLinked(s, tiles, widgets, firs) /\ FirsLinked(s, tiles, widgets, firs)
  /\ ChannelizerCounts(s, tiles, widgets, firs)

(* The plan of the channelizer, read queue by queue.                       *)
LEMMA ChannelizerPlanIs ==
  ASSUME NEW tiles, NEW widgets, NEW firs, Sizes(tiles, widgets, firs),
         NEW s, s = ChannelizerPlan(tiles, widgets, firs)
  PROVE  IsChannelizerPlan(s, tiles, widgets, firs)
<1> DEFINE queues == DOMAIN ChannelizerGraph(tiles, widgets, firs).capacity
<1>1. tiles \in 2 .. 4 /\ widgets \in 1 .. 4 /\ firs \in 0 .. 8
  BY DEF Sizes
<1>2. \A e : e \in queues <=> IsQueue(tiles, widgets, firs, e)
  BY ChannelizerQueues
<1>3. /\ s.items = 2 * Rounds /\ s.bytes = 65536 /\ s.reps = 1 /\ s.parts = 1
      /\ s.channels = 2 * tiles + firs + 2 * widgets + firs
  BY DEF ChannelizerPlan
<1>4. s.writer = [e \in queues |->
                IF e[1] = "to"
                  THEN Channel(IF e[2] < 17 THEN (e[2] + 1) \div 2
                                            ELSE 2 * tiles + ((e[2] - 15) \div 2))
                ELSE IF e[1] = "acc" THEN Kernel(Dft(e[2], e[3]))
                ELSE IF e[2] < 18 THEN Kernel(Dft((e[2] - 2) \div 4, tiles - 1))
                ELSE Kernel(Fir((e[2] - 18) \div 2))]
  BY DEF ChannelizerPlan
<1>5. s.reader = [e \in queues |->
                IF e[1] = "to"
                  THEN IF e[2] < 17 THEN Kernel(Dft(e[3], e[2] \div 4))
                                    ELSE Kernel(Fir((e[2] - 17) \div 2))
                ELSE IF e[1] = "acc" THEN Kernel(Dft(e[2], e[3] + 1))
                ELSE Channel(2 * tiles + firs +
                               IF e[2] < 18 THEN e[2] \div 2
                                            ELSE 2 * widgets + ((e[2] - 16) \div 2))]
  BY DEF ChannelizerPlan
<1>6. s.put = [e \in queues |-> [m \in Nat |-> IF e[1] = "acc" THEN 2 * m ELSE m]]
  BY DEF ChannelizerPlan
<1>7. s.taken = [e \in queues |-> [m \in Nat |-> IF e[1] = "acc" THEN 2 * m ELSE m]]
  BY DEF ChannelizerPlan
<1>8. s.index = [e \in queues |-> [n \in Nat |-> IF e[1] = "acc" THEN (n + 1) \div 2 ELSE n]]
  BY DEF ChannelizerPlan
<1> HIDE DEF queues
<1>9. SignalsLinked(s, tiles, widgets)
  <2> SUFFICES ASSUME NEW t \in 0 .. tiles - 1, NEW b \in 0 .. 1, NEW w \in 0 .. widgets - 1
               PROVE  /\ s.writer[Signal(2 * t + b, w)] = Channel(2 * t + b + 1)
                      /\ s.reader[Signal(2 * t + b, w)] = Kernel(Dft(w, t))
    BY DEF SignalsLinked
  <2>1. PICK e : e = Signal(2 * t + b, w)
    OBVIOUS
  <2>2. e[1] = "to" /\ e[2] = 2 * (2 * t + b) + 1 /\ e[3] = w
    BY <2>1 DEF Signal
  <2>3. IsSignal(tiles, widgets, e)
    BY <2>1 DEF IsSignal
  <2>4. e \in queues
    BY <1>2, <2>3 DEF IsQueue
  <2>5. e[2] < 17 /\ (e[2] + 1) \div 2 = 2 * t + b + 1 /\ e[2] \div 4 = t
    BY <1>1, <2>2
  <2> QED BY <1>4, <1>5, <2>1, <2>2, <2>4, <2>5
<1>10. CascadesLinked(s, tiles, widgets)
  <2> SUFFICES ASSUME NEW w \in 0 .. widgets - 1, NEW t \in 0 .. tiles - 2
               PROVE  /\ s.writer[Cascade(w, t)] = Kernel(Dft(w, t))
                      /\ s.reader[Cascade(w, t)] = Kernel(Dft(w, t + 1))
    BY DEF CascadesLinked
  <2>1. PICK e : e = Cascade(w, t)
    OBVIOUS
  <2>2. e[1] = "acc" /\ e[2] = w /\ e[3] = t /\ "acc" # "to"
    BY <2>1 DEF Cascade
  <2>3. IsCascade(tiles, widgets, e)
    BY <2>1 DEF IsCascade
  <2>4. e \in queues
    BY <1>2, <2>3 DEF IsQueue
  <2> QED BY <1>4, <1>5, <2>1, <2>2, <2>4
<1>11. DftOutsLinked(s, tiles, widgets, firs)
  <2> SUFFICES ASSUME NEW w \in 0 .. widgets - 1, NEW h \in 1 .. 2
               PROVE  /\ s.writer[Out(4 * w + 2 * h)] = Kernel(Dft(w, tiles - 1))
                      /\ s.reader[Out(4 * w + 2 * h)] = Channel(2 * tiles + firs + (2 * w + h))
    BY DEF DftOutsLinked
  <2>1. PICK e : e = Out(4 * w + 2 * h)
    OBVIOUS
  <2>2. e[1] = "from" /\ e[2] = 4 * w + 2 * h /\ "from" # "to" /\ "from" # "acc"
    BY <2>1 DEF Out
  <2>3. IsDftOut(widgets, e)
    BY <2>1 DEF IsDftOut
  <2>4. e \in queues
    BY <1>2, <2>3 DEF IsQueue
  <2>5. e[2] < 18 /\ (e[2] - 2) \div 4 = w /\ e[2] \div 2 = 2 * w + h
    BY <1>1, <2>2
  <2> QED BY <1>4, <1>5, <2>1, <2>2, <2>4, <2>5
<1>12. FirsLinked(s, tiles, widgets, firs)
  <2> SUFFICES ASSUME NEW i \in 0 .. firs - 1
               PROVE  /\ s.writer[In(17 + 2 * i)] = Channel(2 * tiles + (i + 1))
                      /\ s.reader[In(17 + 2 * i)] = Kernel(Fir(i))
                      /\ s.writer[Out(18 + 2 * i)] = Kernel(Fir(i))
                      /\ s.reader[Out(18 + 2 * i)] = Channel(2 * tiles + firs + 2 * widgets + (i + 1))
    BY DEF FirsLinked
  <2>1. PICK e : e = In(17 + 2 * i)
    OBVIOUS
  <2>2. e[1] = "to" /\ e[2] = 17 + 2 * i
    BY <2>1 DEF In
  <2>3. IsFirIn(firs, e)
    BY <2>1 DEF IsFirIn
  <2>4. e \in queues
    BY <1>2, <2>3 DEF IsQueue
  <2>5. ~(e[2] < 17) /\ (e[2] - 15) \div 2 = i + 1 /\ (e[2] - 17) \div 2 = i
    BY <1>1, <2>2
  <2>6. s.writer[e] = Channel(2 * tiles + (i + 1)) /\ s.reader[e] = Kernel(Fir(i))
    BY <1>4, <1>5, <2>2, <2>4, <2>5
  <2>7. PICK d : d = Out(18 + 2 * i)
    OBVIOUS
  <2>8. d[1] = "from" /\ d[2] = 18 + 2 * i /\ "from" # "to" /\ "from" # "acc"
    BY <2>7 DEF Out
  <2>9. IsFirOut(firs, d)
    BY <2>7 DEF IsFirOut
  <2>10. d \in queues
    BY <1>2, <2>9 DEF IsQueue
  <2>11. ~(d[2] < 18) /\ (d[2] - 18) \div 2 = i /\ (d[2] - 16) \div 2 = i + 1
    BY <1>1, <2>8
  <2>12. s.writer[d] = Kernel(Fir(i))
    BY <1>4, <2>8, <2>10, <2>11
  <2>13. s.reader[d] = Channel(2 * tiles + firs + (2 * widgets + (i + 1)))
    BY <1>5, <2>8, <2>10, <2>11
  <2>14. 2 * tiles + firs + (2 * widgets + (i + 1)) = 2 * tiles + firs + 2 * widgets + (i + 1)
    BY <1>1
  <2> QED BY <2>1, <2>6, <2>7, <2>12, <2>13, <2>14
<1>13. ChannelizerCounts(s, tiles, widgets, firs)
  <2> SUFFICES ASSUME NEW e, IsQueue(tiles, widgets, firs, e), NEW m \in Nat
               PROVE  /\ s.put[e][m] = IF IsCascade(tiles, widgets, e) THEN 2 * m ELSE m
                      /\ s.taken[e][m] = IF IsCascade(tiles, widgets, e) THEN 2 * m ELSE m
                      /\ s.index[e][m] = IF IsCascade(tiles, widgets, e) THEN (m + 1) \div 2 ELSE m
    BY DEF ChannelizerCounts
  <2>1. e[1] = "acc" <=> IsCascade(tiles, widgets, e)
    <3>1. IsCascade(tiles, widgets, e) => e[1] = "acc"
      BY DEF IsCascade, Cascade
    <3>2. /\ IsSignal(tiles, widgets, e) => e[1] # "acc"
          /\ IsFirIn(firs, e) => e[1] # "acc"
          /\ IsDftOut(widgets, e) => e[1] # "acc"
          /\ IsFirOut(firs, e) => e[1] # "acc"
      BY DEF IsSignal, IsFirIn, IsDftOut, IsFirOut, Signal, In, Out
    <3> QED BY <3>1, <3>2 DEF IsQueue
  <2>2. e \in queues
    BY <1>2
  <2> QED BY <1>6, <1>7, <1>8, <2>1, <2>2
<1> QED BY <1>3, <1>9, <1>10, <1>11, <1>12, <1>13 DEF IsChannelizerPlan

(* The actors of the channelizer.                                          *)
LEMMA ChannelizerActorsDiffer ==
  /\ \A w, t, v, u : Kernel(Dft(w, t)) = Kernel(Dft(v, u)) => w = v /\ t = u
  /\ \A w, t, i : Kernel(Dft(w, t)) # Kernel(Fir(i))
  /\ \A i, j : Kernel(Fir(i)) = Kernel(Fir(j)) => i = j
  /\ \A w, t, i : Kernel(Dft(w, t)) # Channel(i)
  /\ \A i, j : Kernel(Fir(i)) # Channel(j)
  /\ \A i, j : Channel(i) = Channel(j) => i = j
BY DEF Kernel, Channel, Dft, Fir

(* The queues of a tile, of a filter and of a channel.                     *)
LEMMA TileReads ==
  ASSUME NEW tiles, NEW widgets, NEW firs, Sizes(tiles, widgets, firs),
         NEW s, IsChannelizerPlan(s, tiles, widgets, firs),
         NEW w \in 0 .. widgets - 1, NEW t \in 0 .. tiles - 1,
         NEW e, IsQueue(tiles, widgets, firs, e)
  PROVE  s.reader[e] = Kernel(Dft(w, t)) <=>
           e \in TileSignals(w, t) \/ (t # 0 /\ e = Cascade(w, t - 1))
<1>1. tiles \in 2 .. 4 /\ widgets \in 1 .. 4 /\ firs \in 0 .. 8
  BY DEF Sizes
<1>2. TileSignals(w, t) = {Signal(2 * t, w), Signal(2 * t + 1, w)}
  BY DEF TileSignals
<1>3. CASE IsSignal(tiles, widgets, e)
  <2>1. PICK u \in 0 .. tiles - 1, b \in 0 .. 1, v \in 0 .. widgets - 1 : e = Signal(2 * u + b, v)
    BY <1>3 DEF IsSignal
  <2>2. s.reader[e] = Kernel(Dft(v, u))
    BY <2>1 DEF IsChannelizerPlan, SignalsLinked
  <2>3. e # Cascade(w, t - 1)
    BY <2>1, ChannelizerQueuesDiffer
  <2>4. ASSUME s.reader[e] = Kernel(Dft(w, t)) PROVE e \in TileSignals(w, t)
    <3>0. Kernel(Dft(v, u)) = Kernel(Dft(w, t))
      BY <2>2, <2>4
    <3>1. v = w /\ u = t
      BY <3>0, ChannelizerActorsDiffer
    <3>2. 2 * u + b = 2 * t \/ 2 * u + b = 2 * t + 1
      BY <1>1, <3>1
    <3> QED BY <1>2, <2>1, <3>1, <3>2
  <2>5. ASSUME e \in TileSignals(w, t) PROVE s.reader[e] = Kernel(Dft(w, t))
    <3>1. PICK c \in 0 .. 1 : e = Signal(2 * t + c, w)
      <4>1. 2 * t + 0 = 2 * t
        BY <1>1
      <4> QED BY <1>2, <2>5, <4>1
    <3> QED BY <3>1 DEF IsChannelizerPlan, SignalsLinked
  <2> QED BY <2>3, <2>4, <2>5
<1>4. CASE IsCascade(tiles, widgets, e)
  <2>1. PICK v \in 0 .. widgets - 1, u \in 0 .. tiles - 2 : e = Cascade(v, u)
    BY <1>4 DEF IsCascade
  <2>2. s.reader[e] = Kernel(Dft(v, u + 1))
    BY <2>1 DEF IsChannelizerPlan, CascadesLinked
  <2>3. e \notin TileSignals(w, t)
    BY <1>2, <2>1, ChannelizerQueuesDiffer
  <2>4. s.reader[e] = Kernel(Dft(w, t)) <=> v = w /\ u + 1 = t
    BY <2>2, ChannelizerActorsDiffer
  <2>5. e = Cascade(w, t - 1) <=> v = w /\ u = t - 1
    BY <2>1, ChannelizerQueuesDiffer
  <2>6. u + 1 = t <=> t # 0 /\ u = t - 1
    BY <1>1
  <2> QED BY <2>3, <2>4, <2>5, <2>6
<1>5. CASE IsFirIn(firs, e)
  <2>1. PICK i \in 0 .. firs - 1 : e = In(17 + 2 * i)
    BY <1>5 DEF IsFirIn
  <2>2. s.reader[e] = Kernel(Fir(i))
    BY <2>1 DEF IsChannelizerPlan, FirsLinked
  <2>3. /\ 2 * (2 * t) + 1 # 17 + 2 * i /\ 2 * (2 * t + 1) + 1 # 17 + 2 * i
    BY <1>1
  <2>4. e \notin TileSignals(w, t) /\ e # Cascade(w, t - 1)
    BY <1>2, <2>1, <2>3, ChannelizerQueuesDiffer
  <2> QED BY <2>2, <2>4, ChannelizerActorsDiffer
<1>6. CASE IsDftOut(widgets, e)
  <2>1. PICK v \in 0 .. widgets - 1, h \in 1 .. 2 : e = Out(4 * v + 2 * h)
    BY <1>6 DEF IsDftOut
  <2>2. s.reader[e] = Channel(2 * tiles + firs + (2 * v + h))
    BY <2>1 DEF IsChannelizerPlan, DftOutsLinked
  <2>3. e \notin TileSignals(w, t) /\ e # Cascade(w, t - 1)
    BY <1>2, <2>1, ChannelizerQueuesDiffer
  <2> QED BY <2>2, <2>3, ChannelizerActorsDiffer
<1>7. CASE IsFirOut(firs, e)
  <2>1. PICK i \in 0 .. firs - 1 : e = Out(18 + 2 * i)
    BY <1>7 DEF IsFirOut
  <2>2. s.reader[e] = Channel(2 * tiles + firs + 2 * widgets + (i + 1))
    BY <2>1 DEF IsChannelizerPlan, FirsLinked
  <2>3. e \notin TileSignals(w, t) /\ e # Cascade(w, t - 1)
    BY <1>2, <2>1, ChannelizerQueuesDiffer
  <2> QED BY <2>2, <2>3, ChannelizerActorsDiffer
<1> QED BY <1>3, <1>4, <1>5, <1>6, <1>7 DEF IsQueue

(* The queues a tile writes.                                               *)
LEMMA TileWrites ==
  ASSUME NEW tiles, NEW widgets, NEW firs, Sizes(tiles, widgets, firs),
         NEW s, IsChannelizerPlan(s, tiles, widgets, firs),
         NEW w \in 0 .. widgets - 1, NEW t \in 0 .. tiles - 1,
         NEW e, IsQueue(tiles, widgets, firs, e)
  PROVE  s.writer[e] = Kernel(Dft(w, t)) <=>
           \/ t # tiles - 1 /\ e = Cascade(w, t)
           \/ t = tiles - 1 /\ (e = Out(4 * w + 2) \/ e = Out(4 * w + 4))
<1>1. tiles \in 2 .. 4 /\ widgets \in 1 .. 4 /\ firs \in 0 .. 8
  BY DEF Sizes
<1>2. CASE IsSignal(tiles, widgets, e)
  <2>1. PICK u \in 0 .. tiles - 1, b \in 0 .. 1, v \in 0 .. widgets - 1 : e = Signal(2 * u + b, v)
    BY <1>2 DEF IsSignal
  <2>2. s.writer[e] = Channel(2 * u + b + 1)
    BY <2>1 DEF IsChannelizerPlan, SignalsLinked
  <2>3. e # Cascade(w, t) /\ e # Out(4 * w + 2) /\ e # Out(4 * w + 4)
    BY <2>1, ChannelizerQueuesDiffer
  <2> QED BY <2>2, <2>3, ChannelizerActorsDiffer
<1>3. CASE IsCascade(tiles, widgets, e)
  <2>1. PICK v \in 0 .. widgets - 1, u \in 0 .. tiles - 2 : e = Cascade(v, u)
    BY <1>3 DEF IsCascade
  <2>2. s.writer[e] = Kernel(Dft(v, u))
    BY <2>1 DEF IsChannelizerPlan, CascadesLinked
  <2>3. e # Out(4 * w + 2) /\ e # Out(4 * w + 4)
    BY <2>1, ChannelizerQueuesDiffer
  <2>4. s.writer[e] = Kernel(Dft(w, t)) <=> v = w /\ u = t
    BY <2>2, ChannelizerActorsDiffer
  <2>5. e = Cascade(w, t) <=> v = w /\ u = t
    BY <2>1, ChannelizerQueuesDiffer
  <2>6. u # tiles - 1
    BY <1>1
  <2> QED BY <2>3, <2>4, <2>5, <2>6
<1>4. CASE IsFirIn(firs, e)
  <2>1. PICK i \in 0 .. firs - 1 : e = In(17 + 2 * i)
    BY <1>4 DEF IsFirIn
  <2>2. s.writer[e] = Channel(2 * tiles + (i + 1))
    BY <2>1 DEF IsChannelizerPlan, FirsLinked
  <2>3. e # Cascade(w, t) /\ e # Out(4 * w + 2) /\ e # Out(4 * w + 4)
    BY <2>1, ChannelizerQueuesDiffer
  <2> QED BY <2>2, <2>3, ChannelizerActorsDiffer
<1>5. CASE IsDftOut(widgets, e)
  <2>1. PICK v \in 0 .. widgets - 1, h \in 1 .. 2 : e = Out(4 * v + 2 * h)
    BY <1>5 DEF IsDftOut
  <2>2. s.writer[e] = Kernel(Dft(v, tiles - 1))
    BY <2>1 DEF IsChannelizerPlan, DftOutsLinked
  <2>3. e # Cascade(w, t)
    BY <2>1, ChannelizerQueuesDiffer
  <2>4. s.writer[e] = Kernel(Dft(w, t)) <=> v = w /\ t = tiles - 1
    BY <2>2, ChannelizerActorsDiffer
  <2>5. e = Out(4 * w + 2) <=> 4 * v + 2 * h = 4 * w + 2
    BY <2>1, ChannelizerQueuesDiffer
  <2>6. e = Out(4 * w + 4) <=> 4 * v + 2 * h = 4 * w + 4
    BY <2>1, ChannelizerQueuesDiffer
  <2>7. v = w <=> 4 * v + 2 * h = 4 * w + 2 \/ 4 * v + 2 * h = 4 * w + 4
    BY <1>1
  <2> QED BY <2>3, <2>4, <2>5, <2>6, <2>7
<1>6. CASE IsFirOut(firs, e)
  <2>1. PICK i \in 0 .. firs - 1 : e = Out(18 + 2 * i)
    BY <1>6 DEF IsFirOut
  <2>2. s.writer[e] = Kernel(Fir(i))
    BY <2>1 DEF IsChannelizerPlan, FirsLinked
  <2>3. 18 + 2 * i # 4 * w + 2 /\ 18 + 2 * i # 4 * w + 4
    BY <1>1
  <2>4. e # Cascade(w, t) /\ e # Out(4 * w + 2) /\ e # Out(4 * w + 4)
    BY <2>1, <2>3, ChannelizerQueuesDiffer
  <2> QED BY <2>2, <2>4, ChannelizerActorsDiffer
<1> QED BY <1>2, <1>3, <1>4, <1>5, <1>6 DEF IsQueue

(* The queues of a filter.                                                 *)
LEMMA FirReadsAndWrites ==
  ASSUME NEW tiles, NEW widgets, NEW firs, Sizes(tiles, widgets, firs),
         NEW s, IsChannelizerPlan(s, tiles, widgets, firs),
         NEW i \in 0 .. firs - 1,
         NEW e, IsQueue(tiles, widgets, firs, e)
  PROVE  /\ s.reader[e] = Kernel(Fir(i)) <=> e = In(17 + 2 * i)
         /\ s.writer[e] = Kernel(Fir(i)) <=> e = Out(18 + 2 * i)
<1>1. s.reader[In(17 + 2 * i)] = Kernel(Fir(i)) /\ s.writer[Out(18 + 2 * i)] = Kernel(Fir(i))
  BY DEF IsChannelizerPlan, FirsLinked
<1>2. CASE IsSignal(tiles, widgets, e)
  <2>1. PICK u \in 0 .. tiles - 1, b \in 0 .. 1, v \in 0 .. widgets - 1 : e = Signal(2 * u + b, v)
    BY <1>2 DEF IsSignal
  <2>2. s.reader[e] = Kernel(Dft(v, u)) /\ s.writer[e] = Channel(2 * u + b + 1)
    BY <2>1 DEF IsChannelizerPlan, SignalsLinked
  <2>3. s.reader[e] # Kernel(Fir(i)) /\ s.writer[e] # Kernel(Fir(i))
    BY <2>2, ChannelizerActorsDiffer
  <2> QED BY <1>1, <2>3
<1>3. CASE IsCascade(tiles, widgets, e)
  <2>1. PICK v \in 0 .. widgets - 1, u \in 0 .. tiles - 2 : e = Cascade(v, u)
    BY <1>3 DEF IsCascade
  <2>2. s.reader[e] = Kernel(Dft(v, u + 1)) /\ s.writer[e] = Kernel(Dft(v, u))
    BY <2>1 DEF IsChannelizerPlan, CascadesLinked
  <2>3. s.reader[e] # Kernel(Fir(i)) /\ s.writer[e] # Kernel(Fir(i))
    BY <2>2, ChannelizerActorsDiffer
  <2> QED BY <1>1, <2>3
<1>4. CASE IsDftOut(widgets, e)
  <2>1. PICK v \in 0 .. widgets - 1, h \in 1 .. 2 : e = Out(4 * v + 2 * h)
    BY <1>4 DEF IsDftOut
  <2>2. /\ s.reader[e] = Channel(2 * tiles + firs + (2 * v + h))
        /\ s.writer[e] = Kernel(Dft(v, tiles - 1))
    BY <2>1 DEF IsChannelizerPlan, DftOutsLinked
  <2>3. s.reader[e] # Kernel(Fir(i)) /\ s.writer[e] # Kernel(Fir(i))
    BY <2>2, ChannelizerActorsDiffer
  <2> QED BY <1>1, <2>3
<1>5. CASE IsFirIn(firs, e)
  <2>1. PICK j \in 0 .. firs - 1 : e = In(17 + 2 * j)
    BY <1>5 DEF IsFirIn
  <2>2. s.reader[e] = Kernel(Fir(j)) /\ s.writer[e] = Channel(2 * tiles + (j + 1))
    BY <2>1 DEF IsChannelizerPlan, FirsLinked
  <2>3. s.writer[e] # Kernel(Fir(i))
    BY <2>2, ChannelizerActorsDiffer
  <2>4. s.reader[e] = Kernel(Fir(i)) => j = i
    BY <2>2, ChannelizerActorsDiffer
  <2> QED BY <1>1, <2>1, <2>3, <2>4
<1>6. CASE IsFirOut(firs, e)
  <2>1. PICK j \in 0 .. firs - 1 : e = Out(18 + 2 * j)
    BY <1>6 DEF IsFirOut
  <2>2. /\ s.reader[e] = Channel(2 * tiles + firs + 2 * widgets + (j + 1))
        /\ s.writer[e] = Kernel(Fir(j))
    BY <2>1 DEF IsChannelizerPlan, FirsLinked
  <2>3. s.reader[e] # Kernel(Fir(i))
    BY <2>2, ChannelizerActorsDiffer
  <2>4. s.writer[e] = Kernel(Fir(i)) => j = i
    BY <2>2, ChannelizerActorsDiffer
  <2> QED BY <1>1, <2>1, <2>3, <2>4
<1> QED BY <1>2, <1>3, <1>4, <1>5, <1>6 DEF IsQueue

(* Which queues a channel feeds and which it empties.                      *)
FeedsQueue(tiles, widgets, firs, i, e) ==
  \/ \E t \in 0 .. tiles - 1, b \in 0 .. 1, w \in 0 .. widgets - 1 :
       i = 2 * t + b + 1 /\ e = Signal(2 * t + b, w)
  \/ \E j \in 0 .. firs - 1 : i = 2 * tiles + (j + 1) /\ e = In(17 + 2 * j)

EmptiesQueue(tiles, widgets, firs, i, e) ==
  \/ \E w \in 0 .. widgets - 1, h \in 1 .. 2 :
       i = 2 * tiles + firs + (2 * w + h) /\ e = Out(4 * w + 2 * h)
  \/ \E j \in 0 .. firs - 1 :
       i = 2 * tiles + firs + 2 * widgets + (j + 1) /\ e = Out(18 + 2 * j)

(* The queues a channel feeds or empties, in the plan.                     *)
LEMMA ChannelsLinked ==
  ASSUME NEW tiles, NEW widgets, NEW firs, Sizes(tiles, widgets, firs),
         NEW s, IsChannelizerPlan(s, tiles, widgets, firs), NEW i,
         NEW e, IsQueue(tiles, widgets, firs, e)
  PROVE  /\ s.writer[e] = Channel(i) <=> FeedsQueue(tiles, widgets, firs, i, e)
         /\ s.reader[e] = Channel(i) <=> EmptiesQueue(tiles, widgets, firs, i, e)
<1>1. FeedsQueue(tiles, widgets, firs, i, e) => s.writer[e] = Channel(i)
  <2>1. ASSUME NEW t \in 0 .. tiles - 1, NEW b \in 0 .. 1, NEW w \in 0 .. widgets - 1,
               i = 2 * t + b + 1, e = Signal(2 * t + b, w)
        PROVE  s.writer[e] = Channel(i)
    BY <2>1 DEF IsChannelizerPlan, SignalsLinked
  <2>2. ASSUME NEW j \in 0 .. firs - 1, i = 2 * tiles + (j + 1), e = In(17 + 2 * j)
        PROVE  s.writer[e] = Channel(i)
    BY <2>2 DEF IsChannelizerPlan, FirsLinked
  <2> QED BY <2>1, <2>2 DEF FeedsQueue
<1>2. EmptiesQueue(tiles, widgets, firs, i, e) => s.reader[e] = Channel(i)
  <2>1. ASSUME NEW w \in 0 .. widgets - 1, NEW h \in 1 .. 2,
               i = 2 * tiles + firs + (2 * w + h), e = Out(4 * w + 2 * h)
        PROVE  s.reader[e] = Channel(i)
    BY <2>1 DEF IsChannelizerPlan, DftOutsLinked
  <2>2. ASSUME NEW j \in 0 .. firs - 1,
               i = 2 * tiles + firs + 2 * widgets + (j + 1), e = Out(18 + 2 * j)
        PROVE  s.reader[e] = Channel(i)
    BY <2>2 DEF IsChannelizerPlan, FirsLinked
  <2> QED BY <2>1, <2>2 DEF EmptiesQueue
<1>3. CASE IsSignal(tiles, widgets, e)
  <2>1. PICK u \in 0 .. tiles - 1, b \in 0 .. 1, v \in 0 .. widgets - 1 : e = Signal(2 * u + b, v)
    BY <1>3 DEF IsSignal
  <2>2. s.reader[e] = Kernel(Dft(v, u)) /\ s.writer[e] = Channel(2 * u + b + 1)
    BY <2>1 DEF IsChannelizerPlan, SignalsLinked
  <2>3. s.reader[e] # Channel(i)
    BY <2>2, ChannelizerActorsDiffer
  <2>4. s.writer[e] = Channel(i) => i = 2 * u + b + 1
    BY <2>2, ChannelizerActorsDiffer
  <2>5. s.writer[e] = Channel(i) => FeedsQueue(tiles, widgets, firs, i, e)
    BY <2>1, <2>4 DEF FeedsQueue
  <2> QED BY <1>1, <1>2, <2>3, <2>5
<1>4. CASE IsCascade(tiles, widgets, e)
  <2>1. PICK v \in 0 .. widgets - 1, u \in 0 .. tiles - 2 : e = Cascade(v, u)
    BY <1>4 DEF IsCascade
  <2>2. s.reader[e] = Kernel(Dft(v, u + 1)) /\ s.writer[e] = Kernel(Dft(v, u))
    BY <2>1 DEF IsChannelizerPlan, CascadesLinked
  <2>3. s.reader[e] # Channel(i) /\ s.writer[e] # Channel(i)
    BY <2>2, ChannelizerActorsDiffer
  <2> QED BY <1>1, <1>2, <2>3
<1>5. CASE IsDftOut(widgets, e)
  <2>1. PICK v \in 0 .. widgets - 1, h \in 1 .. 2 : e = Out(4 * v + 2 * h)
    BY <1>5 DEF IsDftOut
  <2>2. /\ s.reader[e] = Channel(2 * tiles + firs + (2 * v + h))
        /\ s.writer[e] = Kernel(Dft(v, tiles - 1))
    BY <2>1 DEF IsChannelizerPlan, DftOutsLinked
  <2>3. s.writer[e] # Channel(i)
    BY <2>2, ChannelizerActorsDiffer
  <2>4. s.reader[e] = Channel(i) => i = 2 * tiles + firs + (2 * v + h)
    BY <2>2, ChannelizerActorsDiffer
  <2>5. s.reader[e] = Channel(i) => EmptiesQueue(tiles, widgets, firs, i, e)
    BY <2>1, <2>4 DEF EmptiesQueue
  <2> QED BY <1>1, <1>2, <2>3, <2>5
<1>6. CASE IsFirIn(firs, e)
  <2>1. PICK j \in 0 .. firs - 1 : e = In(17 + 2 * j)
    BY <1>6 DEF IsFirIn
  <2>2. s.reader[e] = Kernel(Fir(j)) /\ s.writer[e] = Channel(2 * tiles + (j + 1))
    BY <2>1 DEF IsChannelizerPlan, FirsLinked
  <2>3. s.reader[e] # Channel(i)
    BY <2>2, ChannelizerActorsDiffer
  <2>4. s.writer[e] = Channel(i) => i = 2 * tiles + (j + 1)
    BY <2>2, ChannelizerActorsDiffer
  <2>5. s.writer[e] = Channel(i) => FeedsQueue(tiles, widgets, firs, i, e)
    BY <2>1, <2>4 DEF FeedsQueue
  <2> QED BY <1>1, <1>2, <2>3, <2>5
<1>7. CASE IsFirOut(firs, e)
  <2>1. PICK j \in 0 .. firs - 1 : e = Out(18 + 2 * j)
    BY <1>7 DEF IsFirOut
  <2>2. /\ s.reader[e] = Channel(2 * tiles + firs + 2 * widgets + (j + 1))
        /\ s.writer[e] = Kernel(Fir(j))
    BY <2>1 DEF IsChannelizerPlan, FirsLinked
  <2>3. s.writer[e] # Channel(i)
    BY <2>2, ChannelizerActorsDiffer
  <2>4. s.reader[e] = Channel(i) => i = 2 * tiles + firs + 2 * widgets + (j + 1)
    BY <2>2, ChannelizerActorsDiffer
  <2>5. s.reader[e] = Channel(i) => EmptiesQueue(tiles, widgets, firs, i, e)
    BY <2>1, <2>4 DEF EmptiesQueue
  <2> QED BY <1>1, <1>2, <2>3, <2>5
<1> QED BY <1>3, <1>4, <1>5, <1>6, <1>7 DEF IsQueue

(* The arguments of the only transaction.                                  *)
IsJoined(q, f, m, h, n, S) ==
  /\ q \in [1 .. m + n -> S]
  /\ \A i \in 1 .. m : q[i] = f[i]
  /\ \A i \in 1 .. n : q[m + i] = h[i]

(* The parts of two sequences one after the other.                         *)
LEMMA Joined ==
  ASSUME NEW m \in Nat, NEW n \in Nat, NEW S, NEW f \in [1 .. m -> S], NEW h \in [1 .. n -> S],
         NEW q, q = f \o h
  PROVE  IsJoined(q, f, m, h, n, S)
<1>1. f \in Seq(S) /\ Len(f) = m
  OBVIOUS
<1>2. h \in Seq(S) /\ Len(h) = n
  OBVIOUS
<1>3. f \o h \in Seq(S) /\ Len(f \o h) = m + n
  BY <1>1, <1>2, ConcatProperties
<1>4. \A i \in 1 .. m + n : (f \o h)[i] = IF i <= m THEN f[i] ELSE h[i - m]
  BY <1>1, <1>2, ConcatProperties
<1>5. \A i \in 1 .. m : (f \o h)[i] = f[i]
  BY <1>4
<1>6. \A i \in 1 .. n : (f \o h)[m + i] = h[i]
  BY <1>4
<1>7. f \o h \in [1 .. m + n -> S]
  <2>1. PICK z : z = f \o h
    OBVIOUS
  <2>2. z \in Seq(S) /\ Len(z) = m + n
    BY <1>3, <2>1
  <2>3. z \in [1 .. m + n -> S]
    BY <2>2
  <2> QED BY <2>1, <2>3
<1> QED BY <1>5, <1>6, <1>7 DEF IsJoined

ChannelizerArg(dir, plio, buf) == Arg(dir, plio, 2 * Rounds, 65536, 1, buf)

AreChannelizerArgs(args, tiles, widgets, firs) ==
  /\ DOMAIN args = 1 .. 2 * tiles + firs + 2 * widgets + firs
  /\ \A i \in 1 .. 2 * tiles : args[i] = ChannelizerArg("to", 2 * i - 1, <<"in_dft", i>>)
  /\ \A i \in 1 .. firs :
       args[2 * tiles + i] = ChannelizerArg("to", 15 + 2 * i, <<"in_fir", i>>)
  /\ \A i \in 1 .. 2 * widgets :
       args[2 * tiles + firs + i] = ChannelizerArg("from", 2 * i, <<"out_dft", i>>)
  /\ \A i \in 1 .. firs :
       args[2 * tiles + firs + 2 * widgets + i] =
         ChannelizerArg("from", 16 + 2 * i, <<"out_fir", i>>)

(* The arguments of the channelizer, in four groups.                       *)
LEMMA ChannelizerArgsAre ==
  ASSUME NEW tiles, NEW widgets, NEW firs, Sizes(tiles, widgets, firs)
  PROVE  AreChannelizerArgs(ChannelizerArgs(tiles, widgets, firs), tiles, widgets, firs)
<1> DEFINE a == [i \in 1 .. 2 * tiles |-> ChannelizerArg("to", 2 * i - 1, <<"in_dft", i>>)]
           b == [i \in 1 .. firs |-> ChannelizerArg("to", 15 + 2 * i, <<"in_fir", i>>)]
           c == [i \in 1 .. 2 * widgets |-> ChannelizerArg("from", 2 * i, <<"out_dft", i>>)]
           d == [i \in 1 .. firs |-> ChannelizerArg("from", 16 + 2 * i, <<"out_fir", i>>)]
           args == ChannelizerArgs(tiles, widgets, firs)
           S == {a[i] : i \in 1 .. 2 * tiles} \cup {b[i] : i \in 1 .. firs}
                  \cup {c[i] : i \in 1 .. 2 * widgets} \cup {d[i] : i \in 1 .. firs}
<1>1. 2 * tiles \in Nat /\ 2 * widgets \in Nat /\ firs \in Nat
  BY DEF Sizes
<1>2. args = a \o b \o c \o d
  <2>1. 4096 * 16 = 65536
    OBVIOUS
  <2> QED BY <2>1 DEF ChannelizerArgs, ChannelizerArg
<1>3. /\ a \in [1 .. 2 * tiles -> S] /\ b \in [1 .. firs -> S]
      /\ c \in [1 .. 2 * widgets -> S] /\ d \in [1 .. firs -> S]
  OBVIOUS
<1>4. /\ \A i \in 1 .. 2 * tiles : a[i] = ChannelizerArg("to", 2 * i - 1, <<"in_dft", i>>)
      /\ \A i \in 1 .. firs : b[i] = ChannelizerArg("to", 15 + 2 * i, <<"in_fir", i>>)
      /\ \A i \in 1 .. 2 * widgets : c[i] = ChannelizerArg("from", 2 * i, <<"out_dft", i>>)
      /\ \A i \in 1 .. firs : d[i] = ChannelizerArg("from", 16 + 2 * i, <<"out_fir", i>>)
  OBVIOUS
<1> HIDE DEF a, b, c, d, S, args
<1>5. PICK ab : ab = a \o b
  OBVIOUS
<1>6. IsJoined(ab, a, 2 * tiles, b, firs, S)
  BY <1>1, <1>3, <1>5, Joined
<1>7. 2 * tiles + firs \in Nat /\ ab \in [1 .. 2 * tiles + firs -> S]
  BY <1>1, <1>6 DEF IsJoined
<1>8. PICK abc : abc = ab \o c
  OBVIOUS
<1>9. IsJoined(abc, ab, 2 * tiles + firs, c, 2 * widgets, S)
  BY <1>1, <1>3, <1>7, <1>8, Joined
<1>10. /\ 2 * tiles + firs + 2 * widgets \in Nat
       /\ abc \in [1 .. 2 * tiles + firs + 2 * widgets -> S]
  BY <1>1, <1>9 DEF IsJoined
<1>11. args = abc \o d
  BY <1>2, <1>5, <1>8
<1>12. IsJoined(args, abc, 2 * tiles + firs + 2 * widgets, d, firs, S)
  BY <1>1, <1>3, <1>10, <1>11, Joined
<1>13. \A i \in 1 .. 2 * tiles : args[i] = a[i]
  <2> TAKE i \in 1 .. 2 * tiles
  <2>1. i \in 1 .. 2 * tiles + firs /\ i \in 1 .. 2 * tiles + firs + 2 * widgets
    BY <1>1
  <2> QED BY <1>6, <1>9, <1>12, <2>1 DEF IsJoined
<1>14. \A i \in 1 .. firs : args[2 * tiles + i] = b[i]
  <2> TAKE i \in 1 .. firs
  <2>1. 2 * tiles + i \in 1 .. 2 * tiles + firs /\ 2 * tiles + i \in 1 .. 2 * tiles + firs + 2 * widgets
    BY <1>1
  <2> QED BY <1>6, <1>9, <1>12, <2>1 DEF IsJoined
<1>15. \A i \in 1 .. 2 * widgets : args[2 * tiles + firs + i] = c[i]
  <2> TAKE i \in 1 .. 2 * widgets
  <2>1. 2 * tiles + firs + i \in 1 .. 2 * tiles + firs + 2 * widgets
    BY <1>1
  <2> QED BY <1>9, <1>12, <2>1 DEF IsJoined
<1>16. \A i \in 1 .. firs : args[2 * tiles + firs + 2 * widgets + i] = d[i]
  BY <1>12 DEF IsJoined
<1>17. DOMAIN args = 1 .. 2 * tiles + firs + 2 * widgets + firs
  BY <1>12 DEF IsJoined
<1>18. AreChannelizerArgs(args, tiles, widgets, firs)
  BY <1>4, <1>13, <1>14, <1>15, <1>16, <1>17 DEF AreChannelizerArgs
<1> QED BY <1>18 DEF args

(* Every place in the order of the channels is one of the four kinds.      *)
LEMMA ChannelKinds ==
  ASSUME NEW tiles, NEW widgets, NEW firs, Sizes(tiles, widgets, firs),
         NEW i \in 1 .. 2 * tiles + firs + 2 * widgets + firs
  PROVE  \/ i \in 1 .. 2 * tiles
         \/ \E j \in 1 .. firs : i = 2 * tiles + j
         \/ \E j \in 1 .. 2 * widgets : i = 2 * tiles + firs + j
         \/ \E j \in 1 .. firs : i = 2 * tiles + firs + 2 * widgets + j
<1>1. tiles \in 2 .. 4 /\ widgets \in 1 .. 4 /\ firs \in 0 .. 8
  BY DEF Sizes
<1>2. CASE i <= 2 * tiles
  BY <1>1, <1>2
<1>3. CASE 2 * tiles < i /\ i <= 2 * tiles + firs
  <2>1. PICK j : j = i - 2 * tiles
    OBVIOUS
  <2>2. j \in 1 .. firs /\ i = 2 * tiles + j
    BY <1>1, <1>3, <2>1
  <2> QED BY <2>2
<1>4. CASE 2 * tiles + firs < i /\ i <= 2 * tiles + firs + 2 * widgets
  <2>1. PICK j : j = i - (2 * tiles + firs)
    OBVIOUS
  <2>2. j \in 1 .. 2 * widgets /\ i = 2 * tiles + firs + j
    BY <1>1, <1>4, <2>1
  <2> QED BY <2>2
<1>5. CASE 2 * tiles + firs + 2 * widgets < i
  <2>1. PICK j : j = i - (2 * tiles + firs + 2 * widgets)
    OBVIOUS
  <2>2. j \in 1 .. firs /\ i = 2 * tiles + firs + 2 * widgets + j
    BY <1>1, <1>5, <2>1
  <2> QED BY <2>2
<1> QED BY <1>1, <1>2, <1>3, <1>4, <1>5

(* What a channel feeds or empties by the ports it is wired to.            *)
ChannelizerSides(s, tiles, widgets, firs) ==
  /\ \A i \in 1 .. 2 * tiles : s.dirs[i] = "to" /\ s.ports[i] = 2 * i - 1
  /\ \A j \in 1 .. firs :
       s.dirs[2 * tiles + j] = "to" /\ s.ports[2 * tiles + j] = 15 + 2 * j
  /\ \A j \in 1 .. 2 * widgets :
       s.dirs[2 * tiles + firs + j] = "from" /\ s.ports[2 * tiles + firs + j] = 2 * j
  /\ \A j \in 1 .. firs :
       /\ s.dirs[2 * tiles + firs + 2 * widgets + j] = "from"
       /\ s.ports[2 * tiles + firs + 2 * widgets + j] = 16 + 2 * j

(* Their directions and ports.                                             *)
LEMMA ChannelizerSidesAre ==
  ASSUME NEW tiles, NEW widgets, NEW firs, Sizes(tiles, widgets, firs),
         NEW s, s = ChannelizerPlan(tiles, widgets, firs)
  PROVE  /\ ChannelizerSides(s, tiles, widgets, firs)
         /\ s.dirs \in [1 .. s.channels -> {"to", "from"}]
         /\ s.ports \in [1 .. s.channels -> Nat]
<1> DEFINE channels == 2 * tiles + firs + 2 * widgets + firs
<1>1. tiles \in 2 .. 4 /\ widgets \in 1 .. 4 /\ firs \in 0 .. 8
  BY DEF Sizes
<1>2. PICK args : args = ChannelizerArgs(tiles, widgets, firs)
  OBVIOUS
<1>3. AreChannelizerArgs(args, tiles, widgets, firs)
  BY <1>2, ChannelizerArgsAre
<1>4. /\ s.channels = channels
      /\ s.dirs = [i \in 1 .. channels |-> args[i].dir]
      /\ s.ports = [i \in 1 .. channels |-> args[i].plio]
  BY <1>2 DEF ChannelizerPlan
<1>5. \A dir, plio, buf : /\ ChannelizerArg(dir, plio, buf).dir = dir
                          /\ ChannelizerArg(dir, plio, buf).plio = plio
  BY DEF ChannelizerArg, Arg
<1>6. \A i \in 1 .. 2 * tiles : s.dirs[i] = "to" /\ s.ports[i] = 2 * i - 1
  <2> TAKE i \in 1 .. 2 * tiles
  <2>1. i \in 1 .. channels
    BY <1>1
  <2>2. args[i] = ChannelizerArg("to", 2 * i - 1, <<"in_dft", i>>)
    BY <1>3 DEF AreChannelizerArgs
  <2> HIDE DEF channels
  <2> QED BY <1>4, <1>5, <2>1, <2>2
<1>7. \A j \in 1 .. firs : s.dirs[2 * tiles + j] = "to" /\ s.ports[2 * tiles + j] = 15 + 2 * j
  <2> TAKE j \in 1 .. firs
  <2>0. PICK i : i = 2 * tiles + j
    OBVIOUS
  <2>1. i \in 1 .. channels
    BY <1>1, <2>0
  <2>2. args[i] = ChannelizerArg("to", 15 + 2 * j, <<"in_fir", j>>)
    BY <1>3, <2>0 DEF AreChannelizerArgs
  <2> HIDE DEF channels
  <2> QED BY <1>4, <1>5, <2>0, <2>1, <2>2
<1>8. \A j \in 1 .. 2 * widgets :
        s.dirs[2 * tiles + firs + j] = "from" /\ s.ports[2 * tiles + firs + j] = 2 * j
  <2> TAKE j \in 1 .. 2 * widgets
  <2>0. PICK i : i = 2 * tiles + firs + j
    OBVIOUS
  <2>1. i \in 1 .. channels
    BY <1>1, <2>0
  <2>2. args[i] = ChannelizerArg("from", 2 * j, <<"out_dft", j>>)
    BY <1>3, <2>0 DEF AreChannelizerArgs
  <2> HIDE DEF channels
  <2> QED BY <1>4, <1>5, <2>0, <2>1, <2>2
<1>9. \A j \in 1 .. firs :
        /\ s.dirs[2 * tiles + firs + 2 * widgets + j] = "from"
        /\ s.ports[2 * tiles + firs + 2 * widgets + j] = 16 + 2 * j
  <2> TAKE j \in 1 .. firs
  <2>0. PICK i : i = 2 * tiles + firs + 2 * widgets + j
    OBVIOUS
  <2>1. i \in 1 .. channels
    BY <1>1, <2>0
  <2>2. args[i] = ChannelizerArg("from", 16 + 2 * j, <<"out_fir", j>>)
    BY <1>3, <2>0 DEF AreChannelizerArgs
  <2> HIDE DEF channels
  <2> QED BY <1>4, <1>5, <2>0, <2>1, <2>2
<1>10. \A i \in 1 .. channels : s.dirs[i] \in {"to", "from"} /\ s.ports[i] \in Nat
  <2> TAKE i \in 1 .. channels
  <2>1. CASE i \in 1 .. 2 * tiles
    BY <1>6, <2>1
  <2>2. CASE \E j \in 1 .. firs : i = 2 * tiles + j
    <3>1. PICK j \in 1 .. firs : i = 2 * tiles + j
      BY <2>2
    <3> QED BY <1>7, <3>1
  <2>3. CASE \E j \in 1 .. 2 * widgets : i = 2 * tiles + firs + j
    <3>1. PICK j \in 1 .. 2 * widgets : i = 2 * tiles + firs + j
      BY <2>3
    <3> QED BY <1>8, <3>1
  <2>4. CASE \E j \in 1 .. firs : i = 2 * tiles + firs + 2 * widgets + j
    <3>1. PICK j \in 1 .. firs : i = 2 * tiles + firs + 2 * widgets + j
      BY <2>4
    <3> QED BY <1>9, <3>1
  <2> QED BY <2>1, <2>2, <2>3, <2>4, ChannelKinds
<1>11. ChannelizerSides(s, tiles, widgets, firs)
  BY <1>6, <1>7, <1>8, <1>9 DEF ChannelizerSides
<1> HIDE DEF channels
<1> QED BY <1>4, <1>10, <1>11

(* The queues a channel feeds or empties, by its port in the graph.        *)
LEMMA ChannelizerWires ==
  ASSUME NEW tiles, NEW widgets, NEW firs, Sizes(tiles, widgets, firs),
         NEW g, g = ChannelizerGraph(tiles, widgets, firs),
         NEW s, ChannelizerSides(s, tiles, widgets, firs),
         NEW i \in 1 .. 2 * tiles + firs + 2 * widgets + firs, NEW e
  PROVE  /\ FeedsQueue(tiles, widgets, firs, i, e) <=>
              s.dirs[i] = "to" /\ s.ports[i] \in DOMAIN g.inputs /\ e \in g.inputs[s.ports[i]]
         /\ EmptiesQueue(tiles, widgets, firs, i, e) <=>
              s.dirs[i] = "from" /\ s.ports[i] \in DOMAIN g.outputs /\ e = g.outputs[s.ports[i]]
<1>1. tiles \in 2 .. 4 /\ widgets \in 1 .. 4 /\ firs \in 0 .. 8
  BY DEF Sizes
<1>2. PICK port : port = s.ports[i]
  OBVIOUS
<1>3. CASE i \in 1 .. 2 * tiles
  <2>1. s.dirs[i] = "to" /\ port = 2 * i - 1
    BY <1>2, <1>3 DEF ChannelizerSides
  <2>2. PICK n : n = i - 1
    OBVIOUS
  <2>3. n \in 0 .. 2 * tiles - 1 /\ port = 2 * n + 1 /\ i = n + 1
    BY <1>1, <1>3, <2>1, <2>2
  <2>4. port \in DOMAIN g.inputs /\ g.inputs[port] = {<<"to", port, w>> : w \in 0 .. widgets - 1}
    BY <2>3, ChannelizerInputs
  <2>5. PICK t \in 0 .. tiles - 1, b \in 0 .. 1 : n = 2 * t + b
    BY <1>1, <2>3, Halves
  <2>6. \A w : Signal(2 * t + b, w) = <<"to", port, w>>
    BY <2>3, <2>5 DEF Signal
  <2>7. e \in g.inputs[port] => FeedsQueue(tiles, widgets, firs, i, e)
    <3>1. i = 2 * t + b + 1
      BY <2>3, <2>5
    <3> QED BY <2>4, <2>6, <3>1 DEF FeedsQueue
  <2>8. FeedsQueue(tiles, widgets, firs, i, e) => e \in g.inputs[port]
    <3>1. ASSUME NEW u \in 0 .. tiles - 1, NEW c \in 0 .. 1, NEW w \in 0 .. widgets - 1,
                 i = 2 * u + c + 1, e = Signal(2 * u + c, w)
          PROVE  e \in g.inputs[port]
      <4>1. 2 * u + c = 2 * t + b
        BY <1>1, <2>3, <2>5, <3>1
      <4> QED BY <2>4, <2>6, <3>1, <4>1
    <3>2. \A j \in 0 .. firs - 1 : i # 2 * tiles + (j + 1)
      BY <1>1, <1>3
    <3> QED BY <3>1, <3>2 DEF FeedsQueue
  <2>9. ~EmptiesQueue(tiles, widgets, firs, i, e)
    <3>1. /\ \A w \in 0 .. widgets - 1, h \in 1 .. 2 : i # 2 * tiles + firs + (2 * w + h)
          /\ \A j \in 0 .. firs - 1 : i # 2 * tiles + firs + 2 * widgets + (j + 1)
      BY <1>1, <1>3
    <3> QED BY <3>1 DEF EmptiesQueue
  <2> QED BY <1>2, <2>1, <2>4, <2>7, <2>8, <2>9
<1>4. CASE \E j \in 1 .. firs : i = 2 * tiles + j
  <2>0. PICK j \in 1 .. firs : i = 2 * tiles + j
    BY <1>4
  <2>1. s.dirs[i] = "to" /\ port = 15 + 2 * j
    BY <1>2, <2>0 DEF ChannelizerSides
  <2>2. PICK n : n = j - 1
    OBVIOUS
  <2>3. n \in 0 .. firs - 1 /\ port = 17 + 2 * n /\ i = 2 * tiles + (n + 1)
    BY <1>1, <2>0, <2>1, <2>2
  <2>4. port \in DOMAIN g.inputs /\ g.inputs[port] = {In(port)}
    BY <2>3, ChannelizerInputs
  <2>5. In(port) = In(17 + 2 * n)
    BY <2>3
  <2>6. e \in g.inputs[port] => FeedsQueue(tiles, widgets, firs, i, e)
    BY <2>3, <2>4, <2>5 DEF FeedsQueue
  <2>7. FeedsQueue(tiles, widgets, firs, i, e) => e \in g.inputs[port]
    <3>1. ASSUME NEW m \in 0 .. firs - 1, i = 2 * tiles + (m + 1), e = In(17 + 2 * m)
          PROVE  e \in g.inputs[port]
      <4>1. m = n
        BY <1>1, <2>3, <3>1
      <4> QED BY <2>4, <2>5, <3>1, <4>1
    <3>2. \A u \in 0 .. tiles - 1, c \in 0 .. 1 : i # 2 * u + c + 1
      BY <1>1, <2>3
    <3> QED BY <3>1, <3>2 DEF FeedsQueue
  <2>8. ~EmptiesQueue(tiles, widgets, firs, i, e)
    <3>1. /\ \A w \in 0 .. widgets - 1, h \in 1 .. 2 : i # 2 * tiles + firs + (2 * w + h)
          /\ \A m \in 0 .. firs - 1 : i # 2 * tiles + firs + 2 * widgets + (m + 1)
      BY <1>1, <2>3
    <3> QED BY <3>1 DEF EmptiesQueue
  <2> QED BY <1>2, <2>1, <2>4, <2>6, <2>7, <2>8
<1>5. CASE \E j \in 1 .. 2 * widgets : i = 2 * tiles + firs + j
  <2>0. PICK j \in 1 .. 2 * widgets : i = 2 * tiles + firs + j
    BY <1>5
  <2>1. s.dirs[i] = "from" /\ port = 2 * j
    BY <1>2, <2>0 DEF ChannelizerSides
  <2>2. port \in DOMAIN g.outputs /\ g.outputs[port] = Out(port)
    BY <2>0, <2>1, ChannelizerOutputs
  <2>3. PICK n : n = j - 1
    OBVIOUS
  <2>4. n \in 0 .. 2 * widgets - 1
    BY <1>1, <2>0, <2>3
  <2>5. PICK w \in 0 .. widgets - 1, b \in 0 .. 1 : n = 2 * w + b
    <3>1. widgets \in Nat
      BY <1>1
    <3> QED BY <2>4, <3>1, Halves
  <2>6. PICK h : h = b + 1
    OBVIOUS
  <2>7. h \in 1 .. 2 /\ i = 2 * tiles + firs + (2 * w + h) /\ port = 4 * w + 2 * h
    BY <1>1, <2>0, <2>1, <2>3, <2>5, <2>6
  <2>8. e = Out(port) => EmptiesQueue(tiles, widgets, firs, i, e)
    BY <2>7 DEF EmptiesQueue
  <2>9. EmptiesQueue(tiles, widgets, firs, i, e) => e = Out(port)
    <3>1. ASSUME NEW v \in 0 .. widgets - 1, NEW c \in 1 .. 2,
                 i = 2 * tiles + firs + (2 * v + c), e = Out(4 * v + 2 * c)
          PROVE  e = Out(port)
      <4>1. 4 * v + 2 * c = port
        BY <1>1, <2>7, <3>1
      <4> QED BY <3>1, <4>1
    <3>2. \A m \in 0 .. firs - 1 : i # 2 * tiles + firs + 2 * widgets + (m + 1)
      BY <1>1, <2>7
    <3> QED BY <3>1, <3>2 DEF EmptiesQueue
  <2>10. ~FeedsQueue(tiles, widgets, firs, i, e)
    <3>1. /\ \A u \in 0 .. tiles - 1, c \in 0 .. 1 : i # 2 * u + c + 1
          /\ \A m \in 0 .. firs - 1 : i # 2 * tiles + (m + 1)
      BY <1>1, <2>7
    <3> QED BY <3>1 DEF FeedsQueue
  <2> QED BY <1>2, <2>1, <2>2, <2>8, <2>9, <2>10
<1>6. CASE \E j \in 1 .. firs : i = 2 * tiles + firs + 2 * widgets + j
  <2>0. PICK j \in 1 .. firs : i = 2 * tiles + firs + 2 * widgets + j
    BY <1>6
  <2>1. s.dirs[i] = "from" /\ port = 16 + 2 * j
    BY <1>2, <2>0 DEF ChannelizerSides
  <2>2. PICK n : n = j - 1
    OBVIOUS
  <2>3. /\ n \in 0 .. firs - 1 /\ port = 18 + 2 * n
        /\ i = 2 * tiles + firs + 2 * widgets + (n + 1)
    BY <1>1, <2>0, <2>1, <2>2
  <2>4. port \in DOMAIN g.outputs /\ g.outputs[port] = Out(port)
    BY <2>3, ChannelizerOutputs
  <2>5. e = Out(port) => EmptiesQueue(tiles, widgets, firs, i, e)
    BY <2>3 DEF EmptiesQueue
  <2>6. EmptiesQueue(tiles, widgets, firs, i, e) => e = Out(port)
    <3>1. ASSUME NEW m \in 0 .. firs - 1, i = 2 * tiles + firs + 2 * widgets + (m + 1),
                 e = Out(18 + 2 * m)
          PROVE  e = Out(port)
      <4>1. 18 + 2 * m = port
        BY <1>1, <2>3, <3>1
      <4> QED BY <3>1, <4>1
    <3>2. \A v \in 0 .. widgets - 1, c \in 1 .. 2 : i # 2 * tiles + firs + (2 * v + c)
      BY <1>1, <2>3
    <3> QED BY <3>1, <3>2 DEF EmptiesQueue
  <2>7. ~FeedsQueue(tiles, widgets, firs, i, e)
    <3>1. /\ \A u \in 0 .. tiles - 1, c \in 0 .. 1 : i # 2 * u + c + 1
          /\ \A m \in 0 .. firs - 1 : i # 2 * tiles + (m + 1)
      BY <1>1, <2>3
    <3> QED BY <3>1 DEF FeedsQueue
  <2> QED BY <1>2, <2>1, <2>4, <2>5, <2>6, <2>7
<1> QED BY <1>3, <1>4, <1>5, <1>6, ChannelKinds

(* What a tile and a filter do to the queues in their moves.               *)
LEMMA OneMove ==
  ASSUME NEW m \in Nat
  PROVE  m % 1 = 0
<1>1. m = 1 * m + 0 /\ 0 \in 0 .. 1 - 1 /\ m \in Int
  OBVIOUS
<1> QED BY <1>1, DivisionUnique

(* Two tokens of a cascade for each place.                                 *)
LEMMA TwoByTwo ==
  ASSUME NEW m \in Nat, NEW j \in 1 .. 2
  PROVE  ((2 * m + j) + 1) \div 2 = m + 1
OBVIOUS

(* The kinds of the queues of a tile.                                      *)
LEMMA TileQueues ==
  ASSUME NEW tiles, NEW widgets, NEW firs, Sizes(tiles, widgets, firs),
         NEW w \in 0 .. widgets - 1, NEW t \in 0 .. tiles - 1, NEW e
  PROVE  /\ e \in TileSignals(w, t) => IsSignal(tiles, widgets, e) /\ ~IsCascade(tiles, widgets, e)
         /\ t # 0 /\ e = Cascade(w, t - 1) =>
              IsCascade(tiles, widgets, e) /\ e \notin TileSignals(w, t)
         /\ t # tiles - 1 /\ e = Cascade(w, t) => IsCascade(tiles, widgets, e)
         /\ e = Out(4 * w + 2) \/ e = Out(4 * w + 4) =>
              IsDftOut(widgets, e) /\ ~IsCascade(tiles, widgets, e)
<1>1. tiles \in 2 .. 4 /\ widgets \in 1 .. 4 /\ firs \in 0 .. 8
  BY DEF Sizes
<1>2. e \in TileSignals(w, t) => \E b \in 0 .. 1 : e = Signal(2 * t + b, w)
  <2>1. 2 * t + 0 = 2 * t
    BY <1>1
  <2> QED BY <2>1 DEF TileSignals
<1>3. e \in TileSignals(w, t) => IsSignal(tiles, widgets, e) /\ ~IsCascade(tiles, widgets, e)
  <2>1. \A i : Signal(i, w) # Cascade(w, t)
    BY ChannelizerQueuesDiffer
  <2>2. e \in TileSignals(w, t) => ~IsCascade(tiles, widgets, e)
    BY <1>2, ChannelizerQueuesDiffer DEF IsCascade
  <2> QED BY <1>2, <2>2 DEF IsSignal
<1>4. t # 0 /\ e = Cascade(w, t - 1) =>
        IsCascade(tiles, widgets, e) /\ e \notin TileSignals(w, t)
  <2> SUFFICES ASSUME t # 0, e = Cascade(w, t - 1)
               PROVE  IsCascade(tiles, widgets, e) /\ e \notin TileSignals(w, t)
    OBVIOUS
  <2>1. t - 1 \in 0 .. tiles - 2
    BY <1>1
  <2>2. e \notin TileSignals(w, t)
    BY <1>2, ChannelizerQueuesDiffer
  <2> QED BY <2>1, <2>2 DEF IsCascade
<1>5. t # tiles - 1 /\ e = Cascade(w, t) => IsCascade(tiles, widgets, e)
  <2>1. t # tiles - 1 => t \in 0 .. tiles - 2
    BY <1>1
  <2> QED BY <2>1 DEF IsCascade
<1>6. e = Out(4 * w + 2) \/ e = Out(4 * w + 4) =>
        IsDftOut(widgets, e) /\ ~IsCascade(tiles, widgets, e)
  <2>1. 4 * w + 2 = 4 * w + 2 * 1 /\ 4 * w + 4 = 4 * w + 2 * 2
    BY <1>1
  <2>2. e = Out(4 * w + 2) \/ e = Out(4 * w + 4) => IsDftOut(widgets, e)
    BY <2>1 DEF IsDftOut
  <2>3. e = Out(4 * w + 2) \/ e = Out(4 * w + 4) => ~IsCascade(tiles, widgets, e)
    BY ChannelizerQueuesDiffer DEF IsCascade
  <2> QED BY <2>2, <2>3
<1> QED BY <1>3, <1>4, <1>5, <1>6

(* Cascades count by twos, the others one by one.                          *)
LEMMA CountsOf ==
  ASSUME NEW tiles, NEW widgets, NEW firs, Sizes(tiles, widgets, firs),
         NEW s, IsChannelizerPlan(s, tiles, widgets, firs),
         NEW e, IsQueue(tiles, widgets, firs, e)
  PROVE  /\ IsCascade(tiles, widgets, e) =>
              \A m \in Nat : /\ s.put[e][m] = 2 * m /\ s.taken[e][m] = 2 * m
                             /\ s.index[e][m] = (m + 1) \div 2
         /\ ~IsCascade(tiles, widgets, e) =>
              \A m \in Nat : s.put[e][m] = m /\ s.taken[e][m] = m /\ s.index[e][m] = m
BY DEF IsChannelizerPlan, ChannelizerCounts

(* x is a token that move m of kernel k has, and from place m + 1.         *)
Supplies(g, s, k, m, x) ==
  \E d \in DOMAIN g.capacity :
    /\ x[1] = d /\ s.reader[d] = Kernel(k)
    /\ x[2] \in 1 .. Amount(MoveAt(g, k, m).need, d)
    /\ s.index[d][s.taken[d][m] + x[2]] = m + 1

(* What a tile passes on is from the place of its move.                    *)
LEMMA TileCarries ==
  ASSUME NEW tiles, NEW widgets, NEW firs, Sizes(tiles, widgets, firs),
         NEW g, g = ChannelizerGraph(tiles, widgets, firs),
         NEW s, IsChannelizerPlan(s, tiles, widgets, firs),
         NEW w \in 0 .. widgets - 1, NEW t \in 0 .. tiles - 1,
         NEW m \in Nat, MoveAt(g, Dft(w, t), m) = DftMoves(tiles, w, t)[1],
         NEW j \in 1 .. 2
  PROVE  /\ FromPlace(g, s, Dft(w, t), m, Carried(w, t, j), m + 1)
         /\ \E x \in Carried(w, t, j) : x # Kept
<1> DEFINE k == Dft(w, t)
           move == MoveAt(g, k, m)
<1>1. tiles \in 2 .. 4 /\ widgets \in 1 .. 4 /\ firs \in 0 .. 8
  BY DEF Sizes
<1>2. \A e : Amount(move.need, e) = TileTakes(w, t, e)
  BY TileMove
<1>3. \A e : IsQueue(tiles, widgets, firs, e) <=> e \in DOMAIN g.capacity
  BY ChannelizerQueues
<1>4. Kept[2] = 0
  BY DEF Kept
<1>5. \A e, i : <<e, i>>[2] = i /\ <<e, i>>[1] = e
  OBVIOUS
<1>6. ASSUME NEW e, NEW i, IsQueue(tiles, widgets, firs, e),
             s.reader[e] = Kernel(k), i \in 1 .. TileTakes(w, t, e),
             s.index[e][s.taken[e][m] + i] = m + 1, NEW x, x = <<e, i>>
      PROVE  /\ x # Kept
             /\ Supplies(g, s, k, m, x)
  <2>1. x[1] = e /\ x[2] = i
    BY <1>5, <1>6
  <2>2. i # 0
    <3>1. TileTakes(w, t, e) \in Nat
      BY DEF TileTakes
    <3> QED BY <1>6, <3>1
  <2>3. x # Kept
    BY <1>4, <2>1, <2>2
  <2>4. i \in 1 .. Amount(move.need, e)
    BY <1>2, <1>6
  <2>5. e \in DOMAIN g.capacity
    BY <1>3, <1>6
  <2> HIDE DEF move, k
  <2>6. Supplies(g, s, k, m, x)
    BY <1>6, <2>1, <2>4, <2>5 DEF Supplies, move
  <2> QED BY ONLY <2>3, <2>6
<1>7. ASSUME NEW x \in Carried(w, t, j)
      PROVE  /\ x # Kept
             /\ Supplies(g, s, k, m, x)
  <2>1. \/ \E e \in TileSignals(w, t) : x = <<e, 1>>
        \/ t # 0 /\ x = <<Cascade(w, t - 1), j>>
    BY <1>7 DEF Carried, Sources, First
  <2>2. CASE \E e \in TileSignals(w, t) : x = <<e, 1>>
    <3>1. PICK e \in TileSignals(w, t) : x = <<e, 1>>
      BY <2>2
    <3>2. IsSignal(tiles, widgets, e) /\ ~IsCascade(tiles, widgets, e)
      BY TileQueues
    <3>3. IsQueue(tiles, widgets, firs, e)
      BY <3>2 DEF IsQueue
    <3>4. s.reader[e] = Kernel(k)
      BY <3>3, TileReads
    <3>5. TileTakes(w, t, e) = 1
      BY DEF TileTakes
    <3>6. s.index[e][s.taken[e][m] + 1] = m + 1
      BY <3>2, <3>3, CountsOf
    <3>7. 1 \in 1 .. TileTakes(w, t, e)
      BY <3>5
    <3> HIDE DEF move, k
    <3> QED BY ONLY <1>6, <3>1, <3>3, <3>4, <3>6, <3>7
  <2>3. CASE t # 0 /\ x = <<Cascade(w, t - 1), j>>
    <3>1. PICK e : e = Cascade(w, t - 1)
      OBVIOUS
    <3>2. IsCascade(tiles, widgets, e) /\ e \notin TileSignals(w, t)
      BY <2>3, <3>1, TileQueues
    <3>3. IsQueue(tiles, widgets, firs, e)
      BY <3>2 DEF IsQueue
    <3>4. s.reader[e] = Kernel(k)
      BY <2>3, <3>1, <3>3, TileReads
    <3>5. TileTakes(w, t, e) = 2
      BY <2>3, <3>1, <3>2 DEF TileTakes
    <3>6. s.index[e][s.taken[e][m] + j] = m + 1
      <4>1. 2 * m + j \in Nat /\ s.taken[e][m] = 2 * m
        BY <3>2, <3>3, CountsOf
      <4>2. s.index[e][2 * m + j] = ((2 * m + j) + 1) \div 2
        BY <3>2, <3>3, <4>1, CountsOf
      <4> QED BY <4>1, <4>2, TwoByTwo
    <3>7. j \in 1 .. TileTakes(w, t, e)
      BY <3>5
    <3>8. x = <<e, j>>
      BY <2>3, <3>1
    <3> HIDE DEF move, k
    <3> QED BY ONLY <1>6, <3>3, <3>4, <3>6, <3>7, <3>8
  <2> QED BY <2>1, <2>2, <2>3
<1>8. FromPlace(g, s, k, m, Carried(w, t, j), m + 1)
  BY <1>7 DEF FromPlace, Supplies
<1>9. First(Signal(2 * t, w)) \in Carried(w, t, j)
  BY DEF Carried, Sources, TileSignals
<1> QED BY <1>7, <1>8, <1>9

(* A tile follows the plan.                                                *)
LEMMA TilePlanned ==
  ASSUME NEW tiles, NEW widgets, NEW firs, Sizes(tiles, widgets, firs),
         NEW g, g = ChannelizerGraph(tiles, widgets, firs),
         NEW s, IsChannelizerPlan(s, tiles, widgets, firs),
         NEW w \in 0 .. widgets - 1, NEW t \in 0 .. tiles - 1,
         \A n \in Nat : s.keeps[Dft(w, t)][n] = 0,
         NEW m \in Nat
  PROVE  PlanTakes(g, s, Dft(w, t), m) /\ PlanPuts(g, s, Dft(w, t), m) /\ PlanKeeps(g, s, Dft(w, t), m)
<1>1. tiles \in 2 .. 4 /\ widgets \in 1 .. 4 /\ firs \in 0 .. 8
  BY DEF Sizes
<1>2. PICK k : k = Dft(w, t)
  OBVIOUS
<1>3. PICK move : move = MoveAt(g, k, m)
  OBVIOUS
<1>4. move = DftMoves(tiles, w, t)[1]
  <2>1. g.kernels[k] = DftMoves(tiles, w, t) /\ Len(DftMoves(tiles, w, t)) = 1
    BY <1>2, ChannelizerKernels, TileMove
  <2>2. (m % 1) + 1 = 1
    BY OneMove
  <2> QED BY <1>3, <2>1, <2>2 DEF MoveAt, InRound
<1>5. \A e : e \in DOMAIN g.capacity <=> IsQueue(tiles, widgets, firs, e)
  BY ChannelizerQueues
<1>6. PlanTakes(g, s, k, m)
  <2> SUFFICES ASSUME NEW e \in DOMAIN g.capacity
               PROVE  /\ Amount(move.need, e) \in Nat
                      /\ Amount(move.get, e) \in 0 .. Amount(move.need, e)
                      /\ IF s.reader[e] = Kernel(k)
                           THEN s.taken[e][m + 1] = s.taken[e][m] + Amount(move.get, e)
                           ELSE Amount(move.get, e) = 0
    BY <1>3 DEF PlanTakes
  <2>1. Amount(move.need, e) = TileTakes(w, t, e) /\ Amount(move.get, e) = TileTakes(w, t, e)
    BY <1>4, TileMove
  <2>2. IsQueue(tiles, widgets, firs, e)
    BY <1>5
  <2>3. s.reader[e] = Kernel(k) <=> e \in TileSignals(w, t) \/ (t # 0 /\ e = Cascade(w, t - 1))
    BY <1>2, <2>2, TileReads
  <2>4. TileTakes(w, t, e) \in 0 .. 2
    BY DEF TileTakes
  <2>5. CASE e \in TileSignals(w, t)
    <3>1. ~IsCascade(tiles, widgets, e)
      BY <2>5, TileQueues
    <3>2. s.taken[e][m + 1] = m + 1 /\ s.taken[e][m] = m
      BY <2>2, <3>1, CountsOf
    <3>3. TileTakes(w, t, e) = 1
      BY <2>5 DEF TileTakes
    <3> QED BY <2>1, <2>3, <2>5, <3>2, <3>3
  <2>6. CASE t # 0 /\ e = Cascade(w, t - 1)
    <3>1. IsCascade(tiles, widgets, e) /\ e \notin TileSignals(w, t)
      BY <2>6, TileQueues
    <3>2. s.taken[e][m + 1] = 2 * (m + 1) /\ s.taken[e][m] = 2 * m
      BY <2>2, <3>1, CountsOf
    <3>3. TileTakes(w, t, e) = 2
      BY <2>6, <3>1 DEF TileTakes
    <3> QED BY <2>1, <2>3, <2>6, <3>2, <3>3
  <2>7. CASE e \notin TileSignals(w, t) /\ ~(t # 0 /\ e = Cascade(w, t - 1))
    <3>1. TileTakes(w, t, e) = 0
      BY <2>7 DEF TileTakes
    <3> QED BY <2>1, <2>3, <2>7, <3>1
  <2> QED BY <2>5, <2>6, <2>7
<1>7. \A j \in 1 .. 2 : /\ FromPlace(g, s, k, m, Carried(w, t, j), m + 1)
                        /\ \E x \in Carried(w, t, j) : x # Kept
  <2> TAKE j \in 1 .. 2
  <2>1. MoveAt(g, Dft(w, t), m) = DftMoves(tiles, w, t)[1]
    BY <1>2, <1>3, <1>4
  <2> QED BY <1>2, <2>1, TileCarries
<1>8. PlanPuts(g, s, k, m)
  <2> SUFFICES ASSUME NEW e \in DOMAIN g.capacity
               PROVE  IF s.writer[e] = Kernel(k)
                        THEN /\ s.put[e][m] <= s.put[e][m + 1]
                             /\ DOMAIN Output(move, e) = 1 .. s.put[e][m + 1] - s.put[e][m]
                             /\ \A j \in DOMAIN Output(move, e) :
                                  /\ FromPlace(g, s, k, m, Output(move, e)[j],
                                               s.index[e][s.put[e][m] + j])
                                  /\ \E x \in Output(move, e)[j] : x # Kept
                        ELSE DOMAIN Output(move, e) = {}
    BY <1>3 DEF PlanPuts
  <2>1. IsQueue(tiles, widgets, firs, e)
    BY <1>5
  <2>2. s.writer[e] = Kernel(k) <=> \/ t # tiles - 1 /\ e = Cascade(w, t)
                                    \/ t = tiles - 1 /\ (e = Out(4 * w + 2) \/ e = Out(4 * w + 4))
    BY <1>2, <2>1, TileWrites
  <2>3. Output(move, e) = TileOutput(tiles, w, t, e)
    BY <1>4, TileMove
  <2>4. CASE t # tiles - 1 /\ e = Cascade(w, t)
    <3>1. IsCascade(tiles, widgets, e)
      BY <2>4, TileQueues
    <3>2. s.put[e][m] = 2 * m /\ s.put[e][m + 1] = 2 * (m + 1)
      BY <2>1, <3>1, CountsOf
    <3>3. \A j \in 1 .. 2 : s.index[e][s.put[e][m] + j] = m + 1
      <4> TAKE j \in 1 .. 2
      <4>1. 2 * m + j \in Nat
        OBVIOUS
      <4>2. s.index[e][2 * m + j] = ((2 * m + j) + 1) \div 2
        BY <2>1, <3>1, <4>1, CountsOf
      <4> QED BY <3>2, <4>2, TwoByTwo
    <3>4. Output(move, e) = [j \in 1 .. 2 |-> Carried(w, t, j)]
      BY <2>3, <2>4 DEF TileOutput
    <3>5. DOMAIN Output(move, e) = 1 .. 2 /\ \A j \in 1 .. 2 : Output(move, e)[j] = Carried(w, t, j)
      BY <3>4
    <3>6. s.put[e][m + 1] - s.put[e][m] = 2 /\ s.put[e][m] <= s.put[e][m + 1]
      BY <3>2
    <3>7. s.writer[e] = Kernel(k)
      BY <2>2, <2>4
    <3>8. DOMAIN Output(move, e) = 1 .. s.put[e][m + 1] - s.put[e][m]
      BY ONLY <3>5, <3>6
    <3>9. ASSUME NEW j \in DOMAIN Output(move, e)
          PROVE  /\ FromPlace(g, s, k, m, Output(move, e)[j], s.index[e][s.put[e][m] + j])
                 /\ \E x \in Output(move, e)[j] : x # Kept
      <4>1. j \in 1 .. 2
        BY ONLY <3>5, <3>9
      <4>2. Output(move, e)[j] = Carried(w, t, j) /\ s.index[e][s.put[e][m] + j] = m + 1
        BY ONLY <3>3, <3>5, <4>1
      <4>3. FromPlace(g, s, k, m, Carried(w, t, j), m + 1) /\ \E x \in Carried(w, t, j) : x # Kept
        BY ONLY <1>7, <4>1
      <4> QED BY ONLY <4>2, <4>3
    <3> QED BY ONLY <3>6, <3>7, <3>8, <3>9
  <2>5. ASSUME NEW h \in 1 .. 2, t = tiles - 1, ~IsCascade(tiles, widgets, e),
               Output(move, e) = <<Carried(w, t, h)>>, s.writer[e] = Kernel(k)
        PROVE  /\ s.put[e][m] <= s.put[e][m + 1]
               /\ DOMAIN Output(move, e) = 1 .. s.put[e][m + 1] - s.put[e][m]
               /\ \A j \in DOMAIN Output(move, e) :
                    /\ FromPlace(g, s, k, m, Output(move, e)[j], s.index[e][s.put[e][m] + j])
                    /\ \E x \in Output(move, e)[j] : x # Kept
    <3>1. s.put[e][m] = m /\ s.put[e][m + 1] = m + 1 /\ s.index[e][m + 1] = m + 1
      BY <2>1, <2>5, CountsOf
    <3>2. DOMAIN Output(move, e) = 1 .. 1 /\ Output(move, e)[1] = Carried(w, t, h)
      BY <2>5
    <3>3. (m + 1) - m = 1 /\ m <= m + 1 /\ 1 .. 1 = {1}
      OBVIOUS
    <3> QED BY <1>7, <3>1, <3>2, <3>3
  <2>6. CASE t = tiles - 1 /\ e = Out(4 * w + 2)
    <3>1. s.writer[e] = Kernel(k) /\ Output(move, e) = <<Carried(w, t, 1)>>
      BY <2>2, <2>3, <2>6 DEF TileOutput
    <3>2. ~IsCascade(tiles, widgets, e)
      BY <2>6, TileQueues
    <3>3. 1 \in 1 .. 2
      OBVIOUS
    <3> QED BY <2>5, <2>6, <3>1, <3>2, <3>3
  <2>7. CASE t = tiles - 1 /\ e = Out(4 * w + 4)
    <3>1. Out(4 * w + 2) # Out(4 * w + 4)
      <4>1. 4 * w + 2 # 4 * w + 4
        BY <1>1
      <4> QED BY <4>1, ChannelizerQueuesDiffer
    <3>2. s.writer[e] = Kernel(k) /\ Output(move, e) = <<Carried(w, t, 2)>>
      BY <2>2, <2>3, <2>7, <3>1 DEF TileOutput
    <3>3. ~IsCascade(tiles, widgets, e)
      BY <2>7, TileQueues
    <3>4. 2 \in 1 .. 2
      OBVIOUS
    <3> QED BY <2>5, <2>7, <3>2, <3>3, <3>4
  <2>8. CASE s.writer[e] # Kernel(k)
    <3>1. Output(move, e) = << >>
      BY <2>2, <2>3, <2>8 DEF TileOutput
    <3> QED BY <2>8, <3>1
  <2> QED BY <2>2, <2>4, <2>6, <2>7, <2>8
<1>9. PlanKeeps(g, s, k, m)
  <2>1. s.keeps[k][m + 1] = 0
    BY <1>2
  <2>2. move.keep = {}
    BY <1>4, TileMove
  <2> QED BY <1>3, <2>1, <2>2 DEF PlanKeeps
<1> QED BY <1>2, <1>6, <1>8, <1>9

(* The kinds of the queues of a filter.                                    *)
LEMMA FirQueues ==
  ASSUME NEW tiles, NEW widgets, NEW firs, Sizes(tiles, widgets, firs),
         NEW i \in 0 .. firs - 1
  PROVE  /\ IsQueue(tiles, widgets, firs, In(17 + 2 * i))
         /\ ~IsCascade(tiles, widgets, In(17 + 2 * i))
         /\ IsQueue(tiles, widgets, firs, Out(18 + 2 * i))
         /\ ~IsCascade(tiles, widgets, Out(18 + 2 * i))
<1>1. IsFirIn(firs, In(17 + 2 * i)) /\ IsFirOut(firs, Out(18 + 2 * i))
  BY DEF IsFirIn, IsFirOut
<1>2. /\ ~IsCascade(tiles, widgets, In(17 + 2 * i))
      /\ ~IsCascade(tiles, widgets, Out(18 + 2 * i))
  BY ChannelizerQueuesDiffer DEF IsCascade
<1> QED BY <1>1, <1>2 DEF IsQueue

(* A filter follows the plan.                                              *)
LEMMA FirPlanned ==
  ASSUME NEW tiles, NEW widgets, NEW firs, Sizes(tiles, widgets, firs),
         NEW g, g = ChannelizerGraph(tiles, widgets, firs),
         NEW s, IsChannelizerPlan(s, tiles, widgets, firs),
         NEW i \in 0 .. firs - 1,
         \A n \in Nat : s.keeps[Fir(i)][n] = 0,
         NEW m \in Nat
  PROVE  PlanTakes(g, s, Fir(i), m) /\ PlanPuts(g, s, Fir(i), m) /\ PlanKeeps(g, s, Fir(i), m)
<1>1. PICK k : k = Fir(i)
  OBVIOUS
<1>2. PICK move : move = MoveAt(g, k, m)
  OBVIOUS
<1>3. PICK in : in = In(17 + 2 * i)
  OBVIOUS
<1>4. PICK out : out = Out(18 + 2 * i)
  OBVIOUS
<1>5. move = PolyphaseFir(i)[1]
  <2>0. Len(PolyphaseFir(i)) = 1
    BY DEF PolyphaseFir
  <2>1. g.kernels[k] = PolyphaseFir(i) /\ Len(PolyphaseFir(i)) = 1
    BY <1>1, <2>0, ChannelizerKernels
  <2>2. (m % 1) + 1 = 1
    BY OneMove
  <2> QED BY <1>2, <2>1, <2>2 DEF MoveAt, InRound
<1>6. \A e : e \in DOMAIN g.capacity <=> IsQueue(tiles, widgets, firs, e)
  BY ChannelizerQueues
<1>7. \A e : /\ Amount(move.need, e) = IF e = in THEN 1 ELSE 0
             /\ Amount(move.get, e) = IF e = in THEN 1 ELSE 0
             /\ Output(move, e) = IF e = out THEN <<{First(in)}>> ELSE << >>
             /\ move.keep = {}
  <2> TAKE e
  <2>1. Passes(In(17 + 2 * i), Out(18 + 2 * i), e, move)
    BY ONLY <1>5, FirMove
  <2>2. Passes(in, out, e, move)
    BY ONLY <1>3, <1>4, <2>1
  <2> QED BY ONLY <2>2 DEF Passes
<1>8. /\ IsQueue(tiles, widgets, firs, in) /\ ~IsCascade(tiles, widgets, in)
      /\ IsQueue(tiles, widgets, firs, out) /\ ~IsCascade(tiles, widgets, out)
  BY <1>3, <1>4, FirQueues
<1>9. /\ s.taken[in][m + 1] = m + 1 /\ s.taken[in][m] = m /\ s.index[in][m + 1] = m + 1
      /\ s.put[out][m + 1] = m + 1 /\ s.put[out][m] = m /\ s.index[out][m + 1] = m + 1
  BY <1>8, CountsOf
<1>10. \A e : e \in DOMAIN g.capacity =>
         (s.reader[e] = Kernel(k) <=> e = in) /\ (s.writer[e] = Kernel(k) <=> e = out)
  BY <1>1, <1>3, <1>4, <1>6, FirReadsAndWrites
<1>11. PlanTakes(g, s, k, m)
  <2> SUFFICES ASSUME NEW e \in DOMAIN g.capacity
               PROVE  /\ Amount(move.need, e) \in Nat
                      /\ Amount(move.get, e) \in 0 .. Amount(move.need, e)
                      /\ IF s.reader[e] = Kernel(k)
                           THEN s.taken[e][m + 1] = s.taken[e][m] + Amount(move.get, e)
                           ELSE Amount(move.get, e) = 0
    BY <1>2 DEF PlanTakes
  <2>1. CASE e = in
    BY <1>7, <1>9, <1>10, <2>1
  <2>2. CASE e # in
    BY <1>7, <1>10, <2>2
  <2> QED BY <2>1, <2>2
<1>12. FromPlace(g, s, k, m, {First(in)}, m + 1) /\ First(in) # Kept
  <2>1. PICK x : x = First(in)
    OBVIOUS
  <2>2. x[1] = in /\ x[2] = 1 /\ Kept[2] = 0
    BY <2>1 DEF First, Kept
  <2>3. in \in DOMAIN g.capacity /\ s.reader[in] = Kernel(k)
    BY <1>6, <1>8, <1>10
  <2>4. 1 \in 1 .. Amount(move.need, in)
    BY <1>7
  <2>5. s.index[in][s.taken[in][m] + 1] = m + 1
    BY <1>9
  <2>6. Supplies(g, s, k, m, x)
    BY <1>2, <2>2, <2>3, <2>4, <2>5 DEF Supplies
  <2>7. x # Kept
    BY ONLY <2>2
  <2>8. FromPlace(g, s, k, m, {x}, m + 1)
    BY <2>6, <2>7 DEF FromPlace, Supplies
  <2> QED BY ONLY <2>1, <2>7, <2>8
<1>13. PlanPuts(g, s, k, m)
  <2> SUFFICES ASSUME NEW e \in DOMAIN g.capacity
               PROVE  IF s.writer[e] = Kernel(k)
                        THEN /\ s.put[e][m] <= s.put[e][m + 1]
                             /\ DOMAIN Output(move, e) = 1 .. s.put[e][m + 1] - s.put[e][m]
                             /\ \A j \in DOMAIN Output(move, e) :
                                  /\ FromPlace(g, s, k, m, Output(move, e)[j],
                                               s.index[e][s.put[e][m] + j])
                                  /\ \E x \in Output(move, e)[j] : x # Kept
                        ELSE DOMAIN Output(move, e) = {}
    BY <1>2 DEF PlanPuts
  <2>1. CASE e = out
    <3>1. Output(move, e) = <<{First(in)}>> /\ s.writer[e] = Kernel(k)
      BY <1>7, <1>10, <2>1
    <3>2. DOMAIN Output(move, e) = 1 .. 1 /\ Output(move, e)[1] = {First(in)}
      BY <3>1
    <3>3. (m + 1) - m = 1 /\ m <= m + 1 /\ 1 .. 1 = {1}
      OBVIOUS
    <3> QED BY <1>9, <1>12, <2>1, <3>1, <3>2, <3>3
  <2>2. CASE e # out
    <3>1. Output(move, e) = << >> /\ s.writer[e] # Kernel(k)
      BY <1>7, <1>10, <2>2
    <3> QED BY <3>1
  <2> QED BY <2>1, <2>2
<1>14. PlanKeeps(g, s, k, m)
  <2>1. s.keeps[k][m + 1] = 0
    BY <1>1
  <2> QED BY <1>2, <1>7, <2>1 DEF PlanKeeps
<1> QED BY <1>1, <1>11, <1>13, <1>14

(* How far from the end of the stream a kernel is.                         *)
LEMMA ChannelizerRanks ==
  ASSUME NEW tiles, NEW widgets, NEW firs, Sizes(tiles, widgets, firs),
         NEW g, g = ChannelizerGraph(tiles, widgets, firs),
         NEW s, s = ChannelizerPlan(tiles, widgets, firs)
  PROVE  /\ \A w \in 0 .. widgets - 1, t \in 0 .. tiles - 1 : s.rank[Kernel(Dft(w, t))] = tiles - t
         /\ \A i \in 0 .. firs - 1 : s.rank[Kernel(Fir(i))] = 1
         /\ \A i \in 1 .. s.channels : s.rank[Channel(i)] = 0
         /\ s.rank \in [Actors(g, s) -> Nat]
         /\ s.keeps \in [DOMAIN g.kernels -> [Nat -> Int]]
         /\ \A k \in DOMAIN g.kernels : \A m \in Nat : s.keeps[k][m] = 0
<1>1. tiles \in 2 .. 4 /\ widgets \in 1 .. 4 /\ firs \in 0 .. 8
  BY DEF Sizes
<1> DEFINE R(a) == IF a[1] = "channel" THEN 0
                   ELSE IF a[2][1] = "fir" THEN 1 ELSE tiles - a[2][3]
<1>2. s.rank = [a \in Actors(g, s) |-> R(a)]
  BY DEF ChannelizerPlan, Actors
<1>3. s.keeps = [k \in DOMAIN g.kernels |-> [m \in Nat |-> 0]]
  BY DEF ChannelizerPlan
<1>4. /\ \A w, t : R(Kernel(Dft(w, t))) = tiles - t
      /\ \A i : R(Kernel(Fir(i))) = 1
      /\ \A i : R(Channel(i)) = 0
  <2>1. \A w, t : /\ Kernel(Dft(w, t))[1] = "kernel" /\ Kernel(Dft(w, t))[2][1] = "dft"
                  /\ Kernel(Dft(w, t))[2][3] = t
    BY DEF Kernel, Dft
  <2>2. \A i : Kernel(Fir(i))[1] = "kernel" /\ Kernel(Fir(i))[2][1] = "fir"
    BY DEF Kernel, Fir
  <2>3. \A i : Channel(i)[1] = "channel"
    BY DEF Channel
  <2>4. "kernel" # "channel" /\ "dft" # "fir"
    OBVIOUS
  <2> QED BY <2>1, <2>2, <2>3, <2>4
<1>5. \A k : k \in DOMAIN g.kernels <=>
        \/ \E w \in 0 .. widgets - 1, t \in 0 .. tiles - 1 : k = Dft(w, t)
        \/ \E i \in 0 .. firs - 1 : k = Fir(i)
  BY ChannelizerKernels
<1>6. \A a \in Actors(g, s) : R(a) \in Nat
  <2> TAKE a \in Actors(g, s)
  <2>1. CASE \E i \in 1 .. s.channels : a = Channel(i)
    BY <1>4, <2>1
  <2>2. CASE \E k \in DOMAIN g.kernels : a = Kernel(k)
    <3>1. PICK k \in DOMAIN g.kernels : a = Kernel(k)
      BY <2>2
    <3>2. CASE \E i \in 0 .. firs - 1 : k = Fir(i)
      BY <1>4, <3>1, <3>2
    <3>3. CASE \E w \in 0 .. widgets - 1, t \in 0 .. tiles - 1 : k = Dft(w, t)
      <4>1. PICK w \in 0 .. widgets - 1, t \in 0 .. tiles - 1 : k = Dft(w, t)
        BY <3>3
      <4>2. R(a) = tiles - t
        BY <1>4, <3>1, <4>1
      <4>3. tiles - t \in Nat
        BY <1>1
      <4> HIDE DEF R
      <4> QED BY <4>2, <4>3
    <3> QED BY <1>5, <3>2, <3>3
  <2> QED BY <2>1, <2>2 DEF Actors
<1> HIDE DEF R
<1>7. s.rank \in [Actors(g, s) -> Nat]
  BY <1>2, <1>6
<1>8. \A w \in 0 .. widgets - 1, t \in 0 .. tiles - 1 : s.rank[Kernel(Dft(w, t))] = tiles - t
  <2> TAKE w \in 0 .. widgets - 1, t \in 0 .. tiles - 1
  <2>1. Kernel(Dft(w, t)) \in Actors(g, s)
    BY <1>5 DEF Actors
  <2> QED BY <1>2, <1>4, <2>1
<1>9. \A i \in 0 .. firs - 1 : s.rank[Kernel(Fir(i))] = 1
  <2> TAKE i \in 0 .. firs - 1
  <2>1. Kernel(Fir(i)) \in Actors(g, s)
    BY <1>5 DEF Actors
  <2> QED BY <1>2, <1>4, <2>1
<1>10. \A i \in 1 .. s.channels : s.rank[Channel(i)] = 0
  <2> TAKE i \in 1 .. s.channels
  <2>1. Channel(i) \in Actors(g, s)
    BY DEF Actors
  <2> QED BY <1>2, <1>4, <2>1
<1>11. \A k \in DOMAIN g.kernels : \A m \in Nat : s.keeps[k][m] = 0
  BY <1>3
<1>12. s.keeps \in [DOMAIN g.kernels -> [Nat -> Int]]
  <2>1. [m \in Nat |-> 0] \in [Nat -> Int]
    OBVIOUS
  <2> QED BY <1>3, <2>1
<1> QED BY <1>7, <1>8, <1>9, <1>10, <1>11, <1>12

(* The numbers of the plan of the channelizer.                             *)
LEMMA ChannelizerTypes ==
  ASSUME NEW tiles, NEW widgets, NEW firs, Sizes(tiles, widgets, firs),
         NEW g, g = ChannelizerGraph(tiles, widgets, firs),
         NEW s, s = ChannelizerPlan(tiles, widgets, firs)
  PROVE  PlanTypes(g, s)
<1>1. tiles \in 2 .. 4 /\ widgets \in 1 .. 4 /\ firs \in 0 .. 8
  BY DEF Sizes
<1>2. IsChannelizerPlan(s, tiles, widgets, firs)
  BY ChannelizerPlanIs
<1>3. /\ s.items \in Nat \ {0} /\ s.reps \in Nat \ {0} /\ s.parts \in Nat \ {0} /\ s.bytes \in Nat
  BY <1>2, RoundsAssumption DEF IsChannelizerPlan
<1>4. s.channels = 2 * tiles + firs + 2 * widgets + firs /\ s.channels \in Nat \ {0}
  BY <1>1, <1>2 DEF IsChannelizerPlan
<1>5. /\ s.dirs \in [1 .. s.channels -> {"to", "from"}]
      /\ s.ports \in [1 .. s.channels -> Nat]
      /\ ChannelizerSides(s, tiles, widgets, firs)
  BY ChannelizerSidesAre
<1>6. \E i \in 1 .. s.channels : s.dirs[i] = "to"
  <2>1. 1 \in 1 .. s.channels /\ 1 \in 1 .. 2 * tiles
    BY <1>1, <1>4
  <2> QED BY <1>5, <2>1 DEF ChannelizerSides
<1> DEFINE queues == DOMAIN g.capacity
<1>7. \A e : e \in queues <=> IsQueue(tiles, widgets, firs, e)
  BY ChannelizerQueues
<1>8. \A port \in DOMAIN g.outputs : g.outputs[port] \in queues
  <2> TAKE port \in DOMAIN g.outputs
  <2>1. g.outputs[port] = Out(port)
    BY ChannelizerOutputs
  <2>2. CASE \E i \in 1 .. 2 * widgets : port = 2 * i
    <3>1. PICK i \in 1 .. 2 * widgets : port = 2 * i
      BY <2>2
    <3>2. PICK n : n = i - 1
      OBVIOUS
    <3>3. n \in 0 .. 2 * widgets - 1 /\ widgets \in Nat
      BY <1>1, <3>1, <3>2
    <3>4. PICK w \in 0 .. widgets - 1, b \in 0 .. 1 : n = 2 * w + b
      BY <3>3, Halves
    <3>5. port = 4 * w + 2 * (b + 1) /\ b + 1 \in 1 .. 2
      BY <1>1, <3>1, <3>2, <3>4
    <3>6. IsDftOut(widgets, Out(port))
      BY <3>5 DEF IsDftOut
    <3> QED BY <1>7, <2>1, <3>6 DEF IsQueue
  <2>3. CASE \E i \in 0 .. firs - 1 : port = 18 + 2 * i
    <3>1. IsFirOut(firs, Out(port))
      BY <2>3 DEF IsFirOut
    <3> QED BY <1>7, <2>1, <3>1 DEF IsQueue
  <2> QED BY <2>2, <2>3, ChannelizerOutputs
<1>9. /\ \A w \in 0 .. widgets - 1, t \in 0 .. tiles - 1 : Kernel(Dft(w, t)) \in Actors(g, s)
      /\ \A i \in 0 .. firs - 1 : Kernel(Fir(i)) \in Actors(g, s)
      /\ \A i \in 1 .. s.channels : Channel(i) \in Actors(g, s)
  <2>1. /\ \A w \in 0 .. widgets - 1, t \in 0 .. tiles - 1 : Dft(w, t) \in DOMAIN g.kernels
        /\ \A i \in 0 .. firs - 1 : Fir(i) \in DOMAIN g.kernels
    BY ChannelizerKernels
  <2> QED BY <2>1 DEF Actors
<1>10. \A e \in queues : s.writer[e] \in Actors(g, s) /\ s.reader[e] \in Actors(g, s)
  <2> TAKE e \in queues
  <2>1. CASE IsSignal(tiles, widgets, e)
    <3>1. PICK t \in 0 .. tiles - 1, b \in 0 .. 1, w \in 0 .. widgets - 1 : e = Signal(2 * t + b, w)
      BY <2>1 DEF IsSignal
    <3>2. s.reader[e] = Kernel(Dft(w, t)) /\ s.writer[e] = Channel(2 * t + b + 1)
      BY <1>2, <3>1 DEF IsChannelizerPlan, SignalsLinked
    <3>3. 2 * t + b + 1 \in 1 .. s.channels
      BY <1>1, <1>4
    <3> QED BY <1>9, <3>2, <3>3
  <2>2. CASE IsCascade(tiles, widgets, e)
    <3>1. PICK w \in 0 .. widgets - 1, t \in 0 .. tiles - 2 : e = Cascade(w, t)
      BY <2>2 DEF IsCascade
    <3>2. s.reader[e] = Kernel(Dft(w, t + 1)) /\ s.writer[e] = Kernel(Dft(w, t))
      BY <1>2, <3>1 DEF IsChannelizerPlan, CascadesLinked
    <3>3. t \in 0 .. tiles - 1 /\ t + 1 \in 0 .. tiles - 1
      BY <1>1
    <3> QED BY <1>9, <3>2, <3>3
  <2>3. CASE IsDftOut(widgets, e)
    <3>1. PICK w \in 0 .. widgets - 1, h \in 1 .. 2 : e = Out(4 * w + 2 * h)
      BY <2>3 DEF IsDftOut
    <3>2. /\ s.reader[e] = Channel(2 * tiles + firs + (2 * w + h))
          /\ s.writer[e] = Kernel(Dft(w, tiles - 1))
      BY <1>2, <3>1 DEF IsChannelizerPlan, DftOutsLinked
    <3>3. 2 * tiles + firs + (2 * w + h) \in 1 .. s.channels /\ tiles - 1 \in 0 .. tiles - 1
      BY <1>1, <1>4
    <3> QED BY <1>9, <3>2, <3>3
  <2>4. CASE IsFirIn(firs, e)
    <3>1. PICK i \in 0 .. firs - 1 : e = In(17 + 2 * i)
      BY <2>4 DEF IsFirIn
    <3>2. s.reader[e] = Kernel(Fir(i)) /\ s.writer[e] = Channel(2 * tiles + (i + 1))
      BY <1>2, <3>1 DEF IsChannelizerPlan, FirsLinked
    <3>3. 2 * tiles + (i + 1) \in 1 .. s.channels
      BY <1>1, <1>4
    <3> QED BY <1>9, <3>2, <3>3
  <2>5. CASE IsFirOut(firs, e)
    <3>1. PICK i \in 0 .. firs - 1 : e = Out(18 + 2 * i)
      BY <2>5 DEF IsFirOut
    <3>2. /\ s.reader[e] = Channel(2 * tiles + firs + 2 * widgets + (i + 1))
          /\ s.writer[e] = Kernel(Fir(i))
      BY <1>2, <3>1 DEF IsChannelizerPlan, FirsLinked
    <3>3. 2 * tiles + firs + 2 * widgets + (i + 1) \in 1 .. s.channels
      BY <1>1, <1>4
    <3> QED BY <1>9, <3>2, <3>3
  <2> QED BY <1>7, <2>1, <2>2, <2>3, <2>4, <2>5 DEF IsQueue
<1>11. /\ DOMAIN s.writer = queues /\ DOMAIN s.reader = queues
       /\ s.writer = [e \in queues |-> s.writer[e]] /\ s.reader = [e \in queues |-> s.reader[e]]
  <2>1. PICK writer, reader :
          /\ s.writer = [e \in queues |-> writer[e]]
          /\ s.reader = [e \in queues |-> reader[e]]
    <3>1. /\ s.writer = [e \in queues |->
                IF e[1] = "to"
                  THEN Channel(IF e[2] < 17 THEN (e[2] + 1) \div 2
                                            ELSE 2 * tiles + ((e[2] - 15) \div 2))
                ELSE IF e[1] = "acc" THEN Kernel(Dft(e[2], e[3]))
                ELSE IF e[2] < 18 THEN Kernel(Dft((e[2] - 2) \div 4, tiles - 1))
                ELSE Kernel(Fir((e[2] - 18) \div 2))]
          /\ s.reader = [e \in queues |->
                IF e[1] = "to"
                  THEN IF e[2] < 17 THEN Kernel(Dft(e[3], e[2] \div 4))
                                    ELSE Kernel(Fir((e[2] - 17) \div 2))
                ELSE IF e[1] = "acc" THEN Kernel(Dft(e[2], e[3] + 1))
                ELSE Channel(2 * tiles + firs +
                               IF e[2] < 18 THEN e[2] \div 2
                                            ELSE 2 * widgets + ((e[2] - 16) \div 2))]
      BY DEF ChannelizerPlan
    <3>2. /\ s.writer = [e \in queues |-> s.writer[e]]
          /\ s.reader = [e \in queues |-> s.reader[e]]
      BY <3>1
    <3> QED BY <3>2
  <2> HIDE DEF queues
  <2> QED BY <2>1
<1>12. s.writer \in [queues -> Actors(g, s)] /\ s.reader \in [queues -> Actors(g, s)]
  <2> HIDE DEF queues
  <2> QED BY <1>10, <1>11
<1>13. /\ s.put \in [queues -> [Nat -> Nat]] /\ s.taken \in [queues -> [Nat -> Nat]]
       /\ s.index \in [queues -> [Nat -> Nat]]
  <2>1. /\ s.put = [e \in queues |-> [m \in Nat |-> IF e[1] = "acc" THEN 2 * m ELSE m]]
        /\ s.taken = [e \in queues |-> [m \in Nat |-> IF e[1] = "acc" THEN 2 * m ELSE m]]
        /\ s.index = [e \in queues |-> [n \in Nat |-> IF e[1] = "acc" THEN (n + 1) \div 2 ELSE n]]
    BY DEF ChannelizerPlan
  <2> HIDE DEF queues
  <2>2. \A e \in queues : [m \in Nat |-> IF e[1] = "acc" THEN 2 * m ELSE m] \in [Nat -> Nat]
    OBVIOUS
  <2>3. \A e \in queues :
          [n \in Nat |-> IF e[1] = "acc" THEN (n + 1) \div 2 ELSE n] \in [Nat -> Nat]
    <3>1. \A n \in Nat : (n + 1) \div 2 \in Nat
      OBVIOUS
    <3> QED BY <3>1
  <2>4. s.put \in [queues -> [Nat -> Nat]] /\ s.taken \in [queues -> [Nat -> Nat]]
    BY <2>1, <2>2
  <2>5. s.index \in [queues -> [Nat -> Nat]]
    BY <2>1, <2>3
  <2> QED BY <2>4, <2>5
<1>14. s.rank \in [Actors(g, s) -> Nat] /\ s.keeps \in [DOMAIN g.kernels -> [Nat -> Int]]
  BY ChannelizerRanks
<1> QED BY <1>3, <1>4, <1>5, <1>6, <1>8, <1>12, <1>13, <1>14 DEF PlanTypes

(* Its channels follow the plan.                                           *)
LEMMA ChannelizerChannels ==
  ASSUME NEW tiles, NEW widgets, NEW firs, Sizes(tiles, widgets, firs),
         NEW g, g = ChannelizerGraph(tiles, widgets, firs),
         NEW s, IsChannelizerPlan(s, tiles, widgets, firs), Total(s) \in Nat,
         ChannelizerSides(s, tiles, widgets, firs)
  PROVE  PlanChannels(g, 1, s)
<1>1. s.channels = 2 * tiles + firs + 2 * widgets + firs
  BY DEF IsChannelizerPlan
<1>2. \A e : e \in DOMAIN g.capacity <=> IsQueue(tiles, widgets, firs, e)
  BY ChannelizerQueues
<1> SUFFICES ASSUME NEW i \in 1 .. s.channels, NEW e \in DOMAIN g.capacity
             PROVE  /\ s.writer[e] = Channel(i) <=>
                         s.dirs[i] = "to" /\ s.ports[i] \in DOMAIN g.inputs /\ e \in g.inputs[s.ports[i]]
                    /\ s.reader[e] = Channel(i) <=>
                         s.dirs[i] = "from" /\ s.ports[i] \in DOMAIN g.outputs /\ e = g.outputs[s.ports[i]]
                    /\ s.writer[e] = Channel(i) => \A m \in Nat : s.put[e][m] = m
                    /\ s.reader[e] = Channel(i) => \A m \in Nat : s.taken[e][m] = m
                    /\ s.writer[e] = Channel(i) \/ s.reader[e] = Channel(i) =>
                         \A n \in 1 .. Total(s) : s.index[e][n] = ((n - 1) \div 1) + 1
  BY DEF PlanChannels
<1>3. IsQueue(tiles, widgets, firs, e)
  BY <1>2
<1>4. /\ s.writer[e] = Channel(i) <=> FeedsQueue(tiles, widgets, firs, i, e)
      /\ s.reader[e] = Channel(i) <=> EmptiesQueue(tiles, widgets, firs, i, e)
  BY <1>3, ChannelsLinked
<1>5. i \in 1 .. 2 * tiles + firs + 2 * widgets + firs
  BY <1>1
<1>6. /\ FeedsQueue(tiles, widgets, firs, i, e) <=>
           s.dirs[i] = "to" /\ s.ports[i] \in DOMAIN g.inputs /\ e \in g.inputs[s.ports[i]]
      /\ EmptiesQueue(tiles, widgets, firs, i, e) <=>
           s.dirs[i] = "from" /\ s.ports[i] \in DOMAIN g.outputs /\ e = g.outputs[s.ports[i]]
  BY <1>5, ChannelizerWires
<1>7. FeedsQueue(tiles, widgets, firs, i, e) \/ EmptiesQueue(tiles, widgets, firs, i, e) =>
        ~IsCascade(tiles, widgets, e)
  BY ChannelizerQueuesDiffer DEF FeedsQueue, EmptiesQueue, IsCascade
<1>8. s.writer[e] = Channel(i) \/ s.reader[e] = Channel(i) =>
        \A m \in Nat : s.put[e][m] = m /\ s.taken[e][m] = m /\ s.index[e][m] = m
  <2>1. ~IsCascade(tiles, widgets, e) =>
          \A m \in Nat : s.put[e][m] = m /\ s.taken[e][m] = m /\ s.index[e][m] = m
    BY <1>3, CountsOf
  <2> QED BY <1>4, <1>7, <2>1
<1>9. \A n \in 1 .. Total(s) : n \in Nat /\ ((n - 1) \div 1) + 1 = n
  <2> TAKE n \in 1 .. Total(s)
  <2>1. PICK y : y = n - 1
    OBVIOUS
  <2>2. y \in Int /\ y = 1 * y + 0 /\ 0 \in 0 .. 1 - 1
    BY <2>1
  <2>3. y \div 1 = y
    BY <2>2, DivisionUnique
  <2>4. n \in Nat /\ y + 1 = n
    BY <2>1
  <2> QED BY <2>1, <2>3, <2>4
<1>10. s.writer[e] = Channel(i) \/ s.reader[e] = Channel(i) =>
         \A n \in 1 .. Total(s) : s.index[e][n] = ((n - 1) \div 1) + 1
  BY <1>8, <1>9
<1> QED BY <1>4, <1>6, <1>8, <1>10

(* A tile cannot go on after its last move, nor may it lag.                *)
LEMMA TileBlocks ==
  ASSUME NEW tiles, NEW widgets, NEW firs, Sizes(tiles, widgets, firs),
         NEW g, g = ChannelizerGraph(tiles, widgets, firs),
         NEW s, s = ChannelizerPlan(tiles, widgets, firs),
         IsChannelizerPlan(s, tiles, widgets, firs), Total(s) \in Nat \ {0},
         NEW w \in 0 .. widgets - 1, NEW t \in 0 .. tiles - 1
  PROVE  PlanBlocks(g, s, Dft(w, t))
<1>1. tiles \in 2 .. 4 /\ widgets \in 1 .. 4 /\ firs \in 0 .. 8
  BY DEF Sizes
<1>2. PICK k : k = Dft(w, t)
  OBVIOUS
<1>3. \A e : e \in DOMAIN g.capacity <=> IsQueue(tiles, widgets, firs, e)
  BY ChannelizerQueues
<1>4. /\ \A v \in 0 .. widgets - 1, u \in 0 .. tiles - 1 : s.rank[Kernel(Dft(v, u))] = tiles - u
      /\ \A i \in 1 .. s.channels : s.rank[Channel(i)] = 0
  BY ChannelizerRanks
<1>5. s.channels = 2 * tiles + firs + 2 * widgets + firs
  BY DEF IsChannelizerPlan
<1>6. PICK total : total = Total(s)
  OBVIOUS
<1>7. total \in Nat \ {0}
  BY <1>6
<1>8. \E e \in DOMAIN g.capacity :
        /\ s.reader[e] = Kernel(k)
        /\ Amount(MoveAt(g, k, 0).need, e) \in Nat \ {0}
        /\ \A m \in 0 .. total : s.put[e][m] <= s.put[e][total]
  <2>1. PICK e : e = Signal(2 * t, w)
    OBVIOUS
  <2>2. e \in TileSignals(w, t)
    BY <2>1 DEF TileSignals
  <2>3. IsSignal(tiles, widgets, e) /\ ~IsCascade(tiles, widgets, e)
    BY <2>2, TileQueues
  <2>4. IsQueue(tiles, widgets, firs, e)
    BY <2>3 DEF IsQueue
  <2>5. s.reader[e] = Kernel(k)
    BY <1>2, <2>2, <2>4, TileReads
  <2>6. Amount(MoveAt(g, k, 0).need, e) = 1
    <3>1. PICK move : move = MoveAt(g, k, 0)
      OBVIOUS
    <3>2. move = DftMoves(tiles, w, t)[1]
      <4>1. g.kernels[k] = DftMoves(tiles, w, t) /\ Len(DftMoves(tiles, w, t)) = 1
        BY <1>2, ChannelizerKernels, TileMove
      <4>2. (0 % 1) + 1 = 1
        BY OneMove
      <4> QED BY <3>1, <4>1, <4>2 DEF MoveAt, InRound
    <3>3. Amount(move.need, e) = TileTakes(w, t, e)
      BY <3>2, TileMove
    <3>4. TileTakes(w, t, e) = 1
      BY <2>2 DEF TileTakes
    <3> QED BY <3>1, <3>3, <3>4
  <2>7. \A m \in Nat : s.put[e][m] = m
    BY <2>3, <2>4, CountsOf
  <2>8. \A m \in 0 .. total : s.put[e][m] <= s.put[e][total]
    BY <1>7, <2>7
  <2> QED BY <1>3, <2>4, <2>5, <2>6, <2>8
<1>9. \E e \in DOMAIN g.capacity :
        /\ s.writer[e] = Kernel(k)
        /\ s.rank[s.reader[e]] < s.rank[Kernel(k)]
        /\ \A m \in 0 .. total - 1 : s.put[e][m] < s.taken[e][total]
  <2>1. CASE t # tiles - 1
    <3>1. PICK e : e = Cascade(w, t)
      OBVIOUS
    <3>2. IsCascade(tiles, widgets, e)
      BY <2>1, <3>1, TileQueues
    <3>3. IsQueue(tiles, widgets, firs, e)
      BY <3>2 DEF IsQueue
    <3>4. t \in 0 .. tiles - 2 /\ t + 1 \in 0 .. tiles - 1
      BY <1>1, <2>1
    <3>5. s.writer[e] = Kernel(k) /\ s.reader[e] = Kernel(Dft(w, t + 1))
      BY <1>2, <3>1, <3>4 DEF IsChannelizerPlan, CascadesLinked
    <3>6. s.rank[s.reader[e]] = tiles - (t + 1) /\ s.rank[Kernel(k)] = tiles - t
      BY <1>2, <1>4, <3>4, <3>5
    <3>7. s.rank[s.reader[e]] < s.rank[Kernel(k)]
      BY <1>1, <3>6
    <3>8. \A m \in Nat : s.put[e][m] = 2 * m /\ s.taken[e][m] = 2 * m
      BY <3>2, <3>3, CountsOf
    <3>9. \A m \in 0 .. total - 1 : s.put[e][m] < s.taken[e][total]
      BY <1>7, <3>8
    <3> QED BY <1>3, <3>3, <3>5, <3>7, <3>9
  <2>2. CASE t = tiles - 1
    <3>1. PICK e : e = Out(4 * w + 2)
      OBVIOUS
    <3>2. IsDftOut(widgets, e) /\ ~IsCascade(tiles, widgets, e)
      BY <3>1, TileQueues
    <3>3. IsQueue(tiles, widgets, firs, e)
      BY <3>2 DEF IsQueue
    <3>4. 4 * w + 2 = 4 * w + 2 * 1 /\ 1 \in 1 .. 2
      BY <1>1
    <3>5. s.writer[e] = Kernel(k) /\ s.reader[e] = Channel(2 * tiles + firs + (2 * w + 1))
      BY <1>2, <2>2, <3>1, <3>4 DEF IsChannelizerPlan, DftOutsLinked
    <3>6. 2 * tiles + firs + (2 * w + 1) \in 1 .. s.channels
      BY <1>1, <1>5
    <3>7. s.rank[s.reader[e]] = 0 /\ s.rank[Kernel(k)] = tiles - t
      BY <1>2, <1>4, <3>5, <3>6
    <3>8. s.rank[s.reader[e]] < s.rank[Kernel(k)]
      BY <1>1, <2>2, <3>7
    <3>9. \A m \in Nat : s.put[e][m] = m /\ s.taken[e][m] = m
      BY <3>2, <3>3, CountsOf
    <3>10. \A m \in 0 .. total - 1 : s.put[e][m] < s.taken[e][total]
      BY <1>7, <3>9
    <3> QED BY <1>3, <3>3, <3>5, <3>8, <3>10
  <2> QED BY <2>1, <2>2
<1> QED BY <1>2, <1>6, <1>8, <1>9 DEF PlanBlocks

(* A filter cannot either.                                                 *)
LEMMA FirBlocks ==
  ASSUME NEW tiles, NEW widgets, NEW firs, Sizes(tiles, widgets, firs),
         NEW g, g = ChannelizerGraph(tiles, widgets, firs),
         NEW s, s = ChannelizerPlan(tiles, widgets, firs),
         IsChannelizerPlan(s, tiles, widgets, firs), Total(s) \in Nat \ {0},
         NEW i \in 0 .. firs - 1
  PROVE  PlanBlocks(g, s, Fir(i))
<1>1. tiles \in 2 .. 4 /\ widgets \in 1 .. 4 /\ firs \in 0 .. 8
  BY DEF Sizes
<1>2. PICK k : k = Fir(i)
  OBVIOUS
<1>3. PICK in : in = In(17 + 2 * i)
  OBVIOUS
<1>4. PICK out : out = Out(18 + 2 * i)
  OBVIOUS
<1>5. /\ IsQueue(tiles, widgets, firs, in) /\ ~IsCascade(tiles, widgets, in)
      /\ IsQueue(tiles, widgets, firs, out) /\ ~IsCascade(tiles, widgets, out)
  BY <1>3, <1>4, FirQueues
<1>6. in \in DOMAIN g.capacity /\ out \in DOMAIN g.capacity
  BY <1>5, ChannelizerQueues
<1>7. PICK total : total = Total(s)
  OBVIOUS
<1>8. total \in Nat \ {0}
  BY <1>7
<1>9. s.reader[in] = Kernel(k) /\ s.writer[out] = Kernel(k)
  BY <1>2, <1>3, <1>4 DEF IsChannelizerPlan, FirsLinked
<1>10. Amount(MoveAt(g, k, 0).need, in) = 1
  <2>1. PICK move : move = MoveAt(g, k, 0)
    OBVIOUS
  <2>2. move = PolyphaseFir(i)[1]
    <3>1. Len(PolyphaseFir(i)) = 1
      BY DEF PolyphaseFir
    <3>2. g.kernels[k] = PolyphaseFir(i)
      BY <1>2, ChannelizerKernels
    <3>3. (0 % 1) + 1 = 1
      BY OneMove
    <3> QED BY <2>1, <3>1, <3>2, <3>3 DEF MoveAt, InRound
  <2>3. Amount(move.need, in) = IF in = In(17 + 2 * i) THEN 1 ELSE 0
    BY <2>2, FirMove DEF Passes
  <2> QED BY <1>3, <2>1, <2>3
<1>11. /\ \A m \in Nat : s.put[in][m] = m
       /\ \A m \in Nat : s.put[out][m] = m /\ s.taken[out][m] = m
  BY <1>5, CountsOf
<1>12. \A m \in 0 .. total : s.put[in][m] <= s.put[in][total]
  BY <1>8, <1>11
<1>13. \A m \in 0 .. total - 1 : s.put[out][m] < s.taken[out][total]
  BY <1>8, <1>11
<1>14. s.rank[s.reader[out]] < s.rank[Kernel(k)]
  <2>1. s.reader[out] = Channel(2 * tiles + firs + 2 * widgets + (i + 1))
    BY <1>4 DEF IsChannelizerPlan, FirsLinked
  <2>2. s.channels = 2 * tiles + firs + 2 * widgets + firs
    BY DEF IsChannelizerPlan
  <2>3. 2 * tiles + firs + 2 * widgets + (i + 1) \in 1 .. s.channels
    BY <1>1, <2>2
  <2>4. /\ \A j \in 0 .. firs - 1 : s.rank[Kernel(Fir(j))] = 1
        /\ \A j \in 1 .. s.channels : s.rank[Channel(j)] = 0
    BY ChannelizerRanks
  <2>5. s.rank[s.reader[out]] = 0 /\ s.rank[Kernel(k)] = 1
    BY <1>2, <2>1, <2>3, <2>4
  <2> QED BY <2>5
<1> QED BY <1>2, <1>6, <1>7, <1>9, <1>10, <1>12, <1>13, <1>14 DEF PlanBlocks

(* The plan of the channelizer.                                            *)
LEMMA ChannelizerPlanned ==
  ASSUME NEW tiles, NEW widgets, NEW firs, Sizes(tiles, widgets, firs),
         NEW g, g = ChannelizerGraph(tiles, widgets, firs),
         NEW s, s = ChannelizerPlan(tiles, widgets, firs)
  PROVE  Plan(g, 1, s)
<1>1. IsChannelizerPlan(s, tiles, widgets, firs)
  BY ChannelizerPlanIs
<1>2. PICK total : total = Total(s)
  OBVIOUS
<1>3. total \in Nat \ {0}
  <2>1. s.items = 2 * Rounds /\ s.reps = 1
    BY <1>1 DEF IsChannelizerPlan
  <2> QED BY <1>2, <2>1, RoundsAssumption DEF Total
<1>4. Total(s) \in Nat \ {0} /\ Total(s) \in Nat
  BY <1>2, <1>3
<1>5. PlanTypes(g, s)
  BY ChannelizerTypes
<1>6. PlanChannels(g, 1, s)
  BY <1>1, <1>4, ChannelizerSidesAre, ChannelizerChannels
<1>7. \A e : e \in DOMAIN g.capacity <=> IsQueue(tiles, widgets, firs, e)
  BY ChannelizerQueues
<1>8. \A k : k \in DOMAIN g.kernels <=>
        \/ \E w \in 0 .. widgets - 1, t \in 0 .. tiles - 1 : k = Dft(w, t)
        \/ \E i \in 0 .. firs - 1 : k = Fir(i)
  BY ChannelizerKernels
<1>9. \A k \in DOMAIN g.kernels : \A m \in Nat : s.keeps[k][m] = 0
  BY ChannelizerRanks
<1>10. \A k \in DOMAIN g.kernels : Len(g.kernels[k]) = 1
  <2> TAKE k \in DOMAIN g.kernels
  <2>1. CASE \E w \in 0 .. widgets - 1, t \in 0 .. tiles - 1 : k = Dft(w, t)
    <3>1. PICK w \in 0 .. widgets - 1, t \in 0 .. tiles - 1 : k = Dft(w, t)
      BY <2>1
    <3>2. g.kernels[k] = DftMoves(tiles, w, t)
      BY <3>1, ChannelizerKernels
    <3>3. Len(DftMoves(tiles, w, t)) = 1
      BY TileMove
    <3> QED BY <3>2, <3>3
  <2>2. CASE \E i \in 0 .. firs - 1 : k = Fir(i)
    <3>1. PICK i \in 0 .. firs - 1 : k = Fir(i)
      BY <2>2
    <3>2. g.kernels[k] = PolyphaseFir(i)
      BY <3>1, ChannelizerKernels
    <3>3. Len(PolyphaseFir(i)) = 1
      BY DEF PolyphaseFir
    <3> QED BY <3>2, <3>3
  <2> QED BY <1>8, <2>1, <2>2
<1>11. PlanEnds(g, s)
  <2>1. \A e \in DOMAIN g.capacity :
          s.put[e][0] = 0 /\ s.taken[e][0] = 0 /\ s.put[e][total] = s.taken[e][total]
    <3> TAKE e \in DOMAIN g.capacity
    <3>1. IsQueue(tiles, widgets, firs, e)
      BY <1>7
    <3>2. CASE IsCascade(tiles, widgets, e)
      <4>1. \A m \in Nat : s.put[e][m] = 2 * m /\ s.taken[e][m] = 2 * m
        BY <1>1, <3>1, <3>2, CountsOf
      <4> QED BY <1>3, <4>1
    <3>3. CASE ~IsCascade(tiles, widgets, e)
      <4>1. \A m \in Nat : s.put[e][m] = m /\ s.taken[e][m] = m
        BY <1>1, <3>1, <3>3, CountsOf
      <4> QED BY <1>3, <4>1
    <3> QED BY <3>2, <3>3
  <2>2. total % 1 = 0
    BY <1>3, OneMove
  <2>3. \A k \in DOMAIN g.kernels : s.keeps[k][0] = 0 /\ s.keeps[k][total] = 0
    BY <1>3, <1>9
  <2>4. \A k \in DOMAIN g.kernels :
          /\ Len(g.kernels[k]) \in Nat \ {0} /\ total % Len(g.kernels[k]) = 0
          /\ s.keeps[k][0] \in {-1, 0} /\ s.keeps[k][total] = s.keeps[k][0]
    <3> TAKE k \in DOMAIN g.kernels
    <3>1. Len(g.kernels[k]) = 1
      BY <1>10
    <3>2. s.keeps[k][0] = 0 /\ s.keeps[k][total] = 0
      BY <2>3
    <3> QED BY <2>2, <3>1, <3>2
  <2> QED BY <1>2, <2>1, <2>4 DEF PlanEnds
<1>12. \A k \in DOMAIN g.kernels :
         /\ \A m \in Nat : PlanTakes(g, s, k, m) /\ PlanPuts(g, s, k, m) /\ PlanKeeps(g, s, k, m)
         /\ PlanBlocks(g, s, k)
  <2> TAKE k \in DOMAIN g.kernels
  <2>1. CASE \E w \in 0 .. widgets - 1, t \in 0 .. tiles - 1 : k = Dft(w, t)
    <3>1. PICK w \in 0 .. widgets - 1, t \in 0 .. tiles - 1 : k = Dft(w, t)
      BY <2>1
    <3>2. \A n \in Nat : s.keeps[Dft(w, t)][n] = 0
      BY <1>9, <3>1
    <3>3. \A m \in Nat : /\ PlanTakes(g, s, Dft(w, t), m) /\ PlanPuts(g, s, Dft(w, t), m)
                         /\ PlanKeeps(g, s, Dft(w, t), m)
      BY <1>1, <3>2, TilePlanned
    <3>4. PlanBlocks(g, s, Dft(w, t))
      BY <1>1, <1>4, TileBlocks
    <3> QED BY <3>1, <3>3, <3>4
  <2>2. CASE \E i \in 0 .. firs - 1 : k = Fir(i)
    <3>1. PICK i \in 0 .. firs - 1 : k = Fir(i)
      BY <2>2
    <3>2. \A n \in Nat : s.keeps[Fir(i)][n] = 0
      BY <1>9, <3>1
    <3>3. \A m \in Nat : /\ PlanTakes(g, s, Fir(i), m) /\ PlanPuts(g, s, Fir(i), m)
                         /\ PlanKeeps(g, s, Fir(i), m)
      BY <1>1, <3>2, FirPlanned
    <3>4. PlanBlocks(g, s, Fir(i))
      BY <1>1, <1>4, FirBlocks
    <3> QED BY <3>1, <3>3, <3>4
  <2> QED BY <1>8, <2>1, <2>2
<1>13. \A m \in 0 .. Total(s) - 1 : m \in Nat
  BY <1>4
<1> QED BY <1>5, <1>6, <1>11, <1>12, <1>13 DEF Plan

(* An argument is known by its buffer.                                     *)
FirstOf(kind, tiles, widgets, firs) ==
  IF kind = "in_dft" THEN 0
  ELSE IF kind = "in_fir" THEN 2 * tiles
  ELSE IF kind = "out_dft" THEN 2 * tiles + firs
  ELSE 2 * tiles + firs + 2 * widgets

IsArgument(args, i, tiles, widgets, firs) ==
  \E dir \in {"to", "from"}, plio \in 1 .. 32 : \E kind, j :
    /\ args[i] = ChannelizerArg(dir, plio, <<kind, j>>)
    /\ i = FirstOf(kind, tiles, widgets, firs) + j

(* The arguments of the channelizer one by one.                            *)
LEMMA ChannelizerArgFacts ==
  ASSUME NEW tiles, NEW widgets, NEW firs, Sizes(tiles, widgets, firs),
         NEW args, AreChannelizerArgs(args, tiles, widgets, firs),
         NEW i \in 1 .. 2 * tiles + firs + 2 * widgets + firs
  PROVE  IsArgument(args, i, tiles, widgets, firs)
<1>1. tiles \in 2 .. 4 /\ widgets \in 1 .. 4 /\ firs \in 0 .. 8
  BY DEF Sizes
<1>2. CASE i \in 1 .. 2 * tiles
  <2>1. args[i] = ChannelizerArg("to", 2 * i - 1, <<"in_dft", i>>)
    BY <1>2 DEF AreChannelizerArgs
  <2>2. 2 * i - 1 \in 1 .. 32
    BY <1>1, <1>2
  <2>3. i = FirstOf("in_dft", tiles, widgets, firs) + i
    BY DEF FirstOf
  <2> QED BY <2>1, <2>2, <2>3 DEF IsArgument
<1>3. CASE \E j \in 1 .. firs : i = 2 * tiles + j
  <2>1. PICK j \in 1 .. firs : i = 2 * tiles + j
    BY <1>3
  <2>2. args[i] = ChannelizerArg("to", 15 + 2 * j, <<"in_fir", j>>)
    BY <2>1 DEF AreChannelizerArgs
  <2>3. 15 + 2 * j \in 1 .. 32
    BY <1>1, <2>1
  <2>4. i = FirstOf("in_fir", tiles, widgets, firs) + j
    BY <2>1 DEF FirstOf
  <2> QED BY <2>2, <2>3, <2>4 DEF IsArgument
<1>4. CASE \E j \in 1 .. 2 * widgets : i = 2 * tiles + firs + j
  <2>1. PICK j \in 1 .. 2 * widgets : i = 2 * tiles + firs + j
    BY <1>4
  <2>2. args[i] = ChannelizerArg("from", 2 * j, <<"out_dft", j>>)
    BY <2>1 DEF AreChannelizerArgs
  <2>3. 2 * j \in 1 .. 32
    BY <1>1, <2>1
  <2>4. i = FirstOf("out_dft", tiles, widgets, firs) + j
    BY <2>1 DEF FirstOf
  <2> QED BY <2>2, <2>3, <2>4 DEF IsArgument
<1>5. CASE \E j \in 1 .. firs : i = 2 * tiles + firs + 2 * widgets + j
  <2>1. PICK j \in 1 .. firs : i = 2 * tiles + firs + 2 * widgets + j
    BY <1>5
  <2>2. args[i] = ChannelizerArg("from", 16 + 2 * j, <<"out_fir", j>>)
    BY <2>1 DEF AreChannelizerArgs
  <2>3. 16 + 2 * j \in 1 .. 32
    BY <1>1, <2>1
  <2>4. i = FirstOf("out_fir", tiles, widgets, firs) + j
    BY <2>1 DEF FirstOf
  <2> QED BY <2>2, <2>3, <2>4 DEF IsArgument
<1> QED BY <1>2, <1>3, <1>4, <1>5, ChannelKinds

(* The ports of the channelizer are those of their number.                 *)
LEMMA Vck190Ports32 ==
  ASSUME NEW plio \in 1 .. 32
  PROVE  Boards["vck190"].to[plio - 1] = plio /\ Boards["vck190"].from[plio - 1] = plio
<1>1. PICK n : n = plio - 1
  OBVIOUS
<1>2. n \in 0 .. 35 /\ n + 1 = plio
  BY <1>1
<1>3. Boards["vck190"].to[n] = n + 1 /\ Boards["vck190"].from[n] = n + 1
  BY <1>2, Vck190Wires
<1> QED BY <1>1, <1>2, <1>3

(* The channelizer has a plan, with any of its tiles, widgets and filters. *)
LEMMA ChannelizerFits ==
  ASSUME NEW tiles, NEW widgets, NEW firs, Sizes(tiles, widgets, firs)
  PROVE  HasPlan(Channelizer(tiles, widgets, firs))
<1>1. PICK p : p = Channelizer(tiles, widgets, firs)
  OBVIOUS
<1>2. PICK s : s = ChannelizerPlan(tiles, widgets, firs)
  OBVIOUS
<1>3. PICK g : g = ChannelizerGraph(tiles, widgets, firs)
  OBVIOUS
<1>4. PICK args : args = ChannelizerArgs(tiles, widgets, firs)
  OBVIOUS
<1>5. AreChannelizerArgs(args, tiles, widgets, firs)
  BY <1>4, ChannelizerArgsAre
<1> DEFINE ins == ChannelizerBuffers("to", args)
           outs == ChannelizerBuffers("from", args)
           f == [b \in ins |-> Input(2 * Rounds, 1)]
           h == [b \in outs |-> Zeroes(2 * Rounds)]
<1>6. /\ p.device = "vck190" /\ p.graph = g /\ p.span = 1 /\ p.data = f @@ h
      /\ p.phases = <<Phase("PERF", 2, "valid", outs, <<args>>)>>
  BY <1>1, <1>3, <1>4 DEF Channelizer, Program
<1>7. /\ \A b : b \in ins <=> \E i \in DOMAIN args : args[i].dir = "to" /\ args[i].buf = b
      /\ \A b : b \in outs <=> \E i \in DOMAIN args : args[i].dir = "from" /\ args[i].buf = b
  BY DEF ChannelizerBuffers
<1>8. /\ DOMAIN (f @@ h) = ins \cup outs
      /\ \A b \in ins \cup outs : (f @@ h)[b] = IF b \in ins THEN Input(2 * Rounds, 1)
                                                            ELSE Zeroes(2 * Rounds)
  <2> HIDE DEF ins, outs
  <2>1. DOMAIN f = ins /\ DOMAIN h = outs
    OBVIOUS
  <2>2. /\ DOMAIN (f @@ h) = DOMAIN f \cup DOMAIN h
        /\ \A b \in DOMAIN f \cup DOMAIN h : (f @@ h)[b] = IF b \in DOMAIN f THEN f[b] ELSE h[b]
    BY DEF @@
  <2>3. (\A b \in ins : f[b] = Input(2 * Rounds, 1)) /\ (\A b \in outs : h[b] = Zeroes(2 * Rounds))
    OBVIOUS
  <2> HIDE DEF f, h
  <2> QED BY <2>1, <2>2, <2>3
<1> HIDE DEF ins, outs, f, h
<1>9. /\ Len(p.phases) = 1 /\ p.phases[1].mode = "PERF" /\ p.phases[1].asks = "valid"
      /\ p.phases[1].golden = outs /\ p.phases[1].transactions = <<args>>
  <2>1. Len(p.phases) = 1 /\ p.phases[1] = Phase("PERF", 2, "valid", outs, <<args>>)
    BY <1>6
  <2> QED BY <2>1 DEF Phase
<1>10. p.phases[1].transactions[1] = args /\ Len(p.phases[1].transactions) = 1
  BY <1>9
<1>11. IsChannelizerPlan(s, tiles, widgets, firs)
  BY <1>2, ChannelizerPlanIs
<1>12. /\ s.items = 2 * Rounds /\ s.bytes = 65536 /\ s.reps = 1 /\ s.parts = 1
       /\ s.channels = 2 * tiles + firs + 2 * widgets + firs
  BY <1>11 DEF IsChannelizerPlan
<1>13. /\ s.dirs = [i \in 1 .. s.channels |-> args[i].dir]
       /\ s.ports = [i \in 1 .. s.channels |-> args[i].plio]
  BY <1>2, <1>4 DEF ChannelizerPlan
<1>14. DOMAIN args = 1 .. s.channels
  BY <1>5, <1>12 DEF AreChannelizerArgs
<1>15. \A i \in 1 .. s.channels : s.dirs[i] = args[i].dir /\ s.ports[i] = args[i].plio
  BY <1>13
<1>16. \A i \in 1 .. s.channels :
         /\ args[i].dir \in {"to", "from"} /\ args[i].plio \in 1 .. 32
         /\ args[i].items = 2 * Rounds /\ args[i].bytes = 65536 /\ args[i].rep = 1
         /\ args[i].skip = 0
         /\ i = FirstOf(args[i].buf[1], tiles, widgets, firs) + args[i].buf[2]
  <2> TAKE i \in 1 .. s.channels
  <2>1. i \in 1 .. 2 * tiles + firs + 2 * widgets + firs
    BY <1>12
  <2>2. PICK dir \in {"to", "from"}, plio \in 1 .. 32 :
          \E kind, j : /\ args[i] = ChannelizerArg(dir, plio, <<kind, j>>)
                       /\ i = FirstOf(kind, tiles, widgets, firs) + j
    <3>1. IsArgument(args, i, tiles, widgets, firs)
      BY <1>5, <2>1, ChannelizerArgFacts
    <3> QED BY ONLY <3>1 DEF IsArgument
  <2>3. PICK kind, j : /\ args[i] = ChannelizerArg(dir, plio, <<kind, j>>)
                       /\ i = FirstOf(kind, tiles, widgets, firs) + j
    BY ONLY <2>2
  <2>4. /\ args[i].dir = dir /\ args[i].plio = plio /\ args[i].items = 2 * Rounds
        /\ args[i].bytes = 65536 /\ args[i].rep = 1 /\ args[i].skip = 0
        /\ args[i].buf = <<kind, j>>
    BY <2>3 DEF ChannelizerArg, Arg
  <2>5. args[i].buf[1] = kind /\ args[i].buf[2] = j
    BY <2>4
  <2> QED BY <2>3, <2>4, <2>5
<1>17. \A i, j \in 1 .. s.channels : i # j => args[i].buf # args[j].buf
  BY <1>16
<1>18. Plan(p.graph, p.span, s)
  BY <1>2, <1>3, <1>6, ChannelizerPlanned
<1>19. Length(s) = 2 * Rounds /\ Length(s) \in Nat
  BY <1>12, RoundsAssumption DEF Length
<1>20. PhaseFits(p, s, 1)
  <2>1. \A i \in 1 .. s.channels : ArgumentFits(p.device, s, args[i], 1, i)
    <3> TAKE i \in 1 .. s.channels
    <3>1. PICK plio \in 1 .. 32 : plio = args[i].plio
      BY <1>16
    <3>2. Boards["vck190"].to[plio - 1] = plio /\ Boards["vck190"].from[plio - 1] = plio
      BY Vck190Ports32
    <3>3. s.ports[i] = plio /\ args[i].dir = s.dirs[i]
      BY <1>15, <3>1
    <3>4. (1 - 1) * s.items = 0
      BY <1>12, RoundsAssumption
    <3> QED BY <1>6, <1>12, <1>16, <3>1, <3>2, <3>3, <3>4 DEF ArgumentFits
  <2>2. \A n \in 1 .. s.parts : n = 1
    BY <1>12
  <2>3. \A i \in 1 .. s.channels : args[i].buf \in DOMAIN p.data
    <3> TAKE i \in 1 .. s.channels
    <3>1. i \in DOMAIN args /\ (args[i].dir = "to" \/ args[i].dir = "from")
      BY <1>14, <1>16
    <3>2. args[i].buf \in ins \/ args[i].buf \in outs
      BY <1>7, <3>1
    <3> QED BY <1>6, <1>8, <3>2
  <2>4. \A b \in p.phases[1].golden :
          p.span = 1 /\ \E i \in 1 .. s.channels : s.dirs[i] = "from" /\ args[i].buf = b
    BY <1>6, <1>7, <1>9, <1>14, <1>15
  <2>5. /\ p.phases[1].mode \in {"FUNC", "PERF"} /\ p.phases[1].asks = "valid"
        /\ Len(p.phases[1].transactions) = s.parts
    BY <1>9, <1>10, <1>12
  <2>6. \A n \in 1 .. s.parts :
          /\ DOMAIN p.phases[1].transactions[n] = 1 .. s.channels
          /\ \A i \in 1 .. s.channels :
               /\ ArgumentFits(p.device, s, p.phases[1].transactions[n][i], n, i)
               /\ p.phases[1].transactions[n][i].buf = args[i].buf
    BY <1>10, <1>14, <2>1, <2>2
  <2> QED BY <1>10, <1>17, <2>3, <2>4, <2>5, <2>6 DEF PhaseFits
<1>21. Input(2 * Rounds, 1) = [x \in 1 .. Length(s) |-> x]
       /\ Input(2 * Rounds, 1) \in [1 .. Length(s) -> Nat]
  <2>1. PICK n : n = 2 * Rounds
    OBVIOUS
  <2>2. n \in Nat
    BY <1>19, <2>1
  <2>3. Input(n, 1) = [x \in 1 .. n |-> x] /\ Input(n, 1) \in [1 .. n -> Nat]
    BY <2>2, InputOfPlaces
  <2> QED BY <1>19, <2>1, <2>3
<1>22. InputsThere(p, s, 1)
  <2>1. ASSUME NEW i \in 1 .. s.channels, s.dirs[i] = "to"
        PROVE  \A x \in 1 .. Length(s) : p.data[args[i].buf][x] = x
    <3>1. args[i].buf \in ins
      BY <1>7, <1>14, <1>15, <2>1
    <3>2. p.data[args[i].buf] = Input(2 * Rounds, 1)
      BY <1>6, <1>8, <3>1
    <3> QED BY <1>21, <3>2
  <2> QED BY <1>10, <2>1 DEF InputsThere
<1>23. p.data \in [DOMAIN p.data -> [1 .. Length(s) -> Nat]]
  <2>1. Zeroes(2 * Rounds) \in [1 .. Length(s) -> Nat]
    BY <1>19 DEF Zeroes
  <2>2. \A b \in DOMAIN p.data : p.data[b] \in [1 .. Length(s) -> Nat]
    BY <1>6, <1>8, <1>21, <2>1
  <2>3. p.data = [b \in DOMAIN p.data |-> p.data[b]]
    BY <1>6 DEF @@
  <2> QED BY <2>2, <2>3
<1>24. Boards[p.device].depth \in Nat
  BY <1>6 DEF Boards
<1>25. \A n \in 1 .. Len(p.phases) : PhaseFits(p, s, n) /\ InputsThere(p, s, n)
  <2>1. \A n \in 1 .. Len(p.phases) : n = 1
    BY <1>9
  <2> QED BY <1>20, <1>22, <2>1
<1>26. Len(p.phases) \in Nat \ {0} /\ p.span \in Nat \ {0}
  BY <1>6, <1>9
<1>27. Fitting(p, s)
  BY <1>18, <1>23, <1>24, <1>25, <1>26 DEF Fitting
<1> QED BY <1>1, <1>27 DEF HasPlan

-----------------------------------------------------------------------------
(* The examples.                                                           *)

(* The programs of examples/, for any number of iterations of the graph    *)
(* and of repetitions or pipelined transactions, and for any size of the   *)
(* channelizer there are ports for.                                        *)
IsExample(p) ==
  \/ \E iters \in Nat \ {0}, reps \in Nat \ {0} :
       \/ p = Vck190Adder(iters, reps) \/ p = Vek280Adder(iters, reps)
       \/ p = Vek385Adder(iters, reps) \/ p = DmaFifo(iters, reps)
       \/ p = Normalization(iters, reps)
  \/ \E iters \in Nat \ {0} : p = MatlabAdder(iters) \/ p = PythonAdder(iters)
  \/ \E transactions \in Nat \ {0}, iters \in Nat \ {0} : p = PythonPipelined(transactions, iters)
  \/ \E tiles, widgets, firs :
       Sizes(tiles, widgets, firs) /\ p = Channelizer(tiles, widgets, firs)

(* Every example has a plan.                                               *)
LEMMA ExamplesHavePlans ==
  ASSUME NEW p, IsExample(p)
  PROVE  HasPlan(p)
<1>1. ASSUME NEW iters \in Nat \ {0}, NEW reps \in Nat \ {0},
             \/ p = Vck190Adder(iters, reps) \/ p = Vek280Adder(iters, reps)
             \/ p = Vek385Adder(iters, reps) \/ p = DmaFifo(iters, reps)
             \/ p = Normalization(iters, reps)
      PROVE  HasPlan(p)
  BY <1>1, BoardAddersFit, DmaFifoFits, NormalizationFits
<1>2. ASSUME NEW iters \in Nat \ {0}, p = MatlabAdder(iters) \/ p = PythonAdder(iters)
      PROVE  HasPlan(p)
  BY <1>2, MatlabFitsPlan, PythonFitsPlan
<1>3. ASSUME NEW transactions \in Nat \ {0}, NEW iters \in Nat \ {0},
             p = PythonPipelined(transactions, iters)
      PROVE  HasPlan(p)
  BY <1>3, PipelinedFitsPlan
<1>4. ASSUME NEW tiles, NEW widgets, NEW firs, Sizes(tiles, widgets, firs),
             p = Channelizer(tiles, widgets, firs)
      PROVE  HasPlan(p)
  BY <1>4, ChannelizerFits
<1> QED BY <1>1, <1>2, <1>3, <1>4 DEF IsExample

(* In every example, whatever its iterations and repetitions, the n-th     *)
(* item that comes back was made from the n-th place of each input that    *)
(* takes part in it, of the same transaction, however far ahead of each    *)
(* other the channels of the data mover and the kernels of the graph run.  *)
THEOREM ExamplesInStep ==
  ASSUME \A i \in DOMAIN Programs : IsExample(Programs[i])
  PROVE  Spec => []StreamsInStep
<1>1. \A i \in DOMAIN Programs : HasPlan(Programs[i])
  BY ExamplesHavePlans
<1>2. Spec => [](StreamsInStep /\ NothingLeftOver /\ ResultsGolden)
  BY <1>1, PlannedProgramsGolden
<1>3. StreamsInStep /\ NothingLeftOver /\ ResultsGolden => StreamsInStep
  OBVIOUS
<1> QED BY <1>2, <1>3, PTL

(* After waitForRes and waitForGraph of an example no data are left in a   *)
(* queue of its graph and every kernel is at its beginning again: what the *)
(* items, repetitions and iterations of client/tb.cpp say is exactly what  *)
(* the rates of the graph consume and produce.                             *)
THEOREM ExamplesNothingLeftOver ==
  ASSUME \A i \in DOMAIN Programs : IsExample(Programs[i])
  PROVE  Spec => []NothingLeftOver
<1>1. \A i \in DOMAIN Programs : HasPlan(Programs[i])
  BY ExamplesHavePlans
<1>2. Spec => [](StreamsInStep /\ NothingLeftOver /\ ResultsGolden)
  BY <1>1, PlannedProgramsGolden
<1>3. StreamsInStep /\ NothingLeftOver /\ ResultsGolden => NothingLeftOver
  OBVIOUS
<1> QED BY <1>2, <1>3, PTL

(* No example finds a difference to its golden data where it compares: the *)
(* results isResultValid vouches for are whole, in order and at the place  *)
(* of their transaction, in pipelines too, and a phase that reads what an  *)
(* earlier one has brought back reads the right data.                      *)
THEOREM ExamplesGolden ==
  ASSUME \A i \in DOMAIN Programs : IsExample(Programs[i])
  PROVE  Spec => []ResultsGolden
<1>1. \A i \in DOMAIN Programs : HasPlan(Programs[i])
  BY ExamplesHavePlans
<1>2. Spec => [](StreamsInStep /\ NothingLeftOver /\ ResultsGolden)
  BY <1>1, PlannedProgramsGolden
<1>3. StreamsInStep /\ NothingLeftOver /\ ResultsGolden => ResultsGolden
  OBVIOUS
<1> QED BY <1>2, <1>3, PTL
=============================================================================
