------------------------ MODULE MultinodeBuffersProofs ------------------------
(***************************************************************************)
(* What holds of MultinodeBuffers for every number of ranks, of samples    *)
(* and of pairs, and for every sequence of multinode testcases.            *)
(*                                                                         *)
(* The rounds of every testcase are well formed (1).  What a rank does     *)
(* next depends on where it is alone (2), and a step of the system is the  *)
(* step of one rank (3).  What a rank has mapped is a function of where it *)
(* is, so that nothing leaks, whoever throws (4).                          *)
(*                                                                         *)
(* The rest needs rounds that throw on every rank or on none, see          *)
(* Together.  Then all ranks walk one path of local states (5); the calls  *)
(* they wait in bound how far apart they are on it (6); and the properties *)
(* of several ranks follow from those of the path (7).                     *)
(*                                                                         *)
(* Last, the matrix.  The calls after a round stand for sets of copies     *)
(* (8); what every rank has sent behind it on the path, and from whom it   *)
(* has heard, makes what it takes from them these sets (9); so its cells   *)
(* are those of the rounds behind it (10), and each says what the          *)
(* description of its testcase promises (11).                              *)
(***************************************************************************)
EXTENDS MultinodeBuffers, FiniteSetTheorems, TLAPS

-------------------------------------------------------------------------------
(***************************************************************************)
(* 1. The rounds.                                                          *)
(***************************************************************************)
RanksOf(p) == 0 .. p.size - 1
BufferOn(p) == [kind : {"local", "unicast", "multicast"}, owner : RanksOf(p)]
CallsOn(p) == [op : {"barrier", "allreduce", "bcast"}, root : RanksOf(p) \union {Nobody}]

\* The buffer of copy c that decides who executes it.
Preferred(prefer, copy) == IF prefer = "src" THEN copy[1] ELSE copy[2]

\* Every buffer that is constructed is destroyed, every copy has a buffer that
\* is shared, and one that is not is its executor's.
GoodShape(p, prefer, s) ==
  /\ s.buffers \in Seq(BufferOn(p))
  /\ \E n \in Nat : DOMAIN s.copies = 1 .. n
  /\ s.destroy \in Seq(Nat) /\ \A m \in DOMAIN s.destroy : s.destroy[m] \in DOMAIN s.buffers
  /\ \A c \in DOMAIN s.copies, n \in {1, 2} : s.copies[c][n] \in DOMAIN s.buffers
  /\ \A i \in DOMAIN s.buffers : \E m \in DOMAIN s.destroy : s.destroy[m] = i
  /\ 1 \in DOMAIN s.copies
  /\ \E i \in DOMAIN s.buffers : s.buffers[i].kind # "local"
  /\ \A c \in DOMAIN s.copies, n \in {1, 2} :
       s.buffers[s.copies[c][n]].kind = "local" =>
         s.buffers[s.copies[c][n]].owner = s.buffers[Preferred(prefer, s.copies[c])].owner

GoodRound(p, k, d) ==
  /\ d.buffers \in Seq(BufferOn(p))
  /\ d.destroy \in Seq(Nat) /\ \A m \in DOMAIN d.destroy : d.destroy[m] \in DOMAIN d.buffers
  /\ d.after \in Seq(CallsOn(p))
  /\ \A c \in DOMAIN d.copies, n \in {1, 2} : d.copies[c][n] \in DOMAIN d.buffers
  /\ k = 1 => d.copies = <<>> /\ d.destroy = <<>> /\ d.buffers = <<Unicast(0)>>
  /\ k # 1 => /\ d.copies # <<>>
              /\ \A i \in DOMAIN d.buffers : \E m \in DOMAIN d.destroy : d.destroy[m] = i
              /\ \E i \in DOMAIN d.buffers : d.buffers[i].kind # "local"
  /\ \A c \in DOMAIN d.copies, n \in {1, 2} :
       d.buffers[d.copies[c][n]].kind = "local" =>
         d.buffers[d.copies[c][n]].owner = d.executors[c]

LEMMA BufferTypes ==
  ASSUME NEW p, NEW r \in RanksOf(p)
  PROVE  {Local(r), Unicast(r), Multicast(r)} \subseteq BufferOn(p)
  BY DEF BufferOn, Local, Unicast, Multicast

LEMMA PairShapeGood ==
  ASSUME NEW p, NEW pair \in RanksOf(p) \X RanksOf(p), NEW prefer,
         NEW shape \in {"read", "write", "both_read", "both_write"}
  PROVE  GoodShape(p, prefer, PairShape(shape, pair))
  <1> DEFINE a == Unicast(pair[1])
             b == Unicast(pair[2])
  <1>1. a \in BufferOn(p) /\ b \in BufferOn(p) /\ a.kind # "local" /\ b.kind # "local"
    BY BufferTypes DEF Unicast
  <1> HIDE DEF a, b
  <1>2. CASE shape \in {"read", "write"}
    <2> DEFINE copies == IF shape = "read" THEN <<<<2, 1>>>> ELSE <<<<1, 2>>>>
               s == Shape(pair, <<a, b>>, copies, Backwards(2))
    <2>1. PairShape(shape, pair) = s
      BY <1>2 DEF PairShape, a, b
    <2>2. s.buffers = <<a, b>> /\ s.copies = copies /\ s.destroy = <<2, 1>>
      BY DEF Shape, Backwards
    <2>3. PICK x \in {1, 2} \X {1, 2} : copies = <<x>>
      <3>1. <<2, 1>> \in {1, 2} \X {1, 2} /\ <<1, 2>> \in {1, 2} \X {1, 2}
        OBVIOUS
      <3>2. QED
        BY <3>1
    <2> HIDE DEF s, copies
    <2>4. DOMAIN s.buffers = {1, 2} /\ \A i \in {1, 2} : s.buffers[i].kind # "local"
      BY <1>1, <2>2
    <2>5. s.buffers \in Seq(BufferOn(p)) /\ s.destroy \in Seq(Nat)
      BY <1>1, <2>2
    <2>6. s.destroy[1] = 2 /\ s.destroy[2] = 1 /\ DOMAIN s.destroy = {1, 2}
      BY <2>2
    <2>7. s.copies \in Seq({1, 2} \X {1, 2})
      BY <2>2, <2>3
    <2>8. /\ \A c \in DOMAIN s.copies, n \in {1, 2} : s.copies[c][n] \in {1, 2}
          /\ 1 \in DOMAIN s.copies
      BY <2>2, <2>3, <2>7
    <2>9. GoodShape(p, prefer, s)
      <3>1. \A m \in DOMAIN s.destroy : s.destroy[m] \in DOMAIN s.buffers
        BY <2>2, <2>4
      <3>2. \A i \in DOMAIN s.buffers : \E m \in DOMAIN s.destroy : s.destroy[m] = i
        BY <2>4, <2>6
      <3>3. \E i \in DOMAIN s.buffers : s.buffers[i].kind # "local"
        BY <2>4
      <3>4. \A c \in DOMAIN s.copies, n \in {1, 2} : s.buffers[s.copies[c][n]].kind # "local"
        BY <2>4, <2>8
      <3>5. \E n \in Nat : DOMAIN s.copies = 1 .. n
        BY <2>7
      <3>6. QED
        BY <2>4, <2>5, <2>8, <3>1, <3>2, <3>3, <3>4, <3>5 DEF GoodShape
    <2>10. QED
      BY <2>1, <2>9
  <1>3. CASE shape \in {"both_read", "both_write"}
    <2> DEFINE copies == IF shape = "both_read" THEN <<<<3, 1>>, <<2, 4>>>>
                                                ELSE <<<<1, 3>>, <<4, 2>>>>
               s == Shape(pair, <<a, a, b, b>>, copies, Backwards(4))
    <2>1. PairShape(shape, pair) = s
      BY <1>3 DEF PairShape, a, b
    <2>2. s.buffers = <<a, a, b, b>> /\ s.copies = copies /\ s.destroy = <<4, 3, 2, 1>>
      BY DEF Shape, Backwards
    <2>3. PICK x \in (1 .. 4) \X (1 .. 4), y \in (1 .. 4) \X (1 .. 4) : copies = <<x, y>>
      <3>1. /\ <<3, 1>> \in (1 .. 4) \X (1 .. 4) /\ <<2, 4>> \in (1 .. 4) \X (1 .. 4)
            /\ <<1, 3>> \in (1 .. 4) \X (1 .. 4) /\ <<4, 2>> \in (1 .. 4) \X (1 .. 4)
        OBVIOUS
      <3>2. QED
        BY <3>1
    <2> HIDE DEF s, copies
    <2>4. DOMAIN s.buffers = 1 .. 4 /\ \A i \in 1 .. 4 : s.buffers[i].kind # "local"
      BY <1>1, <2>2
    <2>5. s.buffers \in Seq(BufferOn(p)) /\ s.destroy \in Seq(Nat)
      BY <1>1, <2>2
    <2>6. \A i \in 1 .. 4 : s.destroy[5 - i] = i /\ 5 - i \in DOMAIN s.destroy
      BY <2>2
    <2>7. s.copies \in Seq((1 .. 4) \X (1 .. 4))
      BY <2>2, <2>3
    <2>8. /\ \A c \in DOMAIN s.copies, n \in {1, 2} : s.copies[c][n] \in 1 .. 4
          /\ 1 \in DOMAIN s.copies
      BY <2>2, <2>3, <2>7
    <2>9. GoodShape(p, prefer, s)
      <3>1. \A m \in DOMAIN s.destroy : s.destroy[m] \in DOMAIN s.buffers
        BY <2>2, <2>4
      <3>2. \A i \in DOMAIN s.buffers : \E m \in DOMAIN s.destroy : s.destroy[m] = i
        BY <2>4, <2>6
      <3>3. \E i \in DOMAIN s.buffers : s.buffers[i].kind # "local"
        BY <2>4
      <3>4. \A c \in DOMAIN s.copies, n \in {1, 2} : s.buffers[s.copies[c][n]].kind # "local"
        BY <2>4, <2>8
      <3>5. \E n \in Nat : DOMAIN s.copies = 1 .. n
        BY <2>7
      <3>6. QED
        BY <2>4, <2>5, <2>8, <3>1, <3>2, <3>3, <3>4, <3>5 DEF GoodShape
    <2>10. QED
      BY <2>1, <2>9
  <1>4. QED
    BY <1>2, <1>3

\* Of the two buffers of a copy one is shared at least, and one that is not
\* belongs to the rank that executes the copy.
Sided(prefer, src, dst) ==
  /\ src.kind # "local" \/ dst.kind # "local"
  /\ src.kind = "local" => prefer = "src" \/ src.owner = dst.owner
  /\ dst.kind = "local" => prefer = "dst" \/ src.owner = dst.owner

LEMMA VectorsGood ==
  ASSUME NEW p, NEW cell, NEW n \in Nat \ {0}, NEW prefer \in {"src", "dst"},
         NEW src \in [1 .. n -> BufferOn(p)], NEW dst \in [1 .. n -> BufferOn(p)],
         \A i \in 1 .. n : Sided(prefer, src[i], dst[i])
  PROVE  GoodShape(p, prefer, Vectors(cell, src, dst))
  <1> DEFINE s == Vectors(cell, src, dst)
  <1>1. src \in Seq(BufferOn(p)) /\ Len(src) = n
    OBVIOUS
  <1>2. /\ s.buffers = [i \in 1 .. 2 * n |-> IF i % 2 = 1 THEN src[(i + 1) \div 2] ELSE dst[i \div 2]]
        /\ s.copies = [i \in 1 .. n |-> <<2 * i - 1, 2 * i>>]
        /\ s.destroy = [i \in 1 .. 2 * n |-> IF i <= n THEN 2 * i ELSE 2 * (i - n) - 1]
    BY <1>1 DEF Vectors, Shape
  <1> HIDE DEF s
  <1>3. \A i \in 1 .. 2 * n : s.buffers[i] \in BufferOn(p)
    <2> SUFFICES ASSUME NEW i \in 1 .. 2 * n PROVE s.buffers[i] \in BufferOn(p)
      OBVIOUS
    <2>1. CASE i % 2 = 1
      <3>1. (i + 1) \div 2 \in 1 .. n
        BY <2>1
      <3>2. QED
        BY <1>2, <2>1, <3>1
    <2>2. CASE i % 2 # 1
      <3>1. i \div 2 \in 1 .. n
        BY <2>2
      <3>2. QED
        BY <1>2, <2>2, <3>1
    <2>3. QED
      BY <2>1, <2>2
  <1>4. DOMAIN s.buffers = 1 .. 2 * n /\ s.buffers \in Seq(BufferOn(p))
    BY <1>2, <1>3
  <1>5. DOMAIN s.destroy = 1 .. 2 * n /\ \A i \in 1 .. 2 * n : s.destroy[i] \in 1 .. 2 * n
    BY <1>2
  <1>6. s.destroy \in Seq(Nat)
    BY <1>2
  <1>7. \A i \in 1 .. 2 * n : \E m \in DOMAIN s.destroy : s.destroy[m] = i
    <2> SUFFICES ASSUME NEW i \in 1 .. 2 * n
                 PROVE  \E m \in DOMAIN s.destroy : s.destroy[m] = i
      OBVIOUS
    <2>1. CASE i % 2 = 1
      <3>1. (i + 1) \div 2 + n \in 1 .. 2 * n /\ 2 * ((i + 1) \div 2) - 1 = i
            /\ (i + 1) \div 2 >= 1
        BY <2>1
      <3>2. s.destroy[(i + 1) \div 2 + n] = i
        BY <1>2, <3>1
      <3>3. (i + 1) \div 2 + n \in DOMAIN s.destroy
        BY <1>2, <3>1
      <3>4. QED
        BY <3>2, <3>3
    <2>2. CASE i % 2 # 1
      <3>1. i \div 2 \in 1 .. n /\ 2 * (i \div 2) = i
        BY <2>2
      <3>2. i \div 2 \in DOMAIN s.destroy /\ s.destroy[i \div 2] = i
        BY <1>2, <3>1
      <3>3. QED
        BY <3>2
    <2>3. QED
      BY <2>1, <2>2
  <1>8. \A c \in 1 .. n :
          /\ s.copies[c][1] = 2 * c - 1 /\ s.copies[c][2] = 2 * c
          /\ s.buffers[2 * c - 1] = src[c] /\ s.buffers[2 * c] = dst[c]
          /\ 2 * c - 1 \in 1 .. 2 * n /\ 2 * c \in 1 .. 2 * n
    <2> SUFFICES ASSUME NEW c \in 1 .. n
                 PROVE  /\ s.copies[c][1] = 2 * c - 1 /\ s.copies[c][2] = 2 * c
                        /\ s.buffers[2 * c - 1] = src[c] /\ s.buffers[2 * c] = dst[c]
                        /\ 2 * c - 1 \in 1 .. 2 * n /\ 2 * c \in 1 .. 2 * n
      OBVIOUS
    <2>1. (2 * c - 1) % 2 = 1 /\ (2 * c) % 2 = 0 /\ (2 * c - 1 + 1) \div 2 = c /\ (2 * c) \div 2 = c
      OBVIOUS
    <2>2. 2 * c - 1 \in 1 .. 2 * n /\ 2 * c \in 1 .. 2 * n
      OBVIOUS
    <2>3. QED
      BY <1>2, <2>1, <2>2
  <1>9. \E i \in 1 .. 2 * n : s.buffers[i].kind # "local"
    BY <1>8 DEF Sided
  <1>10. \A c \in 1 .. n, k \in {1, 2} :
           s.buffers[s.copies[c][k]].kind = "local" =>
             s.buffers[s.copies[c][k]].owner = s.buffers[Preferred(prefer, s.copies[c])].owner
    <2> SUFFICES ASSUME NEW c \in 1 .. n, NEW k \in {1, 2},
                        s.buffers[s.copies[c][k]].kind = "local"
                 PROVE  s.buffers[s.copies[c][k]].owner
                          = s.buffers[Preferred(prefer, s.copies[c])].owner
      OBVIOUS
    <2>1. s.buffers[Preferred(prefer, s.copies[c])] = IF prefer = "src" THEN src[c] ELSE dst[c]
      BY <1>8 DEF Preferred
    <2>2. CASE k = 1
      <3>1. s.buffers[s.copies[c][k]] = src[c]
        BY <1>8, <2>2
      <3>2. QED
        BY <2>1, <3>1 DEF Sided
    <2>3. CASE k = 2
      <3>1. s.buffers[s.copies[c][k]] = dst[c]
        BY <1>8, <2>3
      <3>2. QED
        BY <2>1, <3>1 DEF Sided
    <2>4. QED
      BY <2>2, <2>3
  <1>11. DOMAIN s.copies = 1 .. n /\ 1 \in DOMAIN s.copies
    BY <1>2
  <1>12. GoodShape(p, prefer, s)
    <2>1. \A c \in DOMAIN s.copies, k \in {1, 2} : s.copies[c][k] \in DOMAIN s.buffers
      BY <1>4, <1>8, <1>11
    <2>2. \A i \in DOMAIN s.buffers : \E m \in DOMAIN s.destroy : s.destroy[m] = i
      BY <1>4, <1>7
    <2>3. \E i \in DOMAIN s.buffers : s.buffers[i].kind # "local"
      BY <1>4, <1>9
    <2>4. QED
      BY <1>4, <1>5, <1>6, <1>10, <1>11, <2>1, <2>2, <2>3 DEF GoodShape
  <1>13. QED
    BY <1>12 DEF s

LEMMA RunTable ==
  ASSUME NEW key \in DOMAIN Runs
  PROVE  /\ Runs[key].prefer \in {"src", "dst"}
         /\ Runs[key].value \in {"FIRST", "SUM", "VECTOR"}
         /\ Sampled(key) => Runs[key].shape \in {"read", "write", "both_read", "both_write"}
         /\ ~Sampled(key) =>
              \/ Runs[key].shape = "to_one" /\ Runs[key].prefer = "src"
              \/ Runs[key].shape \in {"from_one", "broadcast_one", "broadcast_all"}
                   /\ Runs[key].prefer = "dst"
              \/ Runs[key].shape = "bisect"
  <1>1. CASE key \in DOMAIN PairRuns
    BY <1>1 DEF Runs, PairRuns, Run, Sampled
  <1>2. CASE key \in DOMAIN CollectiveRuns \ DOMAIN PairRuns
    BY <1>2 DEF Runs, CollectiveRuns, Run, Sampled
  <1>3. QED
    BY <1>1, <1>2 DEF Runs

LEMMA OthersAreRanks ==
  ASSUME NEW size \in Nat, NEW d \in 0 .. size - 1, NEW i \in 1 .. size - 1
  PROVE  Others(size, d)[i] \in 0 .. size - 1
  BY DEF Others

LEMMA ShapesGood ==
  ASSUME NEW p, p.size \in Nat, p.size >= 2,
         p.pairs \in Seq({ab \in RanksOf(p) \X RanksOf(p) : ab[1] # ab[2]}),
         NEW key \in DOMAIN Runs, NEW i \in DOMAIN Shapes(p, key)
  PROVE  GoodShape(p, Runs[key].prefer, Shapes(p, key)[i])
  <1> DEFINE prefer == Runs[key].prefer
             shape == Runs[key].shape
             n == p.size
  <1>1. prefer \in {"src", "dst"}
    BY RunTable
  <1>2. CASE Sampled(key)
    <2>1. Shapes(p, key) = [j \in DOMAIN p.pairs |-> PairShape(shape, p.pairs[j])]
      <3>1. shape \in {"read", "write", "both_read", "both_write"}
        BY <1>2, RunTable
      <3>2. QED
        BY <1>2, <3>1 DEF Shapes
    <2>2. shape \in {"read", "write", "both_read", "both_write"}
      BY <1>2, RunTable
    <2>3. p.pairs[i] \in RanksOf(p) \X RanksOf(p)
      BY <2>1
    <2>4. GoodShape(p, prefer, PairShape(shape, p.pairs[i]))
      BY <2>2, <2>3, PairShapeGood
    <2>5. QED
      BY <2>1, <2>4
  <1>3. CASE ~Sampled(key) /\ shape = "to_one"
    <2> DEFINE src == [j \in 1 .. n - 1 |-> Local(Others(n, i - 1)[j])]
               dst == [j \in 1 .. n - 1 |-> Unicast(i - 1)]
    <2>1. Shapes(p, key) = [j \in 1 .. n |-> ToOne(n, j - 1)]
      BY <1>3 DEF Shapes
    <2>2. i \in 1 .. n /\ i - 1 \in RanksOf(p)
      BY <2>1 DEF RanksOf
    <2>3. src \in [1 .. n - 1 -> BufferOn(p)] /\ dst \in [1 .. n - 1 -> BufferOn(p)]
      BY <2>2, OthersAreRanks, BufferTypes DEF RanksOf
    <2>4. prefer = "src"
      BY <1>3, RunTable
    <2>5. \A j \in 1 .. n - 1 : Sided(prefer, src[j], dst[j])
      BY <2>4 DEF Unicast, Local, Sided
    <2> HIDE DEF src, dst
    <2>6. GoodShape(p, prefer, Vectors(<<0, i - 1>>, src, dst))
      <3>1. n - 1 \in Nat \ {0}
        OBVIOUS
      <3>2. QED
        BY <1>1, <2>3, <2>5, <3>1, VectorsGood
    <2>7. QED
      BY <2>1, <2>2, <2>6 DEF ToOne, src, dst
  <1>4. CASE ~Sampled(key) /\ shape = "from_one"
    <2> DEFINE src == [j \in 1 .. n - 1 |-> Unicast(i - 1)]
               dst == [j \in 1 .. n - 1 |-> Local(Others(n, i - 1)[j])]
    <2>1. Shapes(p, key) = [j \in 1 .. n |-> FromOne(n, j - 1)]
      BY <1>4 DEF Shapes
    <2>2. i \in 1 .. n /\ i - 1 \in RanksOf(p)
      BY <2>1 DEF RanksOf
    <2>3. src \in [1 .. n - 1 -> BufferOn(p)] /\ dst \in [1 .. n - 1 -> BufferOn(p)]
      BY <2>2, OthersAreRanks, BufferTypes DEF RanksOf
    <2>4. prefer = "dst"
      BY <1>4, RunTable
    <2>5. \A j \in 1 .. n - 1 : Sided(prefer, src[j], dst[j])
      BY <2>4 DEF Unicast, Local, Sided
    <2> HIDE DEF src, dst
    <2>6. GoodShape(p, prefer, Vectors(<<0, i - 1>>, src, dst))
      <3>1. n - 1 \in Nat \ {0}
        OBVIOUS
      <3>2. QED
        BY <1>1, <2>3, <2>5, <3>1, VectorsGood
    <2>7. QED
      BY <2>1, <2>2, <2>6 DEF FromOne, src, dst
  <1>5. CASE ~Sampled(key) /\ shape = "broadcast_one"
    <2> DEFINE src == <<Local(i - 1)>>
               dst == <<Multicast(i - 1)>>
    <2>1. Shapes(p, key) = [j \in 1 .. n |-> BroadcastOne(j - 1)]
      BY <1>5 DEF Shapes
    <2>2. i \in 1 .. n /\ i - 1 \in RanksOf(p)
      BY <2>1 DEF RanksOf
    <2>3. Local(i - 1) \in BufferOn(p) /\ Multicast(i - 1) \in BufferOn(p)
      BY <2>2, BufferTypes
    <2>4. src \in [1 .. 1 -> BufferOn(p)] /\ dst \in [1 .. 1 -> BufferOn(p)]
      BY <2>3
    <2>5. \A j \in 1 .. 1 : Sided(prefer, src[j], dst[j])
      BY DEF Local, Multicast, Sided
    <2> HIDE DEF src, dst
    <2>6. GoodShape(p, prefer, Vectors(<<0, i - 1>>, src, dst))
      <3>1. 1 \in Nat \ {0}
        OBVIOUS
      <3>2. QED
        BY <1>1, <2>4, <2>5, <3>1, VectorsGood, Zenon
    <2>7. QED
      BY <2>1, <2>2, <2>6 DEF BroadcastOne, src, dst
  <1>6. CASE ~Sampled(key) /\ shape = "broadcast_all"
    <2> DEFINE src == [j \in 1 .. n |-> Local(j - 1)]
               dst == [j \in 1 .. n |-> Multicast(j - 1)]
    <2>1. Shapes(p, key) = <<BroadcastAll(n)>>
      BY <1>6 DEF Shapes
    <2>2. src \in [1 .. n -> BufferOn(p)] /\ dst \in [1 .. n -> BufferOn(p)]
      <3>1. \A j \in 1 .. n : j - 1 \in RanksOf(p)
        BY DEF RanksOf
      <3>2. QED
        BY <3>1, BufferTypes
    <2>3. \A j \in 1 .. n : Sided(prefer, src[j], dst[j])
      BY DEF Local, Multicast, Sided
    <2> HIDE DEF src, dst
    <2>4. GoodShape(p, prefer, Vectors(<<0, 0>>, src, dst))
      <3>1. n \in Nat \ {0}
        OBVIOUS
      <3>2. QED
        BY <1>1, <2>2, <2>3, <3>1, VectorsGood
    <2>5. QED
      BY <2>1, <2>4 DEF BroadcastAll, src, dst
  <1>7. CASE ~Sampled(key) /\ shape = "bisect"
    <2> DEFINE src == [j \in 1 .. n |-> Unicast(j - 1)]
               dst == [j \in 1 .. n |-> Unicast((j - 1 + n \div 2) % n)]
               there == Vectors(<<0, 0>>, src, dst)
               back == [j \in 1 .. n |-> <<2 * j, 2 * j - 1>>]
    <2>1. Shapes(p, key) = <<Bisect(n)>> /\ Bisect(n) = [there EXCEPT !.copies = back]
      BY <1>7 DEF Shapes, Bisect
    <2>2. \A j \in 1 .. n : (j - 1 + n \div 2) % n \in RanksOf(p)
      BY SMTT(30) DEF RanksOf
    <2>3. src \in [1 .. n -> BufferOn(p)] /\ dst \in [1 .. n -> BufferOn(p)]
      <3>1. \A j \in 1 .. n : j - 1 \in RanksOf(p)
        BY DEF RanksOf
      <3>2. QED
        BY <2>2, <3>1, BufferTypes
    <2>4. \A j \in 1 .. n : dst[j].kind # "local" /\ src[j].kind # "local"
      BY DEF Unicast
    <2> DEFINE sided == \A j \in 1 .. n : Sided(prefer, src[j], dst[j])
    <2>13. sided
      BY <2>4 DEF Sided
    <2>5. Len(src) = n
      OBVIOUS
    <2> HIDE DEF src, dst
    <2>6. GoodShape(p, prefer, there)
      <3>1. n \in Nat \ {0}
        OBVIOUS
      <3>2. QED
        BY <1>1, <2>3, <2>13, <3>1, VectorsGood
    <2>7. /\ Bisect(n).buffers = there.buffers /\ Bisect(n).destroy = there.destroy
          /\ Bisect(n).copies = back
      BY <2>1 DEF Vectors, Shape
    <2>8. /\ DOMAIN there.buffers = 1 .. 2 * n
          /\ \A j \in 1 .. 2 * n : there.buffers[j].kind # "local"
      <3>1. there.buffers = [j \in 1 .. 2 * n |-> IF j % 2 = 1 THEN src[(j + 1) \div 2] ELSE dst[j \div 2]]
        BY <2>5 DEF Vectors, Shape
      <3>2. \A j \in 1 .. 2 * n : /\ j % 2 = 1 => (j + 1) \div 2 \in 1 .. n
                                  /\ j % 2 # 1 => j \div 2 \in 1 .. n
        OBVIOUS
      <3>3. QED
        BY <2>4, <3>1, <3>2, ZenonT(40)
    <2>9. \A c \in 1 .. n, k \in {1, 2} : back[c][k] \in 1 .. 2 * n
      OBVIOUS
    <2> HIDE DEF there
    <2>10. DOMAIN back = 1 .. n /\ 1 \in DOMAIN back
      OBVIOUS
    <2> HIDE DEF back
    <2>11. GoodShape(p, prefer, Bisect(n))
      <3> DEFINE s == Bisect(n)
      <3>1. DOMAIN s.copies = 1 .. n /\ DOMAIN s.buffers = 1 .. 2 * n
        BY <2>7, <2>8, <2>10
      <3>2. \A c \in DOMAIN s.copies, k \in {1, 2} :
              s.copies[c][k] \in DOMAIN s.buffers /\ s.buffers[s.copies[c][k]].kind # "local"
        BY <2>7, <2>8, <2>9, <3>1
      <3>3. /\ s.buffers \in Seq(BufferOn(p))
            /\ s.destroy \in Seq(Nat) /\ \A m \in DOMAIN s.destroy : s.destroy[m] \in DOMAIN s.buffers
            /\ \A j \in DOMAIN s.buffers : \E m \in DOMAIN s.destroy : s.destroy[m] = j
            /\ \E j \in DOMAIN s.buffers : s.buffers[j].kind # "local"
        BY <2>6, <2>7 DEF GoodShape
      <3>4. 1 \in DOMAIN s.copies
        BY <2>7, <2>10
      <3> HIDE DEF s
      <3>5. GoodShape(p, prefer, s)
        BY <3>1, <3>2, <3>3, <3>4 DEF GoodShape
      <3>6. QED
        BY <3>5 DEF s
    <2>12. QED
      BY <2>1, <2>11
  <1>8. QED
    BY <1>2, <1>3, <1>4, <1>5, <1>6, <1>7, RunTable

\* The calls that bring the results to all ranks have ranks for roots.
LEMMA ResultsGood ==
  ASSUME NEW p, NEW key \in DOMAIN Runs, NEW n \in Nat \ {0},
         NEW executors \in [1 .. n -> RanksOf(p)]
  PROVE  Results(key, executors) \in Seq(CallsOn(p))
  <1>1. Allreduce \in CallsOn(p) /\ \A i \in 1 .. n : Bcast(executors[i]) \in CallsOn(p)
    BY DEF Allreduce, Bcast, CallsOn, Nobody
  <1>2. <<Bcast(executors[1])>> \in Seq(CallsOn(p)) /\ <<Allreduce>> \in Seq(CallsOn(p))
    BY <1>1
  <1>3. [i \in DOMAIN executors |-> Bcast(executors[i])] \in Seq(CallsOn(p))
    BY <1>1
  <1>4. QED
    BY <1>2, <1>3, RunTable DEF Results

LEMMA MeasuredGood ==
  ASSUME NEW p, NEW key \in DOMAIN Runs, NEW s, GoodShape(p, Runs[key].prefer, s),
         NEW n \in Nat, DOMAIN s.copies = 1 .. n, NEW k, k # 1
  PROVE  GoodRound(p, k, MeasuredRound(p, key, s))
  <1> DEFINE d == MeasuredRound(p, key, s)
             x == Executors(key, s)
  <1>1. /\ d.buffers = s.buffers /\ d.copies = s.copies /\ d.destroy = s.destroy
        /\ d.executors = x /\ d.after = Results(key, x)
    BY DEF MeasuredRound, Round
  <1>2. \A c \in 1 .. n : x[c] = s.buffers[Preferred(Runs[key].prefer, s.copies[c])].owner
    BY RunTable DEF Executors, Executor, Preferred
  <1>3. \A c \in 1 .. n : x[c] \in RanksOf(p)
    <2> TAKE c \in 1 .. n
    <2>1. Preferred(Runs[key].prefer, s.copies[c]) \in DOMAIN s.buffers
      BY DEF GoodShape, Preferred
    <2>2. s.buffers[Preferred(Runs[key].prefer, s.copies[c])] \in BufferOn(p)
      BY <2>1 DEF GoodShape
    <2>3. QED
      BY <1>2, <2>2 DEF BufferOn
  <1>4. x \in [1 .. n -> RanksOf(p)]
    BY <1>3 DEF Executors
  <1>5. n \in Nat \ {0}
    BY DEF GoodShape
  <1> HIDE DEF x, d
  <1>6. d.after \in Seq(CallsOn(p))
    BY <1>1, <1>4, <1>5, ResultsGood
  <1>7. \A c \in DOMAIN d.copies, m \in {1, 2} :
          d.buffers[d.copies[c][m]].kind = "local" =>
            d.buffers[d.copies[c][m]].owner = d.executors[c]
    <2> SUFFICES ASSUME NEW c \in 1 .. n, NEW m \in {1, 2},
                        s.buffers[s.copies[c][m]].kind = "local"
                 PROVE  s.buffers[s.copies[c][m]].owner = x[c]
      BY <1>1
    <2>1. s.buffers[s.copies[c][m]].owner
            = s.buffers[Preferred(Runs[key].prefer, s.copies[c])].owner
      BY DEF GoodShape
    <2>2. QED
      BY <1>2, <2>1
  <1>8. d.copies # <<>>
    BY <1>1 DEF GoodShape
  <1>9. /\ d.buffers \in Seq(BufferOn(p))
        /\ d.destroy \in Seq(Nat) /\ \A m \in DOMAIN d.destroy : d.destroy[m] \in DOMAIN d.buffers
        /\ \A c \in DOMAIN d.copies, m \in {1, 2} : d.copies[c][m] \in DOMAIN d.buffers
        /\ \A i \in DOMAIN d.buffers : \E m \in DOMAIN d.destroy : d.destroy[m] = i
        /\ \E i \in DOMAIN d.buffers : d.buffers[i].kind # "local"
    <2>1. /\ d.buffers = s.buffers /\ d.destroy = s.destroy /\ d.copies = s.copies
          /\ DOMAIN d.copies = DOMAIN s.copies
      BY <1>1
    <2>2. /\ s.buffers \in Seq(BufferOn(p))
          /\ s.destroy \in Seq(Nat) /\ \A m \in DOMAIN s.destroy : s.destroy[m] \in DOMAIN s.buffers
          /\ \A c \in DOMAIN s.copies, m \in {1, 2} : s.copies[c][m] \in DOMAIN s.buffers
          /\ \A i \in DOMAIN s.buffers : \E m \in DOMAIN s.destroy : s.destroy[m] = i
          /\ \E i \in DOMAIN s.buffers : s.buffers[i].kind # "local"
      BY Zenon DEF GoodShape
    <2>3. QED
      BY <2>1, <2>2, Zenon
  <1>11. GoodRound(p, k, d)
    BY <1>6, <1>7, <1>8, <1>9 DEF GoodRound
  <1>10. QED
    BY <1>11 DEF d

LEMMA HelperGood ==
  ASSUME NEW p, p.size \in Nat, p.size >= 2, NEW t
  PROVE  GoodRound(p, 1, HelperRound(p, t))
  <1> DEFINE d == HelperRound(p, t)
  <1>1. /\ d.buffers = <<Unicast(0)>> /\ d.copies = <<>> /\ d.destroy = <<>>
        /\ d.after \in {<<Barrier, Bcast(0), Bcast(0)>>, <<>>}
    BY DEF HelperRound, Round, Shape
  <1>2. 0 \in RanksOf(p)
    BY DEF RanksOf
  <1>3. Unicast(0) \in BufferOn(p) /\ <<Unicast(0)>> \in Seq(BufferOn(p))
    BY <1>2, BufferTypes
  <1>4. Barrier \in CallsOn(p) /\ Bcast(0) \in CallsOn(p)
    BY <1>2 DEF Barrier, Bcast, CallsOn, Nobody
  <1>5. <<Barrier, Bcast(0), Bcast(0)>> \in Seq(CallsOn(p)) /\ <<>> \in Seq(CallsOn(p))
    BY <1>4
  <1> HIDE DEF d
  <1>6. GoodRound(p, 1, d)
    <2>1. d.buffers \in Seq(BufferOn(p)) /\ d.destroy \in Seq(Nat)
      BY <1>1, <1>3
    <2>4. d.after \in Seq(CallsOn(p))
      BY <1>1, <1>5, Zenon
    <2>2. DOMAIN d.copies = {} /\ DOMAIN d.destroy = {}
      BY <1>1
    <2>3. QED
      BY <1>1, <2>1, <2>2, <2>4 DEF GoodRound
  <1>7. QED
    BY <1>6 DEF d

\* How many rounds there are is a number, and the copies of each are counted.
LEMMA ShapesCounted ==
  ASSUME NEW p, p.size \in Nat,
         p.pairs \in Seq({ab \in RanksOf(p) \X RanksOf(p) : ab[1] # ab[2]}),
         NEW key \in DOMAIN Runs
  PROVE  \E m \in Nat : DOMAIN Shapes(p, key) = 1 .. m /\ Shapes(p, key) = [i \in 1 .. m |-> Shapes(p, key)[i]]
  <1> DEFINE shapes == Shapes(p, key)
  <1>1. CASE Sampled(key)
    <2>1. Runs[key].shape \in {"read", "write", "both_read", "both_write"}
      BY <1>1, RunTable
    <2>2. shapes = [i \in DOMAIN p.pairs |-> PairShape(Runs[key].shape, p.pairs[i])]
      BY <1>1, <2>1 DEF Shapes
    <2>3. DOMAIN p.pairs = 1 .. Len(p.pairs) /\ Len(p.pairs) \in Nat
      OBVIOUS
    <2>4. QED
      BY <2>2, <2>3
  <1>2. CASE ~Sampled(key) /\ Runs[key].shape \in {"broadcast_all", "bisect"}
    <2>1. shapes = <<BroadcastAll(p.size)>> \/ shapes = <<Bisect(p.size)>>
      BY <1>2 DEF Shapes
    <2>2. shapes = [i \in 1 .. 1 |-> shapes[i]] /\ DOMAIN shapes = 1 .. 1
      BY <2>1
    <2>3. QED
      BY <2>2
  <1>3. CASE ~Sampled(key) /\ Runs[key].shape \in {"to_one", "from_one", "broadcast_one"}
    <2>1. \/ shapes = [i \in 1 .. p.size |-> ToOne(p.size, i - 1)]
          \/ shapes = [i \in 1 .. p.size |-> FromOne(p.size, i - 1)]
          \/ shapes = [i \in 1 .. p.size |-> BroadcastOne(i - 1)]
      BY <1>3 DEF Shapes
    <2>2. DOMAIN shapes = 1 .. p.size /\ shapes = [i \in 1 .. p.size |-> shapes[i]]
      BY <2>1
    <2>3. QED
      BY <2>2
  <1>4. QED
    BY <1>1, <1>2, <1>3, RunTable

LEMMA PlanFacts ==
  ASSUME NEW p \in Plans
  PROVE  /\ p.size \in Nat /\ p.size >= 2 /\ 0 \in RanksOf(p)
         /\ p.keys \in Seq(DOMAIN Runs)
         /\ p.pairs \in Seq({ab \in RanksOf(p) \X RanksOf(p) : ab[1] # ab[2]})
  <1>1. /\ p.size \in 2 .. MaxSize /\ MaxSize \in Nat
        /\ p.keys \in Seq(DOMAIN Runs)
        /\ p.pairs \in Seq({ab \in (0 .. p.size - 1) \X (0 .. p.size - 1) : ab[1] # ab[2]})
    BY PlansAssumption, SizeAssumption, Zenon
  <1>2. QED
    BY <1>1 DEF RanksOf

\* The rounds of a testcase: the helper's, then one for every shape.
LEMMA RoundsGood ==
  ASSUME NEW p \in Plans, NEW t \in DOMAIN p.keys
  PROVE  /\ \E m \in Nat : DOMAIN Table[p][t] = 1 .. m + 1 /\ Len(Table[p][t]) = m + 1
         /\ \A k \in DOMAIN Table[p][t] : GoodRound(p, k, Table[p][t][k])
  <1> DEFINE key == p.keys[t]
             shapes == Shapes(p, key)
             measured == [i \in DOMAIN shapes |-> MeasuredRound(p, key, shapes[i])]
             helper == HelperRound(p, t)
  <1>1. key \in DOMAIN Runs
    <2>1. p.keys \in Seq(DOMAIN Runs)
      BY PlanFacts
    <2>2. QED
      BY <2>1
  <1>2. PICK m \in Nat : DOMAIN shapes = 1 .. m
    BY <1>1, PlanFacts, ShapesCounted
  <1>3. Table[p][t] = <<helper>> \o measured
    BY DEF Table, RoundsOf
  <1>4. measured \in Seq({measured[i] : i \in 1 .. m}) /\ Len(measured) = m
    BY <1>2
  <1>5. GoodRound(p, 1, helper)
    BY PlanFacts, HelperGood
  <1>6. \A i \in 1 .. m : GoodRound(p, i + 1, measured[i])
    <2> TAKE i \in 1 .. m
    <2>1. GoodShape(p, Runs[key].prefer, shapes[i])
      BY <1>1, <1>2, PlanFacts, ShapesGood
    <2>2. \E n \in Nat : DOMAIN shapes[i].copies = 1 .. n
      BY <2>1 DEF GoodShape
    <2>3. i + 1 # 1
      OBVIOUS
    <2>4. GoodRound(p, i + 1, MeasuredRound(p, key, shapes[i]))
      BY <1>1, <2>1, <2>2, <2>3, MeasuredGood
    <2>5. QED
      BY <1>2, <2>4
  <1> HIDE DEF helper, measured
  <1>7. /\ DOMAIN Table[p][t] = 1 .. m + 1 /\ Len(Table[p][t]) = m + 1
        /\ Table[p][t][1] = helper
        /\ \A i \in 1 .. m : Table[p][t][i + 1] = measured[i]
    BY <1>3, <1>4
  <1>8. \A k \in 1 .. m + 1 : GoodRound(p, k, Table[p][t][k])
    <2> TAKE k \in 1 .. m + 1
    <2>1. CASE k = 1
      BY <1>5, <1>7, <2>1
    <2>2. CASE k # 1
      <3>1. k - 1 \in 1 .. m /\ k - 1 + 1 = k
        BY <2>2
      <3>2. GoodRound(p, k - 1 + 1, Table[p][t][k - 1 + 1])
        BY <1>6, <1>7, <3>1
      <3>3. QED
        BY <3>1, <3>2
    <2>3. QED
      BY <2>1, <2>2
  <1>9. QED
    BY <1>7, <1>8

-------------------------------------------------------------------------------
(***************************************************************************)
(* 2. Where a rank is, and where it goes next.                             *)
(***************************************************************************)
Operating == {"entry", "copy", "exit", "verify"}
Phases == {"construct", "bcast", "added", "mapped", "collect", "destroy", "unmap", "done"}
            \union Operating
Position == [test : Nat, round : Nat, index : Nat, sample : Nat, phase : Phases]

Here(p, x) == Table[p][x.test][x.round]
BufferAt(p, x) == Here(p, x).buffers[x.index]
DoomedAt(p, x) == Here(p, x).buffers[Here(p, x).destroy[x.index]]
NameAt(x) == <<x.test, x.round, x.index>>

\* What a round has at an index in a phase.
Fits(here, index, phase) ==
  /\ phase = "construct" => index <= Len(here.buffers) + 1
  /\ phase \in {"bcast", "added", "mapped"} =>
       index \in DOMAIN here.buffers /\ here.buffers[index].kind # "local"
  /\ phase = "added" => here.buffers[index].kind = "multicast"
  /\ phase \in Operating => here.copies # <<>>
  /\ phase = "collect" => index <= Len(here.after) + 1
  /\ phase = "destroy" => index <= Len(here.destroy) + 1
  /\ phase = "unmap" =>
       index \in DOMAIN here.destroy /\ here.buffers[here.destroy[index]].kind # "local"

\* A position of plan p.
OnPlan(p, x) ==
  /\ x.test \in DOMAIN p.keys /\ x.round \in DOMAIN Table[p][x.test]
  /\ Fits(Here(p, x), x.index, x.phase)

GoodPosition(p, x) ==
  /\ x \in Position /\ x.index >= 1 /\ x.round >= 1
  /\ IF x.phase = "done" THEN x.test = Len(p.keys) + 1 ELSE OnPlan(p, x)

\* The local state of a rank: its position and the calls it has entered.
Move(x, index, sample, phase) ==
  [test |-> x.test, round |-> x.round, index |-> index, sample |-> sample, phase |-> phase]
Quiet(s, x) == [at |-> x, calls |-> s.calls]
Calling(s, x, call) == [at |-> x, calls |-> Append(s.calls, call)]
Loc(r) == [at |-> at[r], calls |-> calls[r]]

\* A rank enters a call on its way to these.
Fresh == {"bcast", "added", "mapped", "entry", "exit", "unmap"}

GoodLocal(p, s) ==
  /\ GoodPosition(p, s.at)
  /\ s.calls \in Seq(CallsOn(p))
  /\ s.at.phase \in Fresh => s.calls # <<>>
  /\ s.at.phase = "bcast" => s.calls[Len(s.calls)] = Bcast(BufferAt(p, s.at).owner)

\* The step of a rank: it is determined, but for a copy that throws.
AfterConstruct(p, s) ==
  LET x == s.at
  IN  IF x.index <= Len(Here(p, x).buffers)
      THEN IF BufferAt(p, x).kind = "local"
           THEN Quiet(s, Move(x, x.index + 1, x.sample, "construct"))
           ELSE Calling(s, Move(x, x.index, x.sample, "bcast"), Bcast(BufferAt(p, x).owner))
      ELSE IF Here(p, x).copies = <<>>
           THEN Quiet(s, Move(x, 1, x.sample, "collect"))
           ELSE Calling(s, Move(x, x.index, x.sample, "entry"), Barrier)

AfterBcast(p, s) ==
  IF BufferAt(p, s.at).kind = "unicast"
  THEN Calling(s, Move(s.at, s.at.index, s.at.sample, "mapped"), Barrier)
  ELSE Calling(s, Move(s.at, s.at.index, s.at.sample, "added"), Barrier)

AfterCopy(s, thrown) ==
  IF thrown
  THEN Quiet(s, Move(s.at, 1, 0, "destroy"))
  ELSE Calling(s, Move(s.at, s.at.index, s.at.sample, "exit"), Barrier)

AfterVerify(s) ==
  IF s.at.sample < Samples
  THEN Calling(s, Move(s.at, s.at.index, s.at.sample + 1, "entry"), Barrier)
  ELSE Quiet(s, Move(s.at, 1, s.at.sample, "collect"))

AfterCollect(p, s) ==
  IF s.at.index <= Len(Here(p, s.at).after)
  THEN Calling(s, Move(s.at, s.at.index + 1, s.at.sample, "collect"), Here(p, s.at).after[s.at.index])
  ELSE Quiet(s, Move(s.at, 1, s.at.sample, "destroy"))

NextRound(p, x) ==
  IF x.sample # 0 /\ x.round < Len(Table[p][x.test])
  THEN Begin(p, x.test, x.round + 1) ELSE Begin(p, x.test + 1, 1)

AfterDestroy(p, s) ==
  IF s.at.index <= Len(Here(p, s.at).destroy)
  THEN IF DoomedAt(p, s.at).kind = "local"
       THEN Quiet(s, Move(s.at, s.at.index + 1, s.at.sample, "destroy"))
       ELSE Calling(s, Move(s.at, s.at.index, s.at.sample, "unmap"), Barrier)
  ELSE Quiet(s, NextRound(p, s.at))

After(p, s, thrown) ==
  CASE s.at.phase = "construct" -> AfterConstruct(p, s)
    [] s.at.phase = "bcast"     -> AfterBcast(p, s)
    [] s.at.phase = "added"     -> Calling(s, Move(s.at, s.at.index, s.at.sample, "mapped"), Barrier)
    [] s.at.phase = "mapped"    ->
         Quiet(s, Move(s.at, s.at.index + 1, s.at.sample, "construct"))
    [] s.at.phase = "entry"     -> Quiet(s, Move(s.at, s.at.index, s.at.sample, "copy"))
    [] s.at.phase = "copy"      -> AfterCopy(s, thrown)
    [] s.at.phase = "exit"      -> Quiet(s, Move(s.at, s.at.index, s.at.sample, "verify"))
    [] s.at.phase = "verify"    -> AfterVerify(s)
    [] s.at.phase = "collect"   -> AfterCollect(p, s)
    [] s.at.phase = "destroy"   -> AfterDestroy(p, s)
    [] s.at.phase = "unmap"     ->
         Quiet(s, Move(s.at, s.at.index + 1, s.at.sample, "destroy"))

LEMMA AfterPhase ==
  ASSUME NEW p, NEW s, NEW thrown
  PROVE  /\ s.at.phase = "construct" => After(p, s, thrown) = AfterConstruct(p, s)
         /\ s.at.phase = "bcast" => After(p, s, thrown) = AfterBcast(p, s)
         /\ s.at.phase = "added" =>
              After(p, s, thrown) = Calling(s, Move(s.at, s.at.index, s.at.sample, "mapped"), Barrier)
         /\ s.at.phase = "mapped" =>
              After(p, s, thrown) =
                Quiet(s, Move(s.at, s.at.index + 1, s.at.sample, "construct"))
         /\ s.at.phase = "entry" =>
              After(p, s, thrown) = Quiet(s, Move(s.at, s.at.index, s.at.sample, "copy"))
         /\ s.at.phase = "copy" => After(p, s, thrown) = AfterCopy(s, thrown)
         /\ s.at.phase = "exit" =>
              After(p, s, thrown) = Quiet(s, Move(s.at, s.at.index, s.at.sample, "verify"))
         /\ s.at.phase = "verify" => After(p, s, thrown) = AfterVerify(s)
         /\ s.at.phase = "collect" => After(p, s, thrown) = AfterCollect(p, s)
         /\ s.at.phase = "destroy" => After(p, s, thrown) = AfterDestroy(p, s)
         /\ s.at.phase = "unmap" =>
              After(p, s, thrown) =
                Quiet(s, Move(s.at, s.at.index + 1, s.at.sample, "destroy"))
  BY DEF After

\* The round of a position.
LEMMA HereGood ==
  ASSUME NEW p \in Plans, NEW x, GoodPosition(p, x), x.phase # "done"
  PROVE  /\ GoodRound(p, x.round, Here(p, x))
         /\ Len(Table[p][x.test]) \in Nat
         /\ DOMAIN Table[p][x.test] = 1 .. Len(Table[p][x.test])
         /\ 1 \in DOMAIN Table[p][x.test]
  <1>1. x.test \in DOMAIN p.keys /\ x.round \in DOMAIN Table[p][x.test]
    BY DEF GoodPosition, OnPlan
  <1>2. QED
    BY <1>1, RoundsGood DEF Here

LEMMA BeginGood ==
  ASSUME NEW p \in Plans, NEW t \in 1 .. Len(p.keys) + 1, NEW k,
         t \in DOMAIN p.keys => k \in DOMAIN Table[p][t], k \in Nat \ {0}
  PROVE  GoodPosition(p, Begin(p, t, k)) /\ Begin(p, t, k).phase \in {"construct", "done"}
  <1> DEFINE x == Begin(p, t, k)
  <1>1. /\ x.test = t /\ x.round = k /\ x.index = 1 /\ x.sample = 1
        /\ x.phase = IF t \in DOMAIN p.keys THEN "construct" ELSE "done"
    BY DEF Begin
  <1>2. DOMAIN p.keys = 1 .. Len(p.keys) /\ Len(p.keys) \in Nat
    BY PlanFacts
  <1>3. x \in Position
    BY <1>1, <1>2 DEF Begin, Position, Phases
  <1> HIDE DEF x
  <1>4. CASE t \in DOMAIN p.keys
    <2>1. GoodRound(p, k, Here(p, x))
      BY <1>1, <1>4, RoundsGood DEF Here
    <2>2. Len(Here(p, x).buffers) \in Nat
      BY <2>1 DEF GoodRound
    <2>3. OnPlan(p, x)
      BY <1>1, <1>4, <2>2 DEF OnPlan, Fits, Operating
    <2>4. QED
      BY <1>1, <1>3, <1>4, <2>3 DEF GoodPosition, x
  <1>5. CASE t \notin DOMAIN p.keys
    BY <1>1, <1>2, <1>3, <1>5 DEF GoodPosition, x
  <1>6. QED
    BY <1>4, <1>5

LEMMA NextRoundGood ==
  ASSUME NEW p \in Plans, NEW x, GoodPosition(p, x), x.phase # "done"
  PROVE  /\ GoodPosition(p, NextRound(p, x)) /\ NextRound(p, x).phase \in {"construct", "done"}
         /\ \/ NextRound(p, x) = Begin(p, x.test + 1, 1)
            \/ NextRound(p, x) = Begin(p, x.test, x.round + 1) /\ x.round + 1 \in DOMAIN Table[p][x.test]
  <1>1. x.test \in DOMAIN p.keys /\ x.round \in DOMAIN Table[p][x.test]
    BY DEF GoodPosition, OnPlan
  <1>2. DOMAIN p.keys = 1 .. Len(p.keys) /\ Len(p.keys) \in Nat
    BY PlanFacts
  <1>3. /\ x.test \in 1 .. Len(p.keys) + 1 /\ x.test + 1 \in 1 .. Len(p.keys) + 1
        /\ 1 \in Nat \ {0} /\ x.round + 1 \in Nat \ {0}
    <2>1. x.round \in Nat
      BY <1>1, HereGood
    <2>2. QED
      BY <1>1, <1>2, <2>1
  <1>4. x.test + 1 \in DOMAIN p.keys => 1 \in DOMAIN Table[p][x.test + 1]
    BY RoundsGood
  <1>5. CASE x.sample # 0 /\ x.round < Len(Table[p][x.test])
    <2>1. x.round + 1 \in DOMAIN Table[p][x.test]
      BY <1>1, <1>5, HereGood
    <2>2. QED
      BY <1>3, <1>5, <2>1, BeginGood DEF NextRound
  <1>6. CASE ~(x.sample # 0 /\ x.round < Len(Table[p][x.test]))
    BY <1>3, <1>4, <1>6, BeginGood DEF NextRound
  <1>7. QED
    BY <1>5, <1>6

\* A step enters a call, or leads to a phase that is not Fresh.
LEMMA AfterEnters ==
  ASSUME NEW p \in Plans, NEW s, NEW thrown, GoodLocal(p, s), s.at.phase # "done"
  PROVE  \/ /\ After(p, s, thrown).calls = s.calls
            /\ After(p, s, thrown).at.phase \notin Fresh
         \/ /\ \E call \in CallsOn(p) : After(p, s, thrown).calls = Append(s.calls, call)
            /\ After(p, s, thrown).at.phase = "bcast" =>
                 \E n \in Nat : /\ n = Len(s.calls) + 1
                                /\ After(p, s, thrown).calls[n]
                                     = Bcast(BufferAt(p, After(p, s, thrown).at).owner)
  <1> DEFINE x == s.at
             y == After(p, s, thrown)
  <1>1. x \in Position /\ OnPlan(p, x) /\ s.calls \in Seq(CallsOn(p))
    BY DEF GoodLocal, GoodPosition
  <1>2. GoodRound(p, x.round, Here(p, x))
    BY HereGood DEF GoodLocal
  <1>3. Barrier \in CallsOn(p)
    BY DEF Barrier, CallsOn
  <1>4. CASE x.phase = "construct"
    <2>1. y = AfterConstruct(p, s)
      BY <1>4, AfterPhase
    <2>2. CASE x.index <= Len(Here(p, x).buffers) /\ BufferAt(p, x).kind # "local"
      <3> DEFINE call == Bcast(BufferAt(p, x).owner)
      <3>1. y.at = Move(x, x.index, x.sample, "bcast") /\ y.calls = Append(s.calls, call)
        BY <2>1, <2>2 DEF AfterConstruct, Calling
      <3>2. Here(p, y.at) = Here(p, x) /\ y.at.index = x.index
        BY <1>1, <3>1 DEF Here, Move
      <3>3. x.index \in DOMAIN Here(p, x).buffers
        BY <1>1, <1>2, <2>2, SMTT(30) DEF GoodRound, GoodLocal, GoodPosition, Position
      <3>4. BufferAt(p, x) \in BufferOn(p)
        BY <1>2, <3>3, SMTT(30) DEF GoodRound, BufferAt
      <3>5. call \in CallsOn(p)
        BY <3>4 DEF BufferOn, Bcast, CallsOn
      <3>6. call = Bcast(BufferAt(p, y.at).owner)
        BY <3>2 DEF BufferAt
      <3> HIDE DEF call, y
      <3>7. y.calls[Len(s.calls) + 1] = call /\ Len(s.calls) + 1 \in Nat
        BY <1>1, <3>1, <3>5
      <3>8. QED
        BY <3>1, <3>5, <3>6, <3>7 DEF y
    <2>3. CASE x.index <= Len(Here(p, x).buffers) /\ BufferAt(p, x).kind = "local"
      BY <1>1, <1>4, <2>1, <2>3 DEF AfterConstruct, Quiet, Fresh, Move
    <2>4. CASE ~(x.index <= Len(Here(p, x).buffers))
      BY <1>1, <1>3, <2>1, <2>4 DEF AfterConstruct, Quiet, Calling, Fresh, Move
    <2>5. QED
      BY <2>2, <2>3, <2>4
  <1>5. CASE x.phase = "bcast"
    <2>1. y = AfterBcast(p, s)
      BY <1>5, AfterPhase
    <2>2. QED
      BY <1>1, <1>3, <2>1 DEF AfterBcast, Calling, Move
  <1>6. CASE x.phase \in {"added", "mapped", "entry", "exit", "unmap"}
    <2>1. CASE x.phase = "added"
      <3>1. y = Calling(s, Move(x, x.index, x.sample, "mapped"), Barrier)
        BY <2>1, AfterPhase
      <3>2. y.calls = Append(s.calls, Barrier) /\ y.at.phase = "mapped"
        BY <1>1, <3>1 DEF Calling, Move
      <3>3. QED
        BY <1>3, <3>2
    <2>2. CASE x.phase # "added"
      <3>1. \/ y = Quiet(s, Move(x, x.index + 1, x.sample, "construct"))
            \/ y = Quiet(s, Move(x, x.index, x.sample, "copy"))
            \/ y = Quiet(s, Move(x, x.index, x.sample, "verify"))
            \/ y = Quiet(s, Move(x, x.index + 1, x.sample, "destroy"))
        BY <1>6, <2>2, AfterPhase
      <3>2. QED
        BY <3>1 DEF Quiet, Move, Fresh
    <2>3. QED
      BY <2>1, <2>2
  <1>7. CASE x.phase = "copy"
    <2>1. y = AfterCopy(s, thrown)
      BY <1>7, AfterPhase
    <2>2. QED
      BY <1>1, <1>3, <2>1 DEF AfterCopy, Quiet, Calling, Fresh, Move
  <1>8. CASE x.phase = "verify"
    <2>1. y = AfterVerify(s)
      BY <1>8, AfterPhase
    <2>2. QED
      BY <1>1, <1>3, <2>1 DEF AfterVerify, Quiet, Calling, Fresh, Move
  <1>9. CASE x.phase = "collect"
    <2>1. y = AfterCollect(p, s)
      BY <1>9, AfterPhase
    <2>2. CASE x.index <= Len(Here(p, x).after)
      <3>1. x.index \in DOMAIN Here(p, x).after /\ Here(p, x).after[x.index] \in CallsOn(p)
        BY <1>1, <1>2, <2>2, SMTT(30) DEF GoodRound, GoodLocal, GoodPosition, Position
      <3>2. y.at = Move(x, x.index + 1, x.sample, "collect") /\ y.calls = Append(s.calls, Here(p, x).after[x.index])
        BY <2>1, <2>2 DEF AfterCollect, Calling
      <3>3. y.at.phase = "collect"
        BY <1>1, <1>9, <3>2 DEF Move
      <3>4. QED
        BY <3>1, <3>2, <3>3
    <2>3. CASE ~(x.index <= Len(Here(p, x).after))
      <3>1. y = Quiet(s, Move(x, 1, x.sample, "destroy"))
        BY <2>1, <2>3 DEF AfterCollect
      <3>2. y.at.phase = "destroy" /\ y.calls = s.calls
        BY <1>1, <3>1 DEF Quiet, Move
      <3>3. QED
        BY <3>2 DEF Fresh
    <2>4. QED
      BY <2>2, <2>3
  <1>10. CASE x.phase = "destroy"
    <2>1. y = AfterDestroy(p, s)
      BY <1>10, AfterPhase
    <2>2. CASE x.index <= Len(Here(p, x).destroy)
      BY <1>1, <1>3, <1>10, <2>1, <2>2 DEF AfterDestroy, Quiet, Calling, Fresh, Move
    <2>3. CASE ~(x.index <= Len(Here(p, x).destroy))
      BY <2>1, <2>3, NextRoundGood DEF AfterDestroy, Quiet, Fresh, GoodLocal
    <2>4. QED
      BY <2>2, <2>3
  <1>11. QED
    BY <1>1, <1>4, <1>5, <1>6, <1>7, <1>8, <1>9, <1>10 DEF Position, Phases, Operating

LEMMA MovedGood ==
  ASSUME NEW p \in Plans, NEW x, GoodPosition(p, x), x.phase # "done",
         NEW index \in Nat \ {0}, NEW sample \in Nat, NEW phase \in Phases \ {"done"},
         Fits(Here(p, x), index, phase)
  PROVE  /\ GoodPosition(p, Move(x, index, sample, phase))
         /\ Here(p, Move(x, index, sample, phase)) = Here(p, x)
  <1> DEFINE y == Move(x, index, sample, phase)
  <1>1. x \in Position /\ OnPlan(p, x) /\ x.round >= 1
    BY DEF GoodPosition
  <1>2. /\ y.test = x.test /\ y.round = x.round /\ y.index = index /\ y.sample = sample
        /\ y.phase = phase
    BY DEF Move
  <1>3. y \in Position
    BY <1>1 DEF Move, Position
  <1> HIDE DEF y
  <1>4. Here(p, y) = Here(p, x)
    BY <1>2 DEF Here
  <1>5. OnPlan(p, y)
    BY <1>1, <1>2, <1>4 DEF OnPlan
  <1>6. QED
    BY <1>1, <1>2, <1>3, <1>4, <1>5 DEF GoodPosition, y

LEMMA AfterGood ==
  ASSUME NEW p \in Plans, NEW s, NEW thrown, GoodLocal(p, s), s.at.phase # "done"
  PROVE  GoodLocal(p, After(p, s, thrown))
  <1> DEFINE x == s.at
             y == After(p, s, thrown)
             here == Here(p, x)
  <1>1. x \in Position /\ OnPlan(p, x) /\ s.calls \in Seq(CallsOn(p)) /\ GoodPosition(p, x)
    BY DEF GoodLocal, GoodPosition
  <1>2. GoodRound(p, x.round, here) /\ here.buffers \in Seq(BufferOn(p))
        /\ here.destroy \in Seq(Nat) /\ here.after \in Seq(CallsOn(p))
    BY <1>1, HereGood, SMTT(30) DEF GoodRound
  <1>3. x.index \in Nat \ {0} /\ x.sample \in Nat /\ x.phase \in Phases \ {"done"}
        /\ x.index + 1 \in Nat \ {0} /\ x.sample + 1 \in Nat
    BY <1>1 DEF GoodPosition, Position
  <1>4. GoodPosition(p, y.at)
    <2>1. CASE x.phase = "construct"
      <3>1. y = AfterConstruct(p, s)
        BY <2>1, AfterPhase
      <3>2. CASE x.index <= Len(here.buffers)
        <4>1. x.index \in DOMAIN here.buffers
          BY <1>2, <1>3, <3>2
        <4>2. CASE here.buffers[x.index].kind = "local"
          <5>1. y.at = Move(x, x.index + 1, x.sample, "construct")
            BY <1>1, <2>1, <3>1, <3>2, <4>2 DEF AfterConstruct, BufferAt, Quiet
          <5>2. x.index + 1 <= Len(here.buffers) + 1 /\ "construct" \in Phases \ {"done"}
            BY <1>2, <1>3, <3>2 DEF Phases
          <5>3. Fits(here, x.index + 1, "construct")
            BY <5>2 DEF Fits, Operating
          <5>4. QED
            BY <1>1, <1>3, <5>1, <5>2, <5>3, MovedGood
        <4>3. CASE here.buffers[x.index].kind # "local"
          <5>1. y.at = Move(x, x.index, x.sample, "bcast")
            BY <1>1, <2>1, <3>1, <3>2, <4>3 DEF AfterConstruct, BufferAt, Calling
          <5>2. "bcast" \in Phases \ {"done"}
            BY DEF Phases
          <5>3. Fits(here, x.index, "bcast")
            BY <4>1, <4>3 DEF Fits, Operating
          <5>4. QED
            BY <1>1, <1>3, <5>1, <5>2, <5>3, MovedGood
        <4>4. QED
          BY <4>2, <4>3
      <3>3. CASE ~(x.index <= Len(here.buffers))
        <4>1. CASE here.copies = <<>>
          <5>1. y.at = Move(x, 1, x.sample, "collect")
            BY <1>1, <3>1, <3>3, <4>1 DEF AfterConstruct, Quiet
          <5>2. "collect" \in Phases \ {"done"} /\ 1 <= Len(here.after) + 1
            BY <1>2 DEF Phases
          <5>3. Fits(here, 1, "collect") /\ 1 \in Nat \ {0}
            BY <5>2 DEF Fits, Operating
          <5>4. QED
            BY <1>1, <1>3, <5>1, <5>2, <5>3, MovedGood
        <4>2. CASE here.copies # <<>>
          <5>1. y.at = Move(x, x.index, x.sample, "entry")
            BY <1>1, <3>1, <3>3, <4>2 DEF AfterConstruct, Calling
          <5>2. "entry" \in Phases \ {"done"}
            BY DEF Phases, Operating
          <5>3. QED
            BY <1>1, <1>3, <4>2, <5>1, <5>2, MovedGood DEF Fits, Operating
        <4>3. QED
          BY <4>1, <4>2
      <3>4. QED
        BY <3>2, <3>3
    <2>2. CASE x.phase = "bcast"
      <3>1. y = AfterBcast(p, s)
        BY <2>2, AfterPhase
      <3>2. x.index \in DOMAIN here.buffers /\ here.buffers[x.index].kind # "local"
        BY <1>1, <2>2 DEF OnPlan, Fits
      <3>3. here.buffers[x.index].kind \in {"unicast", "multicast"}
        <4>1. here.buffers[x.index] \in BufferOn(p)
          BY <1>2, <3>2
        <4>2. QED
          BY <3>2, <4>1 DEF BufferOn
      <3>4. "mapped" \in Phases \ {"done"} /\ "added" \in Phases \ {"done"}
        BY DEF Phases
      <3>5. CASE here.buffers[x.index].kind = "unicast"
        <4>1. y.at = Move(x, x.index, x.sample, "mapped")
          BY <1>1, <3>1, <3>5 DEF AfterBcast, BufferAt, Calling
        <4>2. QED
          BY <1>1, <1>3, <3>2, <3>4, <4>1, MovedGood DEF Fits, Operating
      <3>6. CASE here.buffers[x.index].kind # "unicast"
        <4>1. y.at = Move(x, x.index, x.sample, "added")
          BY <1>1, <3>1, <3>6 DEF AfterBcast, BufferAt, Calling
        <4>2. QED
          BY <1>1, <1>3, <3>2, <3>3, <3>4, <3>6, <4>1, MovedGood, ZenonT(40) DEF Fits, Operating
      <3>7. QED
        BY <3>5, <3>6
    <2>3. CASE x.phase \in {"added", "mapped"}
      <3>1. x.index \in DOMAIN here.buffers /\ here.buffers[x.index].kind # "local"
        BY <1>1, <2>3 DEF OnPlan, Fits
      <3>2. "mapped" \in Phases \ {"done"} /\ "construct" \in Phases \ {"done"}
        BY DEF Phases
      <3>3. CASE x.phase = "added"
        <4>1. y.at = Move(x, x.index, x.sample, "mapped")
          BY <1>1, <3>3, AfterPhase DEF Calling
        <4>2. QED
          BY <1>1, <1>3, <3>1, <3>2, <4>1, MovedGood, ZenonT(40) DEF Fits, Operating
      <3>4. CASE x.phase = "mapped"
        <4>1. y.at = Move(x, x.index + 1, x.sample, "construct")
          BY <1>1, <3>4, AfterPhase DEF Quiet
        <4>2. x.index + 1 <= Len(here.buffers) + 1
          BY <1>2, <1>3, <3>1
        <4>3. QED
          BY <1>1, <1>3, <3>2, <4>1, <4>2, MovedGood, ZenonT(40) DEF Fits, Operating
      <3>5. QED
        BY <2>3, <3>3, <3>4
    <2>4. CASE x.phase \in {"entry", "exit"}
      <3>1. here.copies # <<>>
        BY <1>1, <2>4 DEF OnPlan, Fits, Operating
      <3>2. "copy" \in Phases \ {"done"} /\ "verify" \in Phases \ {"done"}
        BY DEF Phases, Operating
      <3>3. y.at = Move(x, x.index, x.sample, "copy") \/ y.at = Move(x, x.index, x.sample, "verify")
        BY <1>1, <2>4, AfterPhase DEF Quiet
      <3>4. QED
        BY <1>1, <1>3, <3>1, <3>2, <3>3, MovedGood, ZenonT(40) DEF Fits, Operating
    <2>5. CASE x.phase = "copy"
      <3>1. y = AfterCopy(s, thrown) /\ here.copies # <<>>
        BY <1>1, <2>5, AfterPhase DEF OnPlan, Fits, Operating
      <3>2. "exit" \in Phases \ {"done"} /\ "destroy" \in Phases \ {"done"}
        BY DEF Phases, Operating
      <3>3. 1 <= Len(here.destroy) + 1
        BY <1>2
      <3>4. CASE thrown
        <4>1. y.at = Move(x, 1, 0, "destroy")
          BY <1>1, <3>1, <3>4 DEF AfterCopy, Quiet
        <4>2. QED
          BY <1>1, <1>3, <3>2, <3>3, <4>1, MovedGood, SMTT(30) DEF Fits, Operating
      <3>5. CASE ~thrown
        <4>1. y.at = Move(x, x.index, x.sample, "exit")
          BY <1>1, <3>1, <3>5 DEF AfterCopy, Calling
        <4>2. QED
          BY <1>1, <1>3, <3>1, <3>2, <4>1, MovedGood DEF Fits, Operating
      <3>6. QED
        BY <3>4, <3>5
    <2>6. CASE x.phase = "verify"
      <3>1. y = AfterVerify(s) /\ here.copies # <<>>
        BY <1>1, <2>6, AfterPhase DEF OnPlan, Fits, Operating
      <3>2. "entry" \in Phases \ {"done"} /\ "collect" \in Phases \ {"done"}
        BY DEF Phases, Operating
      <3>3. 1 <= Len(here.after) + 1
        BY <1>2
      <3>4. CASE x.sample < Samples
        <4>1. y.at = Move(x, x.index, x.sample + 1, "entry")
          BY <1>1, <3>1, <3>4 DEF AfterVerify, Calling
        <4>2. QED
          BY <1>1, <1>3, <3>1, <3>2, <4>1, MovedGood DEF Fits, Operating
      <3>5. CASE ~(x.sample < Samples)
        <4>1. y.at = Move(x, 1, x.sample, "collect")
          BY <1>1, <3>1, <3>5 DEF AfterVerify, Quiet
        <4>2. QED
          BY <1>1, <1>3, <3>2, <3>3, <4>1, MovedGood, SMTT(30) DEF Fits, Operating
      <3>6. QED
        BY <3>4, <3>5
    <2>7. CASE x.phase = "collect"
      <3>1. y = AfterCollect(p, s)
        BY <2>7, AfterPhase
      <3>2. "collect" \in Phases \ {"done"} /\ "destroy" \in Phases \ {"done"}
        BY DEF Phases
      <3>3. 1 <= Len(here.destroy) + 1
        BY <1>2
      <3>4. CASE x.index <= Len(here.after)
        <4>1. y.at = Move(x, x.index + 1, x.sample, "collect")
          BY <1>1, <2>7, <3>1, <3>4 DEF AfterCollect, Calling
        <4>2. x.index + 1 <= Len(here.after) + 1
          BY <1>2, <1>3, <3>4
        <4>3. QED
          BY <1>1, <1>3, <3>2, <4>1, <4>2, MovedGood DEF Fits, Operating
      <3>5. CASE ~(x.index <= Len(here.after))
        <4>1. y.at = Move(x, 1, x.sample, "destroy")
          BY <1>1, <3>1, <3>5 DEF AfterCollect, Quiet
        <4>2. QED
          BY <1>1, <1>3, <3>2, <3>3, <4>1, MovedGood, SMTT(30) DEF Fits, Operating
      <3>6. QED
        BY <3>4, <3>5
    <2>8. CASE x.phase = "destroy"
      <3>1. y = AfterDestroy(p, s)
        BY <2>8, AfterPhase
      <3>2. "unmap" \in Phases \ {"done"} /\ "destroy" \in Phases \ {"done"}
        BY DEF Phases
      <3>3. CASE x.index <= Len(here.destroy) /\ DoomedAt(p, x).kind = "local"
        <4>1. y.at = Move(x, x.index + 1, x.sample, "destroy")
          BY <1>1, <2>8, <3>1, <3>3 DEF AfterDestroy, Quiet
        <4>2. x.index + 1 <= Len(here.destroy) + 1
          BY <1>2, <1>3, <3>3
        <4>3. QED
          BY <1>1, <1>3, <3>2, <4>1, <4>2, MovedGood, ZenonT(40) DEF Fits, Operating
      <3>4. CASE x.index <= Len(here.destroy) /\ DoomedAt(p, x).kind # "local"
        <4>1. y.at = Move(x, x.index, x.sample, "unmap")
          BY <1>1, <3>1, <3>4 DEF AfterDestroy, Calling
        <4>2. /\ x.index \in DOMAIN here.destroy
              /\ here.buffers[here.destroy[x.index]].kind # "local"
          BY <1>2, <1>3, <3>4, SMTT(30) DEF DoomedAt
        <4>3. QED
          BY <1>1, <1>3, <3>2, <4>1, <4>2, MovedGood DEF Fits, Operating
      <3>5. CASE ~(x.index <= Len(here.destroy))
        BY <1>1, <3>1, <3>5, NextRoundGood DEF AfterDestroy, Quiet
      <3>6. QED
        BY <3>3, <3>4, <3>5
    <2>9. CASE x.phase = "unmap"
      <3>1. y.at = Move(x, x.index + 1, x.sample, "destroy")
        BY <1>1, <2>9, AfterPhase DEF Quiet
      <3>2. x.index \in DOMAIN here.destroy
        BY <1>1, <2>9 DEF OnPlan, Fits
      <3>3. x.index + 1 <= Len(here.destroy) + 1 /\ "destroy" \in Phases \ {"done"}
        BY <1>2, <1>3, <3>2 DEF Phases
      <3>4. QED
        BY <1>1, <1>3, <3>1, <3>3, MovedGood DEF Fits, Operating
    <2>10. QED
      BY <1>3, <2>1, <2>2, <2>3, <2>4, <2>5, <2>6, <2>7, <2>8, <2>9 DEF Phases, Operating
  <1> HIDE DEF y
  <1>5. \/ y.calls = s.calls /\ y.at.phase \notin Fresh
        \/ /\ \E call \in CallsOn(p) : y.calls = Append(s.calls, call)
           /\ y.at.phase = "bcast" =>
                \E n \in Nat : n = Len(s.calls) + 1 /\ y.calls[n] = Bcast(BufferAt(p, y.at).owner)
    BY AfterEnters DEF y
  <1>6. CASE y.calls = s.calls /\ y.at.phase \notin Fresh
    <2>1. "bcast" \in Fresh
      BY DEF Fresh
    <2>2. QED
      BY <1>1, <1>4, <1>6, <2>1 DEF GoodLocal, y
  <1>7. ASSUME NEW call \in CallsOn(p), y.calls = Append(s.calls, call),
               y.at.phase = "bcast" =>
                 \E n \in Nat : n = Len(s.calls) + 1 /\ y.calls[n] = Bcast(BufferAt(p, y.at).owner)
        PROVE  GoodLocal(p, y)
    <2>1. /\ y.calls \in Seq(CallsOn(p)) /\ Len(y.calls) = Len(s.calls) + 1
          /\ y.calls # <<>>
      BY <1>1, <1>7
    <2>2. QED
      BY <1>4, <1>7, <2>1 DEF GoodLocal
  <1>8. QED
    BY <1>5, <1>6, <1>7 DEF y

-------------------------------------------------------------------------------
(***************************************************************************)
(* 3. A step of the system is the step of one rank.                        *)
(***************************************************************************)
LocalInv ==
  /\ plan \in Plans
  /\ at \in [Ranks -> Position]
  /\ calls \in [Ranks -> Seq(CallsOn(plan))]
  /\ \A r \in Ranks : GoodLocal(plan, Loc(r))

OthersStay(r) ==
  /\ at' = [q \in Ranks |-> at'[q]]
  /\ calls' = [q \in Ranks |-> calls'[q]]
  /\ \A q \in Ranks \ {r} : Loc(q)' = Loc(q)

LEMMA Moves ==
  ASSUME NEW x \in Position, NEW i, NEW f
  PROVE  /\ [x EXCEPT !.index = i] = Move(x, i, x.sample, x.phase)
         /\ [x EXCEPT !.phase = f] = Move(x, x.index, x.sample, f)
  BY DEF Position, Move

\* The assignments of the code to a position, as moves.
LEMMA GotoMoves ==
  ASSUME LocalInv, NEW r \in Ranks, NEW i, NEW n, NEW f
  PROVE  /\ Goto(r, [at[r] EXCEPT !.phase = f, !.index = i]) =>
              Goto(r, Move(at[r], i, at[r].sample, f))
         /\ Goto(r, [at[r] EXCEPT !.phase = f, !.sample = n]) =>
              Goto(r, Move(at[r], at[r].index, n, f))
         /\ Goto(r, [at[r] EXCEPT !.phase = f, !.index = i, !.sample = n]) =>
              Goto(r, Move(at[r], i, n, f))
  <1> DEFINE y == [at[r] EXCEPT !.phase = f]
             z == [y EXCEPT !.index = i]
  <1>1. at[r] \in Position
    BY DEF LocalInv
  <1>2. y = Move(at[r], at[r].index, at[r].sample, f)
    BY <1>1, Moves
  <1> HIDE DEF y
  <1>3. /\ z = Move(at[r], i, at[r].sample, f)
        /\ [y EXCEPT !.sample = n] = Move(at[r], at[r].index, n, f)
    BY <1>2 DEF Move
  <1> HIDE DEF z
  <1>4. [z EXCEPT !.sample = n] = Move(at[r], i, n, f)
    BY <1>3 DEF Move
  <1>5. QED
    BY <1>3, <1>4, Zenon DEF Goto, y, z

LEMMA MovesQuietly ==
  ASSUME LocalInv, NEW r \in Ranks, NEW y, Goto(r, y), UNCHANGED <<plan, calls>>
  PROVE  Loc(r)' = Quiet(Loc(r), y) /\ OthersStay(r)
  BY DEF LocalInv, Goto, Loc, Quiet, OthersStay

LEMMA MovesCalling ==
  ASSUME LocalInv, NEW r \in Ranks, NEW y, Goto(r, y),
         NEW call, NEW data, EnterWith(r, call, data), plan' = plan
  PROVE  Loc(r)' = Calling(Loc(r), y, call) /\ OthersStay(r)
  BY DEF LocalInv, Goto, EnterWith, Loc, Calling, OthersStay

\* Where a rank stands decides what it does next, but for a copy that throws.
LEMMA StepWalks ==
  ASSUME LocalInv, NEW r \in Ranks, Step(r)
  PROVE  /\ at[r].phase # "done"
         /\ Loc(r)' = After(plan, Loc(r), Throws(r))
         /\ OthersStay(r)
         /\ plan' = plan
  <1> DEFINE x == at[r]
             s == Loc(r)
             here == Here(plan, x)
  <1>1. x \in Position /\ s.at = x /\ s.calls = calls[r] /\ RoundOf(r) = here
    BY DEF LocalInv, Loc, RoundOf, Rounds, Here
  <1>2. GoodPosition(plan, x) /\ plan \in Plans
    BY <1>1 DEF LocalInv, GoodLocal
  <1>3. here.buffers[x.index] = CurrentBuffer(r) /\ BufferAt(plan, x) = CurrentBuffer(r)
    BY <1>1 DEF CurrentBuffer, BufferAt
  <1>4. CASE AllocateLocal(r)
    <2>1. /\ x.phase = "construct" /\ x.index <= Len(here.buffers)
          /\ BufferAt(plan, x).kind = "local"
      BY <1>1, <1>3, <1>4 DEF AllocateLocal, Constructing, In
    <2>2. Goto(r, Move(x, x.index + 1, x.sample, "construct")) /\ UNCHANGED <<plan, calls>>
      BY <1>1, <1>4, <2>1, Moves DEF AllocateLocal
    <2>3. After(plan, s, Throws(r)) = Quiet(s, Move(x, x.index + 1, x.sample, "construct"))
      BY <1>1, <2>1, AfterPhase DEF AfterConstruct
    <2>4. QED
      BY <2>1, <2>2, <2>3, MovesQuietly
  <1>5. CASE Construct(r)
    <2>1. /\ x.phase = "construct" /\ x.index <= Len(here.buffers)
          /\ BufferAt(plan, x).kind # "local"
      BY <1>1, <1>3, <1>5 DEF Construct, Constructing, In
    <2>2. /\ Goto(r, Move(x, x.index, x.sample, "bcast")) /\ plan' = plan
          /\ EnterWith(r, Bcast(BufferAt(plan, x).owner), {})
      BY <1>1, <1>3, <1>5, Moves DEF Construct, Enter
    <2>3. After(plan, s, Throws(r))
            = Calling(s, Move(x, x.index, x.sample, "bcast"), Bcast(BufferAt(plan, x).owner))
      BY <1>1, <2>1, AfterPhase DEF AfterConstruct
    <2>4. QED
      BY <2>1, <2>2, <2>3, MovesCalling
  <1>6. CASE ImportUnicast(r)
    <2>1. x.phase = "bcast" /\ BufferAt(plan, x).kind = "unicast"
      BY <1>3, <1>6 DEF ImportUnicast, In
    <2>2. /\ Goto(r, Move(x, x.index, x.sample, "mapped")) /\ plan' = plan
          /\ EnterWith(r, Barrier, {})
      BY <1>1, <1>6, Moves DEF ImportUnicast, Map, Enter
    <2>3. After(plan, s, Throws(r)) = Calling(s, Move(x, x.index, x.sample, "mapped"), Barrier)
      BY <1>1, <2>1, AfterPhase DEF AfterBcast
    <2>4. QED
      BY <2>1, <2>2, <2>3, MovesCalling
  <1>7. CASE AddDevice(r)
    <2>1. x.phase = "bcast" /\ BufferAt(plan, x).kind # "unicast"
      BY <1>3, <1>7 DEF AddDevice, In
    <2>2. /\ Goto(r, Move(x, x.index, x.sample, "added")) /\ plan' = plan
          /\ EnterWith(r, Barrier, {})
      BY <1>1, <1>7, Moves DEF AddDevice, Enter
    <2>3. After(plan, s, Throws(r)) = Calling(s, Move(x, x.index, x.sample, "added"), Barrier)
      BY <1>1, <2>1, AfterPhase DEF AfterBcast
    <2>4. QED
      BY <2>1, <2>2, <2>3, MovesCalling
  <1>8. CASE BindMemory(r)
    <2>1. x.phase = "added"
      BY <1>8 DEF BindMemory, In
    <2>2. /\ Goto(r, Move(x, x.index, x.sample, "mapped")) /\ plan' = plan
          /\ EnterWith(r, Barrier, {})
      BY <1>1, <1>8, Moves DEF BindMemory, Map, Enter
    <2>3. After(plan, s, Throws(r)) = Calling(s, Move(x, x.index, x.sample, "mapped"), Barrier)
      BY <1>1, <2>1, AfterPhase
    <2>4. QED
      BY <2>1, <2>2, <2>3, MovesCalling
  <1>9. CASE Constructed(r)
    <2>1. x.phase = "mapped"
      BY <1>9 DEF Constructed, In
    <2>2. /\ Goto(r, Move(x, x.index + 1, x.sample, "construct"))
          /\ UNCHANGED <<plan, calls>>
      BY <1>9, GotoMoves, Zenon DEF Constructed
    <2>3. After(plan, s, Throws(r)) = Quiet(s, Move(x, x.index + 1, x.sample, "construct"))
      BY <1>1, <2>1, AfterPhase
    <2>4. QED
      BY <2>1, <2>2, <2>3, MovesQuietly
  <1>10. CASE HelperBuilt(r)
    <2>1. x.phase = "construct" /\ ~(x.index <= Len(here.buffers)) /\ here.copies = <<>>
      BY <1>1, <1>10 DEF HelperBuilt, Constructing, In, Measures
    <2>2. Goto(r, Move(x, 1, x.sample, "collect")) /\ UNCHANGED <<plan, calls>>
      BY <1>10, GotoMoves, Zenon DEF HelperBuilt
    <2>3. After(plan, s, Throws(r)) = Quiet(s, Move(x, 1, x.sample, "collect"))
      BY <1>1, <2>1, AfterPhase DEF AfterConstruct
    <2>4. QED
      BY <2>1, <2>2, <2>3, MovesQuietly
  <1>11. CASE BeginOperation(r)
    <2>1. x.phase = "construct" /\ ~(x.index <= Len(here.buffers)) /\ here.copies # <<>>
      BY <1>1, <1>11 DEF BeginOperation, Constructing, In, Measures
    <2>2. /\ Goto(r, Move(x, x.index, x.sample, "entry")) /\ plan' = plan
          /\ EnterWith(r, Barrier, {})
      BY <1>1, <1>11, Moves DEF BeginOperation, Enter
    <2>3. After(plan, s, Throws(r)) = Calling(s, Move(x, x.index, x.sample, "entry"), Barrier)
      BY <1>1, <2>1, AfterPhase DEF AfterConstruct
    <2>4. QED
      BY <2>1, <2>2, <2>3, MovesCalling
  <1>12. CASE StartSample(r)
    <2>1. x.phase = "entry"
      BY <1>12 DEF StartSample, In
    <2>2. Goto(r, Move(x, x.index, x.sample, "copy")) /\ UNCHANGED <<plan, calls>>
      BY <1>1, <1>12, Moves DEF StartSample
    <2>3. After(plan, s, Throws(r)) = Quiet(s, Move(x, x.index, x.sample, "copy"))
      BY <1>1, <2>1, AfterPhase
    <2>4. QED
      BY <2>1, <2>2, <2>3, MovesQuietly
  <1>13. CASE FinishCopies(r)
    <2>1. x.phase = "copy" /\ ~Throws(r)
      BY <1>13 DEF FinishCopies, In
    <2>2. /\ Goto(r, Move(x, x.index, x.sample, "exit")) /\ plan' = plan
          /\ EnterWith(r, Barrier, {})
      BY <1>1, <1>13, Moves DEF FinishCopies, Enter
    <2>3. After(plan, s, Throws(r)) = Calling(s, Move(x, x.index, x.sample, "exit"), Barrier)
      BY <1>1, <2>1, AfterPhase DEF AfterCopy
    <2>4. QED
      BY <2>1, <2>2, <2>3, MovesCalling
  <1>14. CASE EndSample(r)
    <2>1. x.phase = "exit"
      BY <1>14 DEF EndSample, In
    <2>2. Goto(r, Move(x, x.index, x.sample, "verify")) /\ UNCHANGED <<plan, calls>>
      BY <1>1, <1>14, Moves DEF EndSample
    <2>3. After(plan, s, Throws(r)) = Quiet(s, Move(x, x.index, x.sample, "verify"))
      BY <1>1, <2>1, AfterPhase
    <2>4. QED
      BY <2>1, <2>2, <2>3, MovesQuietly
  <1>15. CASE NextSample(r)
    <2>1. x.phase = "verify" /\ x.sample < Samples
      BY <1>15 DEF NextSample, MoreSamples, In
    <2>2. /\ Goto(r, Move(x, x.index, x.sample + 1, "entry")) /\ plan' = plan
          /\ EnterWith(r, Barrier, {})
      BY <1>15, GotoMoves, Zenon DEF NextSample, Enter
    <2>3. After(plan, s, Throws(r)) = Calling(s, Move(x, x.index, x.sample + 1, "entry"), Barrier)
      BY <1>1, <2>1, AfterPhase DEF AfterVerify
    <2>4. QED
      BY <2>1, <2>2, <2>3, MovesCalling
  <1>16. CASE EndOperation(r)
    <2>1. x.phase = "verify" /\ ~(x.sample < Samples)
      BY <1>16 DEF EndOperation, MoreSamples, In
    <2>2. Goto(r, Move(x, 1, x.sample, "collect")) /\ UNCHANGED <<plan, calls>>
      BY <1>16, GotoMoves, Zenon DEF EndOperation
    <2>3. After(plan, s, Throws(r)) = Quiet(s, Move(x, 1, x.sample, "collect"))
      BY <1>1, <2>1, AfterPhase DEF AfterVerify
    <2>4. QED
      BY <2>1, <2>2, <2>3, MovesQuietly
  <1>17. CASE Collect(r)
    <2>1. x.phase = "collect" /\ x.index <= Len(here.after)
      BY <1>1, <1>17 DEF Collect, Collecting, In
    <2>2. /\ Goto(r, Move(x, x.index + 1, x.sample, "collect")) /\ plan' = plan
          /\ EnterWith(r, here.after[x.index], Contribution(r, at[r].index))
      BY <1>1, <1>17, <2>1, Moves DEF Collect
    <2>3. After(plan, s, Throws(r))
            = Calling(s, Move(x, x.index + 1, x.sample, "collect"), here.after[x.index])
      BY <1>1, <2>1, AfterPhase DEF AfterCollect
    <2>4. QED
      BY <2>1, <2>2, <2>3, MovesCalling
  <1>18. CASE Collected(r)
    <2>1. x.phase = "collect" /\ ~(x.index <= Len(here.after))
      <3>1. Len(here.after) \in Nat /\ x.index \in Nat
        BY <1>1, <1>2, <1>18, HereGood, SMTT(30) DEF Collected, Collecting, In, GoodRound, Position
      <3>2. QED
        BY <1>1, <1>18, <3>1 DEF Collected, Collecting, In
    <2>2. Goto(r, Move(x, 1, x.sample, "destroy")) /\ UNCHANGED <<plan, calls>>
      BY <1>18, GotoMoves, Zenon DEF Collected
    <2>3. After(plan, s, Throws(r)) = Quiet(s, Move(x, 1, x.sample, "destroy"))
      BY <1>1, <2>1, AfterPhase DEF AfterCollect
    <2>4. QED
      BY <2>1, <2>2, <2>3, MovesQuietly
  <1>19. CASE Throw(r)
    <2>1. x.phase = "copy" /\ Throws(r)
      BY <1>19 DEF Throw, In
    <2>2. Goto(r, Move(x, 1, 0, "destroy")) /\ UNCHANGED <<plan, calls>>
      BY <1>19, GotoMoves, Zenon DEF Throw
    <2>3. After(plan, s, Throws(r)) = Quiet(s, Move(x, 1, 0, "destroy"))
      BY <1>1, <2>1, AfterPhase DEF AfterCopy
    <2>4. QED
      BY <2>1, <2>2, <2>3, MovesQuietly
  <1>20. CASE FreeLocal(r)
    <2>1. /\ x.phase = "destroy" /\ x.index <= Len(here.destroy)
          /\ DoomedAt(plan, x).kind = "local"
      BY <1>1, <1>20 DEF FreeLocal, In, MoreToDestroy, DoomedBuffer, DoomedAt
    <2>2. Goto(r, Move(x, x.index + 1, x.sample, "destroy")) /\ UNCHANGED <<plan, calls>>
      BY <1>1, <1>20, <2>1, Moves DEF FreeLocal
    <2>3. After(plan, s, Throws(r)) = Quiet(s, Move(x, x.index + 1, x.sample, "destroy"))
      BY <1>1, <2>1, AfterPhase DEF AfterDestroy
    <2>4. QED
      BY <2>1, <2>2, <2>3, MovesQuietly
  <1>21. CASE BeginDestroy(r)
    <2>1. /\ x.phase = "destroy" /\ x.index <= Len(here.destroy)
          /\ DoomedAt(plan, x).kind # "local"
      BY <1>1, <1>21 DEF BeginDestroy, In, MoreToDestroy, DoomedBuffer, DoomedAt
    <2>2. /\ Goto(r, Move(x, x.index, x.sample, "unmap")) /\ plan' = plan
          /\ EnterWith(r, Barrier, {})
      BY <1>1, <1>21, Moves DEF BeginDestroy, EnterDestructor, Enter
    <2>3. After(plan, s, Throws(r)) = Calling(s, Move(x, x.index, x.sample, "unmap"), Barrier)
      BY <1>1, <2>1, AfterPhase DEF AfterDestroy
    <2>4. QED
      BY <2>1, <2>2, <2>3, MovesCalling
  <1>22. CASE Unmap(r)
    <2>1. x.phase = "unmap"
      BY <1>22 DEF Unmap, In
    <2>2. Goto(r, Move(x, x.index + 1, x.sample, "destroy")) /\ UNCHANGED <<plan, calls>>
      BY <1>22, GotoMoves, Zenon DEF Unmap
    <2>3. After(plan, s, Throws(r)) = Quiet(s, Move(x, x.index + 1, x.sample, "destroy"))
      BY <1>1, <2>1, AfterPhase
    <2>4. QED
      BY <2>1, <2>2, <2>3, MovesQuietly
  <1>23. CASE EndRound(r)
    <2>1. x.phase = "destroy" /\ ~(x.index <= Len(here.destroy))
      BY <1>1, <1>23 DEF EndRound, In, MoreToDestroy
    <2>2. Goto(r, NextRound(plan, x)) /\ UNCHANGED <<plan, calls>>
      BY <1>23 DEF EndRound, NextRound, Rounds
    <2>3. After(plan, s, Throws(r)) = Quiet(s, NextRound(plan, x))
      BY <1>1, <2>1, AfterPhase DEF AfterDestroy
    <2>4. QED
      BY <2>1, <2>2, <2>3, MovesQuietly
  <1>24. QED
    BY <1>4, <1>5, <1>6, <1>7, <1>8, <1>9, <1>10, <1>11, <1>12, <1>13, <1>14, <1>15, <1>16,
       <1>17, <1>18, <1>19, <1>20, <1>21, <1>22, <1>23 DEF Step

LEMMA LocalInit == Init => LocalInv
  <1> SUFFICES ASSUME Init PROVE LocalInv
    OBVIOUS
  <1>1. plan \in Plans
    BY DEF Init
  <1>2. Len(plan.keys) \in Nat
    BY <1>1, PlanFacts
  <1>3. GoodPosition(plan, Begin(plan, 1, 1)) /\ Begin(plan, 1, 1).phase \in {"construct", "done"}
    <2>1. 1 \in DOMAIN plan.keys => 1 \in DOMAIN Table[plan][1]
      BY <1>1, RoundsGood
    <2>2. 1 \in 1 .. Len(plan.keys) + 1 /\ 1 \in Nat \ {0}
      BY <1>2
    <2>3. QED
      BY <1>1, <2>1, <2>2, BeginGood
  <1>4. at \in [Ranks -> Position] /\ calls \in [Ranks -> Seq(CallsOn(plan))]
    BY <1>3 DEF Init, GoodPosition
  <1>5. \A r \in Ranks : Loc(r).at = Begin(plan, 1, 1) /\ Loc(r).calls = <<>>
    BY DEF Init, Loc
  <1>6. \A r \in Ranks : GoodLocal(plan, Loc(r))
    <2>1. <<>> \in Seq(CallsOn(plan))
      OBVIOUS
    <2>2. Begin(plan, 1, 1).phase \notin Fresh /\ Begin(plan, 1, 1).phase # "bcast"
      BY <1>3 DEF Fresh
    <2>3. QED
      BY <1>3, <1>5, <2>1, <2>2 DEF GoodLocal
  <1>7. QED
    BY <1>1, <1>4, <1>6 DEF LocalInv

LEMMA LocalStep ==
  ASSUME LocalInv, NEW r \in Ranks, Step(r)
  PROVE  LocalInv' /\ Ranks' = Ranks
  <1>1. plan' = plan /\ Ranks' = Ranks /\ plan \in Plans
    BY StepWalks DEF Ranks, LocalInv
  <1>2. GoodLocal(plan, Loc(r)')
    <2>1. GoodLocal(plan, Loc(r)) /\ Loc(r).at.phase # "done"
      BY StepWalks DEF LocalInv, Loc
    <2>2. QED
      BY <1>1, <2>1, StepWalks, AfterGood
  <1>3. \A q \in Ranks : GoodLocal(plan, Loc(q)')
    BY <1>2, StepWalks DEF OthersStay, LocalInv
  <1>4. \A q \in Ranks : at'[q] \in Position /\ calls'[q] \in Seq(CallsOn(plan))
    BY <1>3 DEF GoodLocal, GoodPosition, Loc
  <1>5. /\ at' = [q \in Ranks |-> at'[q]]
        /\ calls' = [q \in Ranks |-> calls'[q]]
    BY StepWalks DEF OthersStay
  <1>6. at' \in [Ranks -> Position] /\ calls' \in [Ranks -> Seq(CallsOn(plan))]
    BY <1>4, <1>5
  <1>7. QED
    BY <1>1, <1>3, <1>6 DEF LocalInv

LEMMA LocalStays ==
  ASSUME LocalInv, UNCHANGED vars
  PROVE  LocalInv'
  BY DEF LocalInv, vars, Ranks, Loc

\* A step of the system is the step of a rank of the plan.
LEMMA NextSteps ==
  ASSUME [Next]_vars
  PROVE  (\E r \in Ranks : Step(r)) \/ UNCHANGED vars
  BY DEF Next, Step, Finished

-------------------------------------------------------------------------------
(***************************************************************************)
(* 4. What a rank has mapped is a function of where it is.                 *)
(***************************************************************************)
\* The first buffer of the round that a rank at x has not constructed.
Built(p, x) ==
  IF x.phase \in {"construct", "bcast", "added"} THEN x.index
  ELSE IF x.phase = "mapped" THEN x.index + 1
  ELSE Len(Here(p, x).buffers) + 1

\* The latch of a testcase stays mapped after its round.
Latched(p, x, t, k, i) ==
  /\ k = 1 /\ i = 1 /\ t \in DOMAIN p.keys
  /\ t < x.test \/ (t = x.test /\ x.round > 1)

\* Buffer i of the round of x.
InRound(p, r, x, i) ==
  LET here == Here(p, x)
  IN  /\ i \in DOMAIN here.buffers /\ i < Built(p, x)
      /\ here.buffers[i].kind = "local" => here.buffers[i].owner = r
      /\ x.phase \in {"destroy", "unmap"} =>
           \A m \in DOMAIN here.destroy : m < x.index => here.destroy[m] # i

Holds(p, r, x, t, k, i) ==
  \/ Latched(p, x, t, k, i)
  \/ x.phase # "done" /\ t = x.test /\ k = x.round /\ InRound(p, r, x, i)

\* The steps from x to y that map a buffer, and those that unmap one.
Adding(p, r, x, y) ==
  \/ /\ x.phase = "construct" /\ x.index <= Len(Here(p, x).buffers)
     /\ BufferAt(p, x).kind = "local" /\ BufferAt(p, x).owner = r
  \/ x.phase \in {"bcast", "added"} /\ y.phase = "mapped"

Removing(p, x) ==
  \/ x.phase = "unmap"
  \/ /\ x.phase = "destroy" /\ x.index <= Len(Here(p, x).destroy)
     /\ DoomedAt(p, x).kind = "local"

DoomedName(p, x) == <<x.test, x.round, Here(p, x).destroy[x.index]>>

Change(p, r, x, y, held) ==
  IF Adding(p, r, x, y) THEN held \union {NameAt(x)}
  ELSE IF Removing(p, x) THEN held \ {DoomedName(p, x)}
  ELSE held

\* What changes of a round when a rank moves within it.
Changes(p, r, x, y, i) ==
  InRound(p, r, y, i) <=>
    IF Adding(p, r, x, y) THEN InRound(p, r, x, i) \/ i = x.index
    ELSE IF Removing(p, x) THEN InRound(p, r, x, i) /\ i # Here(p, x).destroy[x.index]
    ELSE InRound(p, r, x, i)

LEMMA MoveFields ==
  ASSUME NEW p, NEW x, NEW i, NEW n, NEW f, NEW y, y = Move(x, i, n, f)
  PROVE  /\ y.test = x.test /\ y.round = x.round /\ y.index = i /\ y.sample = n
         /\ y.phase = f /\ Here(p, y) = Here(p, x)
  BY DEF Move, Here

LEMMA ChangesInRound ==
  ASSUME NEW p \in Plans, NEW r, NEW s, NEW thrown, GoodLocal(p, s), s.at.phase # "done",
         ~(s.at.phase = "destroy" /\ ~(s.at.index <= Len(Here(p, s.at).destroy)))
  PROVE  LET x == s.at
             y == After(p, s, thrown).at
         IN  /\ y.test = x.test /\ y.round = x.round /\ y.phase # "done"
             /\ \A i \in Nat : Changes(p, r, x, y, i)
  <1> DEFINE x == s.at
             y == After(p, s, thrown).at
             here == Here(p, x)
             Goal == /\ y.test = x.test /\ y.round = x.round /\ y.phase # "done"
                     /\ \A i \in Nat : Changes(p, r, x, y, i)
  <1>1. x \in Position /\ OnPlan(p, x) /\ GoodPosition(p, x) /\ Fits(here, x.index, x.phase)
    BY DEF GoodLocal, GoodPosition, OnPlan
  <1>2. /\ here.buffers \in Seq(BufferOn(p)) /\ here.destroy \in Seq(Nat)
        /\ DOMAIN here.buffers = 1 .. Len(here.buffers) /\ Len(here.buffers) \in Nat
        /\ DOMAIN here.destroy = 1 .. Len(here.destroy) /\ Len(here.destroy) \in Nat
        /\ x.index \in Nat
    BY <1>1, HereGood, SMTT(30) DEF GoodRound, Position
  <1>3. CASE x.phase = "construct" /\ x.index <= Len(here.buffers)
    <2>1. CASE BufferAt(p, x).kind = "local"
      <3>1. y = Move(x, x.index + 1, x.sample, "construct")
        BY <1>3, <2>1, AfterPhase DEF AfterConstruct, Quiet
      <3>2. /\ y.test = x.test /\ y.round = x.round /\ y.phase = "construct"
            /\ Here(p, y) = here /\ y.index = x.index + 1
        BY <3>1, MoveFields
      <3>3. ~Removing(p, x) /\ (Adding(p, r, x, y) <=> here.buffers[x.index].owner = r)
        BY <1>3, <2>1 DEF Adding, Removing, BufferAt
      <3>4. Built(p, x) = x.index /\ Built(p, y) = x.index + 1
        BY <1>3, <3>2 DEF Built
      <3>5. ASSUME NEW i \in Nat PROVE Changes(p, r, x, y, i)
        <4>1. CASE i = x.index
          <5>1. i \in DOMAIN here.buffers /\ here.buffers[i].kind = "local"
            BY <1>1, <1>2, <1>3, <2>1, <4>1 DEF BufferAt, GoodPosition
          <5>2. InRound(p, r, y, i) <=> here.buffers[i].owner = r
            BY <1>2, <3>2, <3>4, <4>1, <5>1 DEF InRound
          <5>3. ~InRound(p, r, x, i)
            BY <1>2, <3>4, <4>1 DEF InRound
          <5>4. QED
            BY <3>3, <4>1, <5>2, <5>3 DEF Changes
        <4>2. CASE i # x.index
          <5>1. InRound(p, r, y, i) <=> InRound(p, r, x, i)
            BY <1>2, <1>3, <3>2, <3>4, <4>2 DEF InRound
          <5>2. QED
            BY <3>3, <4>2, <5>1 DEF Changes
        <4>3. QED
          BY <4>1, <4>2
      <3>6. QED
        BY <3>2, <3>5
    <2>2. CASE BufferAt(p, x).kind # "local"
      <3>1. y = Move(x, x.index, x.sample, "bcast")
        BY <1>3, <2>2, AfterPhase DEF AfterConstruct, Calling
      <3>2. /\ y.test = x.test /\ y.round = x.round /\ y.phase = "bcast"
            /\ Here(p, y) = here /\ y.index = x.index
        BY <3>1, MoveFields
      <3>3. \A i \in Nat : Changes(p, r, x, y, i)
        BY <1>2, <1>3, <2>2, <3>2 DEF Changes, InRound, Built, Adding, Removing, BufferAt
      <3>4. QED
        BY <3>2, <3>3
    <2>3. QED
      BY <2>1, <2>2
  <1>4. CASE x.phase = "construct" /\ ~(x.index <= Len(here.buffers))
    <2>1. \/ y = Move(x, 1, x.sample, "collect")
          \/ y = Move(x, x.index, x.sample, "entry")
      BY <1>4, AfterPhase DEF AfterConstruct, Quiet, Calling
    <2>2. /\ y.test = x.test /\ y.round = x.round /\ y.phase \in {"collect", "entry"}
          /\ Here(p, y) = here
      BY <2>1 DEF Move, Here
    <2>3. \A i \in Nat : Changes(p, r, x, y, i)
      BY <1>2, <1>4, <2>2 DEF Changes, InRound, Built, Adding, Removing
    <2>4. QED
      BY <2>2, <2>3
  <1>5. CASE x.phase = "bcast"
    <2>1. \/ y = Move(x, x.index, x.sample, "mapped")
          \/ y = Move(x, x.index, x.sample, "added")
      BY <1>5, AfterPhase DEF AfterBcast, Calling
    <2>2. /\ y.test = x.test /\ y.round = x.round /\ y.phase \in {"mapped", "added"}
          /\ Here(p, y) = here /\ y.index = x.index
      BY <2>1 DEF Move, Here
    <2>3. x.index \in DOMAIN here.buffers /\ here.buffers[x.index].kind # "local"
      BY <1>1, <1>5 DEF Fits
    <2>4. \A i \in Nat : Changes(p, r, x, y, i)
      BY <1>2, <1>5, <2>2, <2>3, SMTT(30) DEF Changes, InRound, Built, Adding, Removing
    <2>5. QED
      BY <2>2, <2>4
  <1>6. CASE x.phase = "added"
    <2>1. y = Move(x, x.index, x.sample, "mapped")
      BY <1>6, AfterPhase DEF Calling
    <2>2. /\ y.test = x.test /\ y.round = x.round /\ y.phase = "mapped"
          /\ Here(p, y) = here /\ y.index = x.index
      BY <2>1, MoveFields
    <2>3. x.index \in DOMAIN here.buffers /\ here.buffers[x.index].kind # "local"
      BY <1>1, <1>6 DEF Fits
    <2>4. \A i \in Nat : Changes(p, r, x, y, i)
      BY <1>2, <1>6, <2>2, <2>3 DEF Changes, InRound, Built, Adding, Removing
    <2>5. QED
      BY <2>2, <2>4
  <1>7. CASE x.phase = "mapped"
    <2>1. y = Move(x, x.index + 1, x.sample, "construct")
      BY <1>7, AfterPhase DEF Quiet
    <2>2. /\ y.test = x.test /\ y.round = x.round /\ y.phase = "construct"
          /\ Here(p, y) = here /\ y.index = x.index + 1
      BY <2>1, MoveFields
    <2>3. \A i \in Nat : Changes(p, r, x, y, i)
      BY <1>2, <1>7, <2>2 DEF Changes, InRound, Built, Adding, Removing
    <2>4. QED
      BY <2>2, <2>3
  <1>8. CASE x.phase \in {"entry", "copy", "exit", "verify", "collect"}
    <2>1. \/ y = Move(x, x.index, x.sample, "copy")
          \/ y = Move(x, 1, 0, "destroy")
          \/ y = Move(x, x.index, x.sample, "exit")
          \/ y = Move(x, x.index, x.sample, "verify")
          \/ y = Move(x, x.index, x.sample + 1, "entry")
          \/ y = Move(x, 1, x.sample, "collect")
          \/ y = Move(x, x.index + 1, x.sample, "collect")
          \/ y = Move(x, 1, x.sample, "destroy")
      BY <1>8, AfterPhase DEF AfterCopy, AfterVerify, AfterCollect, Quiet, Calling
    <2>2. /\ y.test = x.test /\ y.round = x.round
          /\ y.phase \in {"entry", "copy", "exit", "verify", "collect", "destroy"}
          /\ y.phase = "destroy" => y.index = 1
          /\ Here(p, y) = here
      BY <2>1, MoveFields
    <2>3. \A i \in Nat : Changes(p, r, x, y, i)
      BY <1>2, <1>8, <2>2, SMTT(30) DEF Changes, InRound, Built, Adding, Removing
    <2>4. QED
      BY <2>2, <2>3
  <1>9. CASE x.phase = "destroy" /\ DoomedAt(p, x).kind # "local"
    <2>1. y = Move(x, x.index, x.sample, "unmap")
      BY <1>9, AfterPhase DEF AfterDestroy, Calling
    <2>2. /\ y.test = x.test /\ y.round = x.round /\ y.phase = "unmap"
          /\ Here(p, y) = here /\ y.index = x.index
      BY <2>1, MoveFields
    <2>3. \A i \in Nat : Changes(p, r, x, y, i)
      BY <1>2, <1>9, <2>2 DEF Changes, InRound, Built, Adding, Removing
    <2>4. QED
      BY <2>2, <2>3
  <1>10. CASE x.phase = "unmap" \/ (x.phase = "destroy" /\ DoomedAt(p, x).kind = "local")
    <2>1. y = Move(x, x.index + 1, x.sample, "destroy")
      BY <1>10, AfterPhase DEF AfterDestroy, Quiet
    <2>2. /\ y.test = x.test /\ y.round = x.round /\ y.phase = "destroy"
          /\ Here(p, y) = here /\ y.index = x.index + 1
      BY <2>1, MoveFields
    <2>3. x.index \in DOMAIN here.destroy
      BY <1>1, <1>2, <1>10 DEF Fits, GoodPosition
    <2>4. Removing(p, x) /\ ~Adding(p, r, x, y)
      BY <1>2, <1>10, <2>3 DEF Removing, Adding
    <2>5. ASSUME NEW i \in Nat PROVE Changes(p, r, x, y, i)
      <3>1. Built(p, y) = Built(p, x)
        BY <1>10, <2>2 DEF Built
      <3>2. (\A m \in DOMAIN here.destroy : m < y.index => here.destroy[m] # i)
              <=> (\A m \in DOMAIN here.destroy : m < x.index => here.destroy[m] # i)
                  /\ i # here.destroy[x.index]
        BY <1>2, <2>2, <2>3, SMTT(30)
      <3>3. QED
        BY <1>10, <2>2, <2>4, <3>1, <3>2 DEF Changes, InRound
    <2>6. QED
      BY <2>2, <2>5
  <1>11. QED
    BY <1>1, <1>3, <1>4, <1>5, <1>6, <1>7, <1>8, <1>9, <1>10 DEF Position, Phases, Operating

\* The end of a round leaves nothing of it mapped but a latch.
LEMMA ChangesAtEnd ==
  ASSUME NEW p \in Plans, NEW r, NEW x, GoodPosition(p, x), x.phase = "destroy",
         ~(x.index <= Len(Here(p, x).destroy)),
         NEW t \in Nat, NEW k \in Nat, NEW i \in Nat
  PROVE  Holds(p, r, NextRound(p, x), t, k, i) <=> Holds(p, r, x, t, k, i)
  <1> DEFINE here == Here(p, x)
             y == NextRound(p, x)
  <1>1. /\ x \in Position /\ x.test \in DOMAIN p.keys /\ GoodRound(p, x.round, here)
        /\ x.round \in Nat \ {0} /\ x.index \in Nat /\ x.test \in Nat
    BY HereGood DEF GoodPosition, OnPlan, Position
  <1>2. Len(here.destroy) \in Nat /\ DOMAIN here.destroy = 1 .. Len(here.destroy)
    BY <1>1, SMTT(30) DEF GoodRound
  <1>3. \A j \in Nat : InRound(p, r, x, j) <=> x.round = 1 /\ j = 1
    <2>1. CASE x.round = 1
      <3>1. here.buffers = <<Unicast(0)>> /\ here.destroy = <<>>
        BY <1>1, <2>1 DEF GoodRound
      <3>2. DOMAIN here.buffers = {1} /\ here.buffers[1].kind # "local" /\ Len(here.buffers) = 1
        BY <3>1 DEF Unicast
      <3>3. Built(p, x) = 2 /\ DOMAIN here.destroy = {}
        BY <3>1, <3>2 DEF Built
      <3>4. QED
        BY <2>1, <3>2, <3>3 DEF InRound
    <2>2. CASE x.round # 1
      <3>1. \A j \in DOMAIN here.buffers : \E m \in DOMAIN here.destroy : here.destroy[m] = j
        BY <1>1, <2>2 DEF GoodRound
      <3>2. \A m \in DOMAIN here.destroy : m < x.index
        BY <1>1, <1>2
      <3>3. QED
        BY <2>2, <3>1, <3>2 DEF InRound
    <2>3. QED
      BY <2>1, <2>2
  <1>4. /\ y.phase # "done" => y.phase = "construct" /\ y.index = 1
        /\ \/ y.test = x.test + 1 /\ y.round = 1
           \/ y.test = x.test /\ y.round = x.round + 1
    BY NextRoundGood DEF Begin
  <1> HIDE DEF y
  <1>5. y.phase # "done" => \A j \in Nat : ~InRound(p, r, y, j)
    <2> SUFFICES ASSUME y.phase # "done", NEW j \in Nat PROVE ~InRound(p, r, y, j)
      OBVIOUS
    <2>1. Built(p, y) = 1
      BY <1>4 DEF Built
    <2>2. GoodPosition(p, y)
      BY NextRoundGood DEF y
    <2>3. DOMAIN Here(p, y).buffers = 1 .. Len(Here(p, y).buffers)
      BY <2>2, HereGood, SMTT(30) DEF GoodRound
    <2>4. QED
      BY <2>1, <2>3 DEF InRound
  <1>6. Holds(p, r, y, t, k, i) <=> Latched(p, y, t, k, i)
    BY <1>5 DEF Holds
  <1>7. Latched(p, y, t, k, i) <=>
          k = 1 /\ i = 1 /\ t \in DOMAIN p.keys /\ t <= x.test
    BY <1>1, <1>4 DEF Latched
  <1>8. Holds(p, r, x, t, k, i) <=>
          k = 1 /\ i = 1 /\ t \in DOMAIN p.keys /\ t <= x.test
    BY <1>1, <1>3 DEF Holds, Latched
  <1>9. QED
    BY <1>6, <1>7, <1>8 DEF y

Triples == Nat \X Nat \X Nat

HeldAt(p, r, x, held) ==
  /\ held \subseteq Triples
  /\ \A t, k, i \in Nat : <<t, k, i>> \in held <=> Holds(p, r, x, t, k, i)

LEMMA ChangesHeld ==
  ASSUME NEW p \in Plans, NEW r, NEW s, NEW thrown, GoodLocal(p, s), s.at.phase # "done",
         NEW held, HeldAt(p, r, s.at, held)
  PROVE  LET y == After(p, s, thrown).at
         IN  HeldAt(p, r, y, Change(p, r, s.at, y, held))
  <1> DEFINE x == s.at
             y == After(p, s, thrown).at
             here == Here(p, x)
             new == Change(p, r, x, y, held)
  <1>1. /\ x \in Position /\ GoodPosition(p, x) /\ x.test \in Nat /\ x.round \in Nat
        /\ x.index \in Nat /\ Fits(here, x.index, x.phase)
    BY DEF GoodLocal, GoodPosition, OnPlan, Position
  <1>2. here.destroy \in Seq(Nat) /\ DOMAIN here.destroy = 1 .. Len(here.destroy)
    BY <1>1, HereGood, SMTT(30) DEF GoodRound
  <1>3. CASE x.phase = "destroy" /\ ~(x.index <= Len(here.destroy))
    <2>1. y = NextRound(p, x)
      BY <1>3, AfterPhase DEF AfterDestroy, Quiet
    <2>2. ~Adding(p, r, x, y) /\ ~Removing(p, x)
      BY <1>3 DEF Adding, Removing
    <2>3. new = held
      BY <2>2 DEF Change
    <2>4. \A t, k, i \in Nat : Holds(p, r, NextRound(p, x), t, k, i) <=> Holds(p, r, x, t, k, i)
      BY <1>1, <1>3, ChangesAtEnd
    <2>5. QED
      BY <2>1, <2>3, <2>4 DEF HeldAt
  <1>4. CASE ~(x.phase = "destroy" /\ ~(x.index <= Len(here.destroy)))
    <2>1. /\ y.test = x.test /\ y.round = x.round /\ y.phase # "done"
          /\ \A i \in Nat : Changes(p, r, x, y, i)
      BY <1>4, ChangesInRound
    <2> HIDE DEF y
    <2>2. \A t, k, i \in Nat : Latched(p, y, t, k, i) <=> Latched(p, x, t, k, i)
      BY <2>1 DEF Latched
    <2>3. CASE Adding(p, r, x, y)
      <3>1. new = held \union {<<x.test, x.round, x.index>>}
        BY <2>3 DEF Change, NameAt
      <3>2. new \subseteq Triples
        BY <1>1, <3>1 DEF HeldAt, Triples
      <3>3. \A i \in Nat : InRound(p, r, y, i) <=> InRound(p, r, x, i) \/ i = x.index
        BY <2>1, <2>3 DEF Changes
      <3>4. \A t, k, i \in Nat :
              Holds(p, r, y, t, k, i) <=>
                Holds(p, r, x, t, k, i) \/ (t = x.test /\ k = x.round /\ i = x.index)
        BY <2>1, <2>2, <3>3 DEF Holds
      <3>5. \A t, k, i \in Nat : <<t, k, i>> \in new <=> Holds(p, r, y, t, k, i)
        BY <1>1, <3>1, <3>4 DEF HeldAt
      <3>6. QED
        BY <3>2, <3>5 DEF HeldAt, y
    <2>4. CASE ~Adding(p, r, x, y) /\ Removing(p, x)
      <3> DEFINE d == here.destroy[x.index]
      <3>1. new = held \ {<<x.test, x.round, d>>}
        BY <2>4 DEF Change, DoomedName
      <3>2. d \in Nat /\ x.round # 1
        <4>1. x.index \in DOMAIN here.destroy
          BY <1>1, <1>2, <2>4 DEF Removing, Fits, GoodPosition
        <4>2. here.destroy # <<>>
          BY <4>1
        <4>3. GoodRound(p, x.round, here)
          BY <1>1, HereGood
        <4>4. d \in Nat
          BY <1>2, <4>1
        <4>5. x.round # 1
          BY <4>2, <4>3 DEF GoodRound
        <4>6. QED
          BY <4>4, <4>5
      <3> HIDE DEF d
      <3>3. \A i \in Nat : InRound(p, r, y, i) <=> InRound(p, r, x, i) /\ i # d
        BY <2>1, <2>4 DEF Changes, d
      <3>4. \A t, k, i \in Nat :
              Holds(p, r, y, t, k, i) <=>
                Holds(p, r, x, t, k, i) /\ ~(t = x.test /\ k = x.round /\ i = d)
        BY <2>1, <2>2, <3>2, <3>3 DEF Holds, Latched
      <3>5. \A t, k, i \in Nat : <<t, k, i>> \in new <=> Holds(p, r, y, t, k, i)
        BY <1>1, <3>1, <3>2, <3>4 DEF HeldAt
      <3>6. QED
        BY <3>1, <3>5 DEF HeldAt, y
    <2>5. CASE ~Adding(p, r, x, y) /\ ~Removing(p, x)
      <3>1. new = held
        BY <2>5 DEF Change
      <3>2. \A i \in Nat : InRound(p, r, y, i) <=> InRound(p, r, x, i)
        BY <2>1, <2>5 DEF Changes
      <3>3. \A t, k, i \in Nat : Holds(p, r, y, t, k, i) <=> Holds(p, r, x, t, k, i)
        BY <2>1, <2>2, <3>2 DEF Holds
      <3>4. QED
        BY <3>1, <3>3 DEF HeldAt, y
    <2>6. QED
      BY <2>3, <2>4, <2>5
  <1>5. QED
    BY <1>3, <1>4

MappedInv ==
  /\ mapped = [r \in Ranks |-> mapped[r]]
  /\ \A r \in Ranks : HeldAt(plan, r, at[r], mapped[r])

\* What a step of rank r does to what the ranks have mapped.
LEMMA StepMaps ==
  ASSUME LocalInv, MappedInv, NEW r \in Ranks, Step(r)
  PROVE  /\ mapped' = [q \in Ranks |-> mapped'[q]]
         /\ mapped'[r] = Change(plan, r, at[r], at'[r], mapped[r])
         /\ \A q \in Ranks \ {r} : mapped'[q] = mapped[q]
  <1> DEFINE x == at[r]
             y == at'[r]
             here == Here(plan, x)
             Keeps == mapped' = mapped /\ ~Adding(plan, r, x, y) /\ ~Removing(plan, x)
  <1>1. x \in Position /\ RoundOf(r) = here /\ at \in [Ranks -> Position]
    BY DEF LocalInv, RoundOf, Rounds, Here
  <1>2. CurrentBuffer(r) = BufferAt(plan, x) /\ Current(r) = NameAt(x)
    BY <1>1 DEF CurrentBuffer, BufferAt, Current, Named, NameAt
  <1>3. Doomed(r) = DoomedName(plan, x) /\ DoomedBuffer(r) = DoomedAt(plan, x)
    BY <1>1 DEF Doomed, DoomedName, DoomedBuffer, DoomedAt, Named
  <1>4. Keeps => /\ mapped' = [q \in Ranks |-> mapped'[q]]
                 /\ mapped'[r] = Change(plan, r, x, y, mapped[r])
                 /\ \A q \in Ranks \ {r} : mapped'[q] = mapped[q]
    BY DEF MappedInv, Change
  <1>5. CASE AllocateLocal(r)
    <2>1. /\ x.phase = "construct" /\ x.index <= Len(here.buffers)
          /\ BufferAt(plan, x).kind = "local" /\ ~Removing(plan, x)
      BY <1>1, <1>2, <1>5 DEF AllocateLocal, Constructing, In, Removing
    <2>2. Adding(plan, r, x, y) <=> BufferAt(plan, x).owner = r
      BY <2>1 DEF Adding
    <2>3. mapped' = IF BufferAt(plan, x).owner = r
                    THEN [mapped EXCEPT ![r] = @ \union {NameAt(x)}] ELSE mapped
      BY <1>2, <1>5 DEF AllocateLocal
    <2>4. QED
      BY <2>1, <2>2, <2>3 DEF MappedInv, Change
  <1>6. CASE ImportUnicast(r) \/ BindMemory(r)
    <2>1. x.phase \in {"bcast", "added"} /\ mapped' = [mapped EXCEPT ![r] = @ \union {NameAt(x)}]
      BY <1>2, <1>6 DEF ImportUnicast, BindMemory, Map, In
    <2>2. y.phase = "mapped"
      BY <1>1, <1>6 DEF ImportUnicast, BindMemory, Map, Goto, Position
    <2>3. Adding(plan, r, x, y)
      BY <2>1, <2>2 DEF Adding
    <2>4. QED
      BY <2>1, <2>3 DEF MappedInv, Change
  <1>7. CASE AddDevice(r)
    <2>1. x.phase = "bcast" /\ mapped' = mapped
      BY <1>7 DEF AddDevice, In
    <2>2. y.phase = "added"
      BY <1>1, <1>7 DEF AddDevice, Goto, Position
    <2>3. QED
      BY <1>4, <2>1, <2>2 DEF Adding, Removing
  <1>8. CASE FreeLocal(r) \/ Unmap(r)
    <2>1. mapped' = [mapped EXCEPT ![r] = @ \ {DoomedName(plan, x)}]
      BY <1>3, <1>8 DEF FreeLocal, Unmap
    <2>2. Removing(plan, x) /\ ~Adding(plan, r, x, y)
      BY <1>1, <1>3, <1>8 DEF FreeLocal, Unmap, In, MoreToDestroy, Removing, Adding
    <2>3. QED
      BY <2>1, <2>2 DEF MappedInv, Change
  <1>9. CASE Construct(r)
    <2>1. x.phase = "construct" /\ BufferAt(plan, x).kind # "local"
      BY <1>1, <1>2, <1>9 DEF Construct, Constructing, In
    <2>2. mapped' = mapped
      BY <1>9 DEF Construct, memory
    <2>3. QED
      BY <1>4, <2>1, <2>2 DEF Adding, Removing
  <1>10. CASE Constructed(r)
    <2>1. x.phase = "mapped"
      BY <1>1, <1>10 DEF Constructed, In
    <2>2. mapped' = mapped
      BY <1>10 DEF Constructed, memory
    <2>3. QED
      BY <1>4, <2>1, <2>2 DEF Adding, Removing
  <1>11. CASE HelperBuilt(r)
    <2>1. x.phase = "construct" /\ ~(x.index <= Len(here.buffers))
      BY <1>1, <1>11 DEF HelperBuilt, Constructing, In
    <2>2. mapped' = mapped
      BY <1>11 DEF HelperBuilt, memory
    <2>3. QED
      BY <1>4, <2>1, <2>2 DEF Adding, Removing
  <1>12. CASE BeginOperation(r)
    <2>1. x.phase = "construct" /\ ~(x.index <= Len(here.buffers))
      BY <1>1, <1>12 DEF BeginOperation, Constructing, In
    <2>2. mapped' = mapped
      BY <1>12 DEF BeginOperation, memory
    <2>3. QED
      BY <1>4, <2>1, <2>2 DEF Adding, Removing
  <1>13. CASE BeginDestroy(r)
    <2>1. x.phase = "destroy" /\ DoomedAt(plan, x).kind # "local"
      BY <1>1, <1>3, <1>13 DEF BeginDestroy, In, DoomedBuffer, DoomedAt
    <2>2. mapped' = mapped
      BY <1>13 DEF BeginDestroy, memory
    <2>3. QED
      BY <1>4, <2>1, <2>2 DEF Adding, Removing
  <1>14. CASE EndRound(r)
    <2>1. x.phase = "destroy" /\ ~(x.index <= Len(here.destroy))
      BY <1>1, <1>14 DEF EndRound, In, MoreToDestroy
    <2>2. mapped' = mapped
      BY <1>14 DEF EndRound, memory
    <2>3. QED
      BY <1>4, <2>1, <2>2 DEF Adding, Removing
  <1>15. CASE \/ StartSample(r) \/ FinishCopies(r) \/ EndSample(r) \/ NextSample(r)
            \/ EndOperation(r) \/ Collect(r) \/ Collected(r) \/ Throw(r)
    <2>1. x.phase \in {"entry", "copy", "exit", "verify", "collect"} /\ mapped' = mapped
      BY <1>15 DEF StartSample, FinishCopies, EndSample, NextSample, EndOperation, Collect,
                   Collected, Collecting, Throw, In, memory
    <2>2. QED
      BY <1>4, <2>1 DEF Adding, Removing
  <1>16. QED
    BY <1>5, <1>6, <1>7, <1>8, <1>9, <1>10, <1>11, <1>12, <1>13, <1>14, <1>15 DEF Step

LEMMA MappedInit == Init => MappedInv
  <1> SUFFICES ASSUME Init PROVE MappedInv
    OBVIOUS
  <1>1. mapped = [r \in Ranks |-> {}] /\ plan \in Plans
    BY DEF Init
  <1>2. ASSUME NEW r \in Ranks PROVE HeldAt(plan, r, at[r], {})
    <2> DEFINE x == at[r]
    <2>1. x.test = 1 /\ x.round = 1 /\ x.index = 1 /\ x.phase \in {"construct", "done"}
      BY DEF Init, Begin
    <2>2. Len(plan.keys) \in Nat /\ DOMAIN plan.keys = 1 .. Len(plan.keys)
      BY <1>1, PlanFacts
    <2>3. \A t, k, i \in Nat : ~Latched(plan, x, t, k, i)
      BY <2>1, <2>2 DEF Latched
    <2>4. x.phase # "done" => \A i \in Nat : ~InRound(plan, r, x, i)
      <3>1. Built(plan, x) = 1 \/ x.phase = "done"
        BY <2>1 DEF Built
      <3>2. x.phase # "done" =>
              DOMAIN Here(plan, x).buffers = 1 .. Len(Here(plan, x).buffers)
        BY <1>1, LocalInit, HereGood, SMTT(30) DEF LocalInv, GoodLocal, Loc, GoodRound
      <3>3. QED
        BY <3>1, <3>2 DEF InRound
    <2>5. QED
      BY <2>3, <2>4 DEF HeldAt, Holds
  <1>3. QED
    BY <1>1, <1>2 DEF MappedInv

LEMMA MappedStep ==
  ASSUME LocalInv, MappedInv, NEW r \in Ranks, Step(r)
  PROVE  MappedInv'
  <1>1. Ranks' = Ranks /\ plan' = plan /\ plan \in Plans
    BY LocalStep, StepWalks DEF LocalInv
  <1>2. HeldAt(plan, r, at'[r], mapped'[r])
    <2> DEFINE y == After(plan, Loc(r), Throws(r)).at
    <2>1. at[r] = Loc(r).at /\ at'[r] = y
      <3>1. Loc(r)' = After(plan, Loc(r), Throws(r))
        BY StepWalks
      <3>2. Loc(r)'.at = at'[r] /\ Loc(r).at = at[r]
        BY DEF Loc
      <3>3. QED
        BY <3>1, <3>2
    <2>2. HeldAt(plan, r, at[r], mapped[r]) /\ GoodLocal(plan, Loc(r)) /\ at[r].phase # "done"
      BY StepWalks DEF MappedInv, LocalInv
    <2>3. HeldAt(plan, r, y, Change(plan, r, at[r], y, mapped[r]))
      BY <1>1, <2>1, <2>2, ChangesHeld
    <2>4. mapped'[r] = Change(plan, r, at[r], at'[r], mapped[r])
      BY StepMaps
    <2>5. QED
      BY <2>1, <2>3, <2>4
  <1>3. ASSUME NEW q \in Ranks \ {r} PROVE HeldAt(plan, q, at'[q], mapped'[q])
    <2>1. at'[q] = at[q] /\ mapped'[q] = mapped[q]
      BY StepWalks, StepMaps DEF OthersStay, Loc
    <2>2. QED
      BY <2>1 DEF MappedInv
  <1>4. QED
    BY <1>1, <1>2, <1>3, StepMaps DEF MappedInv

LEMMA PlacesInvariant == Spec => [](LocalInv /\ MappedInv)
  <1>1. Init => LocalInv /\ MappedInv
    BY LocalInit, MappedInit
  <1>2. LocalInv /\ MappedInv /\ [Next]_vars => LocalInv' /\ MappedInv'
    <2>1. ASSUME LocalInv, MappedInv, UNCHANGED vars PROVE MappedInv'
      BY <2>1 DEF MappedInv, vars, Ranks
    <2>2. QED
      BY <2>1, NextSteps, LocalStep, LocalStays, MappedStep
  <1>3. QED
    BY <1>1, <1>2, PTL DEF Spec

\* Whether its copies throw or not, and whatever the other ranks do: a rank that
\* is through has nothing mapped but the latches of the node helpers.
THEOREM NoLeaks == Spec => []NothingLeaks
  <1>1. LocalInv /\ MappedInv => NothingLeaks
    <2> SUFFICES ASSUME LocalInv, MappedInv, NEW r \in Ranks, In(r, "done")
                 PROVE  mapped[r] = {<<t, 1, 1>> : t \in DOMAIN plan.keys}
      BY DEF NothingLeaks
    <2>1. /\ at[r].phase = "done" /\ at[r].test = Len(plan.keys) + 1
          /\ HeldAt(plan, r, at[r], mapped[r])
      BY DEF In, LocalInv, MappedInv, GoodLocal, GoodPosition, Loc
    <2>2. Len(plan.keys) \in Nat /\ DOMAIN plan.keys = 1 .. Len(plan.keys)
      BY PlanFacts DEF LocalInv
    <2>3. \A t, k, i \in Nat :
            <<t, k, i>> \in mapped[r] <=> t \in DOMAIN plan.keys /\ k = 1 /\ i = 1
      <3> TAKE t, k, i \in Nat
      <3>1. <<t, k, i>> \in mapped[r] <=> Latched(plan, at[r], t, k, i)
        BY <2>1 DEF HeldAt, Holds
      <3>2. QED
        BY <2>1, <2>2, <3>1 DEF Latched
    <2>4. mapped[r] \subseteq Triples
      BY <2>1 DEF HeldAt
    <2>5. \A b \in mapped[r] : \E t \in DOMAIN plan.keys : b = <<t, 1, 1>>
      BY <2>3, <2>4 DEF Triples
    <2>6. \A t \in DOMAIN plan.keys : <<t, 1, 1>> \in mapped[r]
      BY <2>2, <2>3
    <2>7. QED
      BY <2>5, <2>6
  <1>2. QED
    BY <1>1, PlacesInvariant, PTL

-------------------------------------------------------------------------------
(***************************************************************************)
(* 5. The path of a plan: the local states that all ranks go through, if a *)
(* copy throws on all of them or on none.                                  *)
(***************************************************************************)
\* Where a rank waits until all others have entered the same call.
Gates == {"added", "mapped", "entry", "exit", "unmap"}
Working == {"construct"} \union Operating

SameRound(x, y) == x.test = y.test /\ x.round = y.round

\* A rank that is ahead of one at work, with no gate between them, has not
\* destroyed a shared buffer.
Lagging(p, x, y) ==
  /\ SameRound(x, y)
  /\ \/ y.phase \in Operating \union {"collect"}
     \/ /\ y.phase \in {"destroy", "unmap"}
        /\ \A m \in DOMAIN Here(p, y).destroy :
             m < y.index => Here(p, y).buffers[Here(p, y).destroy[m]].kind = "local"

\* A rank that is behind one that constructs or is at work, with no gate
\* between them, has mapped the same shared buffers.
Leading(p, x, y) ==
  \/ /\ SameRound(x, y)
     /\ x.phase \in Working \union {"mapped"}
     /\ \A i \in DOMAIN Here(p, y).buffers :
          Built(p, x) <= i /\ i < Built(p, y) => Here(p, y).buffers[i].kind = "local"
  \/ \A i \in DOMAIN Here(p, y).buffers :
       i < Built(p, y) => Here(p, y).buffers[i].kind = "local"

LEMMA LagStep ==
  ASSUME NEW p \in Plans, NEW x, GoodPosition(p, x), x.phase \in Operating,
         NEW s, NEW thrown, GoodLocal(p, s), s.at.phase # "done",
         Lagging(p, x, s.at), s.at.phase \notin Gates \/ s.at = x
  PROVE  Lagging(p, x, After(p, s, thrown).at)
  <1> DEFINE z == s.at
             y == After(p, s, thrown).at
             here == Here(p, z)
  <1>1. /\ SameRound(x, z) /\ Here(p, x) = here /\ x.phase # "done"
        /\ GoodPosition(p, z) /\ Fits(here, z.index, z.phase) /\ z.index \in Nat
    BY DEF Lagging, SameRound, Here, GoodLocal, GoodPosition, OnPlan, Position, Operating
  <1>2. GoodRound(p, x.round, here) /\ x.round # 1
    BY <1>1, HereGood, ZenonT(40) DEF GoodRound, GoodPosition, OnPlan, Fits
  <1>3. CASE z.phase \in Operating \union {"collect"}
    <2>1. \/ y = Move(z, z.index, z.sample, "copy")
          \/ y = Move(z, 1, 0, "destroy")
          \/ y = Move(z, z.index, z.sample, "exit")
          \/ y = Move(z, z.index, z.sample, "verify")
          \/ y = Move(z, z.index, z.sample + 1, "entry")
          \/ y = Move(z, 1, z.sample, "collect")
          \/ y = Move(z, z.index + 1, z.sample, "collect")
          \/ y = Move(z, 1, z.sample, "destroy")
      BY <1>3, AfterPhase DEF AfterCopy, AfterVerify, AfterCollect, Quiet, Calling, Operating
    <2>2. /\ y.test = z.test /\ y.round = z.round /\ Here(p, y) = here
          /\ y.phase \in Operating \union {"collect", "destroy"}
          /\ y.phase = "destroy" => y.index = 1
      BY <2>1 DEF Move, Here, Operating
    <2>3. \A m \in DOMAIN here.destroy : ~(m < 1)
      BY <1>2, SMTT(30) DEF GoodRound
    <2>4. QED
      BY <1>1, <2>2, <2>3 DEF Lagging, SameRound
  <1>4. CASE z.phase = "destroy"
    <2>1. \A m \in DOMAIN here.destroy :
            m < z.index => here.buffers[here.destroy[m]].kind = "local"
      BY <1>4 DEF Lagging, Operating
    <2>2. z.index <= Len(here.destroy)
      <3> SUFFICES ASSUME ~(z.index <= Len(here.destroy)) PROVE FALSE
        OBVIOUS
      <3>1. PICK i \in DOMAIN here.buffers : here.buffers[i].kind # "local"
        BY <1>2 DEF GoodRound
      <3>2. PICK m \in DOMAIN here.destroy : here.destroy[m] = i
        BY <1>2 DEF GoodRound
      <3>3. m < z.index
        BY <1>1, <1>2, <3>2, SMTT(30) DEF GoodRound
      <3>4. QED
        BY <2>1, <3>1, <3>2, <3>3
    <2>3. CASE DoomedAt(p, z).kind = "local"
      <3>1. y = Move(z, z.index + 1, z.sample, "destroy")
        BY <1>4, <2>2, <2>3, AfterPhase DEF AfterDestroy, Quiet
      <3>2. /\ y.test = z.test /\ y.round = z.round /\ Here(p, y) = here
            /\ y.phase = "destroy" /\ y.index = z.index + 1
        BY <3>1, MoveFields
      <3>3. \A m \in DOMAIN here.destroy :
              m < y.index => here.buffers[here.destroy[m]].kind = "local"
        <4> TAKE m \in DOMAIN here.destroy
        <4>1. m \in Nat
          BY <1>2, SMTT(30) DEF GoodRound
        <4>2. m < z.index + 1 => m < z.index \/ m = z.index
          BY <1>1, <4>1
        <4>3. QED
          BY <2>1, <2>3, <3>2, <4>2 DEF DoomedAt
      <3>4. QED
        BY <1>1, <3>2, <3>3 DEF Lagging, SameRound
    <2>4. CASE DoomedAt(p, z).kind # "local"
      <3>1. y = Move(z, z.index, z.sample, "unmap")
        BY <1>4, <2>2, <2>4, AfterPhase DEF AfterDestroy, Calling
      <3>2. /\ y.test = z.test /\ y.round = z.round /\ Here(p, y) = here
            /\ y.phase = "unmap" /\ y.index = z.index
        BY <3>1, MoveFields
      <3>3. QED
        BY <1>1, <2>1, <3>2 DEF Lagging, SameRound
    <2>5. QED
      BY <2>3, <2>4
  <1>5. QED
    BY <1>3, <1>4 DEF Lagging, Gates, Operating

LEMMA LeadStep ==
  ASSUME NEW p \in Plans, NEW x, GoodPosition(p, x),
         NEW s, NEW thrown, GoodLocal(p, s), s.at.phase # "done",
         After(p, s, thrown).at.phase \in Working,
         \/ s.at = x
         \/ s.at.phase \notin Gates /\ (s.at.phase \in Working => Leading(p, x, s.at))
  PROVE  Leading(p, x, After(p, s, thrown).at)
  <1> DEFINE z == s.at
             y == After(p, s, thrown).at
             here == Here(p, z)
  <1>1. GoodPosition(p, z) /\ Fits(here, z.index, z.phase) /\ z.index \in Nat /\ z.phase \in Phases
    BY DEF GoodLocal, GoodPosition, OnPlan, Position
  <1>2. /\ Len(here.buffers) \in Nat /\ DOMAIN here.buffers = 1 .. Len(here.buffers)
    BY <1>1, HereGood, SMTT(30) DEF GoodRound
  <1>3. z.phase = "construct" => Leading(p, x, z)
    <2> SUFFICES ASSUME z.phase = "construct", z = x PROVE Leading(p, x, z)
      BY DEF Gates, Working
    <2>1. Built(p, z) = z.index
      BY DEF Built
    <2>2. \A i \in DOMAIN here.buffers : ~(Built(p, z) <= i /\ i < Built(p, z))
      BY <1>1, <1>2, <2>1
    <2>3. QED
      BY <2>2 DEF Leading, SameRound, Working
  <1>4. CASE z.phase = "destroy" /\ ~(z.index <= Len(here.destroy))
    <2>1. y = NextRound(p, z)
      BY <1>4, AfterPhase DEF AfterDestroy, Quiet
    <2>2. y.phase = "construct" /\ y.index = 1 /\ GoodPosition(p, y)
      BY <1>1, <2>1, NextRoundGood DEF Begin, Working, Operating
    <2> HIDE DEF y
    <2>3. Built(p, y) = 1
      BY <2>2 DEF Built
    <2>4. DOMAIN Here(p, y).buffers = 1 .. Len(Here(p, y).buffers)
      BY <2>2, HereGood, SMTT(30) DEF GoodRound
    <2>5. Leading(p, x, y)
      BY <2>3, <2>4 DEF Leading
    <2>6. QED
      BY <2>5 DEF y
  <1>5. CASE z.phase = "construct" /\ z.index <= Len(here.buffers) /\ BufferAt(p, z).kind = "local"
    <2>1. y = Move(z, z.index + 1, z.sample, "construct")
      BY <1>5, AfterPhase DEF AfterConstruct, Quiet
    <2>2. /\ y.test = z.test /\ y.round = z.round /\ Here(p, y) = here
          /\ y.phase = "construct" /\ y.index = z.index + 1
      BY <2>1, MoveFields
    <2> HIDE DEF y
    <2>3. Built(p, y) = z.index + 1 /\ Built(p, z) = z.index
      BY <1>5, <2>2 DEF Built
    <2>4. Leading(p, x, z)
      BY <1>5, <1>3
    <2>5. \A i \in DOMAIN here.buffers : i < z.index + 1 =>
            i < z.index \/ here.buffers[i].kind = "local"
      BY <1>1, <1>2, <1>5 DEF BufferAt
    <2>6. Leading(p, x, y)
      BY <2>2, <2>3, <2>4, <2>5 DEF Leading, SameRound
    <2>7. QED
      BY <2>6 DEF y
  <1>6. CASE z.phase = "construct" /\ ~(z.index <= Len(here.buffers))
    <2>1. y = Move(z, z.index, z.sample, "entry") \/ y = Move(z, 1, z.sample, "collect")
      BY <1>6, AfterPhase DEF AfterConstruct, Quiet, Calling
    <2>2. /\ y.test = z.test /\ y.round = z.round /\ Here(p, y) = here /\ y.phase = "entry"
      BY <2>1 DEF Move, Here, Working, Operating
    <2> HIDE DEF y
    <2>3. Built(p, y) = Built(p, z)
      BY <1>1, <1>2, <1>6, <2>2 DEF Built, Fits
    <2>4. Leading(p, x, z)
      BY <1>6, <1>3
    <2>5. Leading(p, x, y)
      BY <2>2, <2>3, <2>4 DEF Leading, SameRound
    <2>6. QED
      BY <2>5 DEF y
  <1>7. CASE z.phase = "mapped"
    <2>1. y = Move(z, z.index + 1, z.sample, "construct")
      BY <1>7, AfterPhase DEF Quiet
    <2>2. /\ y.test = z.test /\ y.round = z.round /\ Here(p, y) = here
          /\ y.phase = "construct" /\ y.index = z.index + 1
      BY <2>1, MoveFields
    <2> HIDE DEF y
    <2>3. Built(p, y) = Built(p, z) /\ x = z /\ Built(p, z) \in Nat
      BY <1>1, <1>7, <2>2 DEF Built, Gates
    <2>4. Leading(p, x, y)
      BY <1>2, <1>7, <2>2, <2>3 DEF Leading, SameRound
    <2>5. QED
      BY <2>4 DEF y
  <1>8. CASE z.phase \in Operating
    <2>1. \/ y = Move(z, z.index, z.sample, "copy")
          \/ y = Move(z, 1, 0, "destroy")
          \/ y = Move(z, z.index, z.sample, "exit")
          \/ y = Move(z, z.index, z.sample, "verify")
          \/ y = Move(z, z.index, z.sample + 1, "entry")
          \/ y = Move(z, 1, z.sample, "collect")
      BY <1>8, AfterPhase DEF AfterCopy, AfterVerify, Quiet, Calling, Operating
    <2>2. /\ y.test = z.test /\ y.round = z.round /\ Here(p, y) = here /\ y.phase \in Operating
      BY <2>1 DEF Move, Here, Working, Operating
    <2> HIDE DEF y
    <2>3. Built(p, y) = Len(here.buffers) + 1 /\ Built(p, z) = Len(here.buffers) + 1
      BY <1>8, <2>2 DEF Built, Operating
    <2>4. Leading(p, x, z)
      BY <1>2, <1>8, <2>3 DEF Leading, Working, SameRound
    <2>5. Leading(p, x, y)
      BY <2>2, <2>3, <2>4 DEF Leading, SameRound
    <2>6. QED
      BY <2>5 DEF y
  <1>9. CASE \/ z.phase \in {"bcast", "added", "collect", "unmap"}
             \/ z.phase = "construct" /\ BufferAt(p, z).kind # "local" /\ z.index <= Len(here.buffers)
             \/ z.phase = "destroy" /\ z.index <= Len(here.destroy)
    <2>1. y.phase \in {"bcast", "added", "mapped", "collect", "destroy", "unmap"}
      BY <1>9, AfterPhase, SMTT(30) DEF AfterConstruct, AfterBcast, AfterCollect, AfterDestroy, Quiet,
                              Calling, Move
    <2>2. QED
      BY <2>1 DEF Working, Operating
  <1>10. QED
    BY <1>1, <1>4, <1>5, <1>6, <1>7, <1>8, <1>9 DEF Phases

\* The step of all ranks: the copy of a round throws on every one or on none.
Following(p, s) == After(p, s, Here(p, s.at).throws # {})

\* No gate between states i and j of a path.
Open(H, i, j) == \A m \in i + 1 .. j - 1 : H[m].at.phase \notin Gates

Prefix(s, u) == Len(s) <= Len(u) /\ \A n \in DOMAIN s : u[n] = s[n]

Path(p, N, H) ==
  /\ N \in Nat \ {0}
  /\ \A i \in 1 .. N : GoodLocal(p, H[i])
  /\ \A i \in 1 .. N - 1 : H[i].at.phase # "done" /\ H[i + 1] = Following(p, H[i])
  /\ \A i, j \in 1 .. N : i <= j => Prefix(H[i].calls, H[j].calls)
  /\ \A i, j \in 1 .. N :
       i < j /\ H[j].at.phase \in Fresh => Len(H[i].calls) < Len(H[j].calls)
  /\ \A i \in 1 .. N :
       H[i].at.phase = "added" =>
         i > 1 /\ H[i - 1].at.phase = "bcast" /\ NameAt(H[i - 1].at) = NameAt(H[i].at)
  /\ \A i, j \in 1 .. N :
       i <= j /\ H[i].at.phase \in Operating /\ Open(H, i, j) => Lagging(p, H[i].at, H[j].at)
  /\ \A i, j \in 1 .. N :
       i < j /\ H[j].at.phase \in Working /\ Open(H, i, j) => Leading(p, H[i].at, H[j].at)

LEMMA PrefixGrows ==
  ASSUME NEW S, NEW s \in Seq(S), NEW u \in Seq(S), NEW w \in Seq(S), NEW c \in S,
         Prefix(s, u), w = u \/ w = Append(u, c)
  PROVE  Prefix(s, w) /\ (w = Append(u, c) => Len(s) < Len(w))
  <1>1. CASE w = u
    <2>1. w = Append(u, c) => Len(w) = Len(u) + 1
      OBVIOUS
    <2>2. QED
      BY <1>1, <2>1 DEF Prefix
  <1>2. CASE w = Append(u, c)
    <2>1. Len(w) = Len(u) + 1 /\ \A n \in 1 .. Len(u) : w[n] = u[n]
      BY <1>2
    <2>2. DOMAIN s = 1 .. Len(s) /\ Len(s) \in Nat /\ Len(u) \in Nat
      OBVIOUS
    <2>3. QED
      BY <2>1, <2>2 DEF Prefix
  <1>3. QED
    BY <1>1, <1>2

\* A device is added to the buffer that was broadcast.
LEMMA AddedFollowsBcast ==
  ASSUME NEW p \in Plans, NEW s, NEW thrown, GoodLocal(p, s), s.at.phase # "done",
         After(p, s, thrown).at.phase = "added"
  PROVE  s.at.phase = "bcast" /\ NameAt(s.at) = NameAt(After(p, s, thrown).at)
  <1> DEFINE z == s.at
             y == After(p, s, thrown).at
  <1>1. z.phase \in Phases /\ GoodPosition(p, z)
    BY DEF GoodLocal, GoodPosition, Position
  <1>2. z.phase = "destroy" => y.phase # "added"
    <2>1. z.phase = "destroy" /\ ~(z.index <= Len(Here(p, z).destroy)) => y = NextRound(p, z)
      BY AfterPhase DEF AfterDestroy, Quiet
    <2>2. z.phase = "destroy" /\ z.index <= Len(Here(p, z).destroy) => y.phase # "added"
      BY AfterPhase DEF AfterDestroy, Quiet, Calling, Move
    <2>3. QED
      BY <1>1, <2>1, <2>2, NextRoundGood
  <1>3. z.phase \in {"construct", "added", "mapped", "unmap", "collect"} => y.phase # "added"
    BY AfterPhase DEF AfterConstruct, AfterCollect, Quiet, Calling, Move
  <1>4. z.phase \in Operating => y.phase # "added"
    BY AfterPhase DEF AfterCopy, AfterVerify, Quiet, Calling, Move, Operating
  <1>5. z.phase = "bcast"
    BY <1>1, <1>2, <1>3, <1>4 DEF Phases
  <1>6. y = Move(z, z.index, z.sample, "added") \/ y = Move(z, z.index, z.sample, "mapped")
    BY <1>5, AfterPhase DEF AfterBcast, Calling
  <1>7. QED
    BY <1>5, <1>6 DEF Move, NameAt

\* The leading rank extends the path.
LEMMA PathGrows ==
  ASSUME NEW p \in Plans, NEW N, NEW H, Path(p, N, H), H[N].at.phase # "done"
  PROVE  \E G : /\ Path(p, N + 1, G)
                /\ \A i \in 1 .. N : G[i] = H[i]
                /\ G[N + 1] = Following(p, H[N])
  <1> DEFINE w == Following(p, H[N])
             thrown == Here(p, H[N].at).throws # {}
             G == [i \in 1 .. N + 1 |-> IF i = N + 1 THEN w ELSE H[i]]
  <1>1. N \in Nat \ {0} /\ N \in 1 .. N /\ N + 1 \in Nat \ {0}
    BY DEF Path
  <1>2. GoodLocal(p, H[N]) /\ GoodLocal(p, w)
    BY <1>1, AfterGood DEF Path, Following
  <1>3. (\A i \in 1 .. N : G[i] = H[i]) /\ G[N + 1] = w
    BY <1>1
  <1>4. \A i \in 1 .. N + 1 : i = N + 1 \/ i \in 1 .. N
    BY <1>1
  <1>5. w = After(p, H[N], thrown)
    BY DEF Following
  <1> HIDE DEF G, w, thrown
  <1>6. \A i \in 1 .. N + 1 : GoodLocal(p, G[i])
    BY <1>2, <1>3, <1>4 DEF Path
  <1>7. \A i \in 1 .. N + 1 - 1 : G[i].at.phase # "done" /\ G[i + 1] = Following(p, G[i])
    <2> TAKE i \in 1 .. N + 1 - 1
    <2>1. CASE i = N
      BY <1>1, <1>3, <2>1 DEF w
    <2>2. CASE i # N
      <3>1. i \in 1 .. N - 1 /\ i \in 1 .. N /\ i + 1 \in 1 .. N
        BY <1>1, <2>2
      <3>2. QED
        BY <1>3, <3>1 DEF Path
    <2>3. QED
      BY <2>1, <2>2
  <1>8. \/ w.calls = H[N].calls /\ w.at.phase \notin Fresh
        \/ \E c \in CallsOn(p) : w.calls = Append(H[N].calls, c)
    BY <1>2, <1>5, AfterEnters
  <1>9. \A i \in 1 .. N :
          /\ Prefix(H[i].calls, w.calls)
          /\ w.at.phase \in Fresh => Len(H[i].calls) < Len(w.calls)
    <2> TAKE i \in 1 .. N
    <2>1. /\ H[i].calls \in Seq(CallsOn(p)) /\ H[N].calls \in Seq(CallsOn(p))
          /\ w.calls \in Seq(CallsOn(p)) /\ Prefix(H[i].calls, H[N].calls)
      <3>1. Prefix(H[i].calls, H[N].calls)
        BY <1>1 DEF Path
      <3>2. QED
        BY <1>2, <3>1 DEF Path, GoodLocal
    <2>2. CASE w.calls = H[N].calls /\ w.at.phase \notin Fresh
      BY <2>1, <2>2
    <2>3. ASSUME NEW c \in CallsOn(p), w.calls = Append(H[N].calls, c)
          PROVE  Prefix(H[i].calls, w.calls) /\ Len(H[i].calls) < Len(w.calls)
      BY <2>1, <2>3, PrefixGrows
    <2>4. QED
      BY <1>8, <2>2, <2>3
  <1>10. \A i, j \in 1 .. N + 1 : i <= j => Prefix(G[i].calls, G[j].calls)
    <2> TAKE i, j \in 1 .. N + 1
    <2> SUFFICES ASSUME i <= j PROVE Prefix(G[i].calls, G[j].calls)
      OBVIOUS
    <2>1. CASE i = N + 1
      <3>1. j = N + 1
        BY <1>1, <2>1
      <3>2. w.calls \in Seq(CallsOn(p))
        BY <1>2 DEF GoodLocal
      <3>3. QED
        BY <1>3, <2>1, <3>1, <3>2 DEF Prefix
    <2>2. CASE i \in 1 .. N /\ j = N + 1
      BY <1>3, <1>9, <2>2
    <2>3. CASE i \in 1 .. N /\ j \in 1 .. N
      BY <1>3, <2>3 DEF Path
    <2>4. QED
      BY <1>4, <2>1, <2>2, <2>3
  <1>11. \A i, j \in 1 .. N + 1 :
           i < j /\ G[j].at.phase \in Fresh => Len(G[i].calls) < Len(G[j].calls)
    <2> TAKE i, j \in 1 .. N + 1
    <2> SUFFICES ASSUME i < j, G[j].at.phase \in Fresh PROVE Len(G[i].calls) < Len(G[j].calls)
      OBVIOUS
    <2>1. i \in 1 .. N
      BY <1>1
    <2>2. CASE j = N + 1
      BY <1>3, <1>9, <2>1, <2>2
    <2>3. CASE j \in 1 .. N
      BY <1>3, <2>1, <2>3 DEF Path
    <2>4. QED
      BY <1>4, <2>2, <2>3
  <1>12. \A i \in 1 .. N + 1 :
           G[i].at.phase = "added" =>
             i > 1 /\ G[i - 1].at.phase = "bcast" /\ NameAt(G[i - 1].at) = NameAt(G[i].at)
    <2> TAKE i \in 1 .. N + 1
    <2>1. CASE i = N + 1
      <3>1. i - 1 = N /\ i > 1
        BY <1>1, <2>1
      <3>2. QED
        BY <1>1, <1>2, <1>3, <1>5, <2>1, <3>1, AddedFollowsBcast
    <2>2. CASE i \in 1 .. N
      <3>1. i > 1 => i - 1 \in 1 .. N
        BY <1>1, <2>2
      <3>2. QED
        BY <1>3, <2>2, <3>1 DEF Path
    <2>3. QED
      BY <1>4, <2>1, <2>2
  <1>13. \A i, j \in 1 .. N : Open(G, i, j) <=> Open(H, i, j)
    <2> TAKE i, j \in 1 .. N
    <2>1. \A m \in i + 1 .. j - 1 : G[m] = H[m]
      BY <1>1, <1>3
    <2>2. QED
      BY <2>1 DEF Open
  <1>14. \A i \in 1 .. N : Open(G, i, N + 1) =>
           Open(G, i, N) /\ (i = N \/ H[N].at.phase \notin Gates)
    <2> SUFFICES ASSUME NEW i \in 1 .. N, Open(G, i, N + 1)
                 PROVE  Open(G, i, N) /\ (i = N \/ H[N].at.phase \notin Gates)
      OBVIOUS
    <2>1. \A m \in i + 1 .. N - 1 : m \in i + 1 .. N + 1 - 1
      BY <1>1
    <2>2. i # N => N \in i + 1 .. N + 1 - 1
      BY <1>1
    <2>3. QED
      BY <1>1, <1>3, <2>1, <2>2 DEF Open
  <1>15. \A i, j \in 1 .. N + 1 :
           i <= j /\ G[i].at.phase \in Operating /\ Open(G, i, j) => Lagging(p, G[i].at, G[j].at)
    <2> TAKE i, j \in 1 .. N + 1
    <2> SUFFICES ASSUME i <= j, G[i].at.phase \in Operating, Open(G, i, j)
                 PROVE  Lagging(p, G[i].at, G[j].at)
      OBVIOUS
    <2>1. CASE i = N + 1
      <3>1. j = N + 1
        BY <1>1, <2>1
      <3>2. QED
        BY <2>1, <3>1 DEF Lagging, SameRound
    <2>2. CASE i \in 1 .. N /\ j = N + 1
      <3>1. Open(H, i, N) /\ (i = N \/ H[N].at.phase \notin Gates)
        BY <1>1, <1>13, <1>14, <2>2
      <3>2. Lagging(p, H[i].at, H[N].at)
        BY <1>1, <1>3, <2>2, <3>1 DEF Path
      <3>3. GoodPosition(p, H[i].at) /\ H[i].at.phase \in Operating
        BY <1>3, <2>2 DEF Path, GoodLocal
      <3>4. H[N].at.phase \notin Gates \/ H[N].at = H[i].at
        BY <3>1
      <3>5. Lagging(p, H[i].at, w.at)
        BY <1>2, <1>5, <3>2, <3>3, <3>4, LagStep
      <3>6. QED
        BY <1>3, <2>2, <3>5
    <2>3. CASE i \in 1 .. N /\ j \in 1 .. N
      BY <1>3, <1>13, <2>3 DEF Path
    <2>4. QED
      BY <1>4, <2>1, <2>2, <2>3
  <1>16. \A i, j \in 1 .. N + 1 :
           i < j /\ G[j].at.phase \in Working /\ Open(G, i, j) => Leading(p, G[i].at, G[j].at)
    <2> TAKE i, j \in 1 .. N + 1
    <2> SUFFICES ASSUME i < j, G[j].at.phase \in Working, Open(G, i, j)
                 PROVE  Leading(p, G[i].at, G[j].at)
      OBVIOUS
    <2>1. i \in 1 .. N
      BY <1>1
    <2>2. CASE j = N + 1
      <3>1. Open(H, i, N) /\ (i = N \/ H[N].at.phase \notin Gates)
        BY <1>1, <1>13, <1>14, <2>1, <2>2
      <3>2. i # N /\ H[N].at.phase \in Working => Leading(p, H[i].at, H[N].at)
        BY <1>1, <2>1, <3>1 DEF Path
      <3>3. GoodPosition(p, H[i].at)
        BY <2>1 DEF Path, GoodLocal
      <3>4. Leading(p, H[i].at, w.at)
        BY <1>2, <1>3, <1>5, <2>2, <3>1, <3>2, <3>3, LeadStep
      <3>5. QED
        BY <1>3, <2>1, <2>2, <3>4
    <2>3. CASE j \in 1 .. N
      BY <1>3, <1>13, <2>1, <2>3 DEF Path
    <2>4. QED
      BY <1>4, <2>2, <2>3
  <1>17. Path(p, N + 1, G)
    BY <1>1, <1>6, <1>7, <1>10, <1>11, <1>12, <1>15, <1>16 DEF Path
  <1>18. QED
    BY <1>3, <1>17 DEF w

-------------------------------------------------------------------------------
(***************************************************************************)
(* 6. All ranks walk one path.                                             *)
(***************************************************************************)
\* A round throws on every rank or on none.  (MultinodeBuffers: where one rank
\* throws alone, the ranks disagree on the collective call they are in.)
Together ==
  \A t \in DOMAIN plan.keys : \A k \in DOMAIN Table[plan][t] :
    Table[plan][t][k].throws \in {{}, Ranks}

\* Rank r is at state g[r] of the path, has not passed a gate that another one
\* has not reached, and has exported the buffers that it owns and was added to
\* the multicast objects on the path behind it.
Walking(N, H, g) ==
  /\ g \in [Ranks -> 1 .. N]
  /\ \A r \in Ranks : H[g[r]] = Loc(r)
  /\ \A r, q \in Ranks : \A m \in 1 .. N : m < g[q] /\ H[m].at.phase \in Gates => m <= g[r]
  /\ \A r \in Ranks : \A m \in 1 .. N :
       m <= g[r] /\ H[m].at.phase = "bcast" /\ BufferAt(plan, H[m].at).owner = r =>
         NameAt(H[m].at) \in exported
  /\ \A r \in Ranks : \A m \in 1 .. N :
       m < g[r] /\ H[m].at.phase = "bcast" /\ BufferAt(plan, H[m].at).kind = "multicast" =>
         r \in added[NameAt(H[m].at)]

AddedInv == added \in [Buffers(plan) -> SUBSET Ranks]
WalkInv == AddedInv /\ \E N, H, g : Path(plan, N, H) /\ Walking(N, H, g)

LEMMA NameInBuffers ==
  ASSUME NEW p \in Plans, NEW x, GoodPosition(p, x), x.phase \in {"bcast", "added", "mapped"}
  PROVE  NameAt(x) \in Buffers(p)
  <1>1. /\ x.test \in DOMAIN p.keys /\ x.round \in DOMAIN Table[p][x.test]
        /\ x.index \in DOMAIN Table[p][x.test][x.round].buffers
    BY DEF GoodPosition, OnPlan, Fits, Here
  <1>2. DOMAIN Table[p] = DOMAIN p.keys
    BY DEF Table
  <1>3. QED
    BY <1>1, <1>2 DEF Buffers, NameAt

LEMMA AfterSame ==
  ASSUME NEW p, NEW s, NEW a \in BOOLEAN, NEW b \in BOOLEAN, a <=> b
  PROVE  After(p, s, a) = After(p, s, b)
  <1>1. a = b
    OBVIOUS
  <1>2. QED
    BY <1>1, Zenon

LEMMA StepFollows ==
  ASSUME LocalInv, Together, NEW r \in Ranks, Step(r)
  PROVE  Loc(r)' = Following(plan, Loc(r))
  <1>1. at[r].phase # "done" /\ Loc(r)' = After(plan, Loc(r), Throws(r))
    BY StepWalks
  <1>2. GoodPosition(plan, at[r]) /\ Loc(r).at = at[r]
    BY DEF LocalInv, GoodLocal, Loc
  <1>3. RoundOf(r) = Here(plan, at[r])
    BY DEF RoundOf, Rounds, Here
  <1>4. Here(plan, at[r]).throws \in {{}, Ranks}
    BY <1>1, <1>2 DEF Together, Here, GoodPosition, OnPlan
  <1>5. Throws(r) <=> Here(plan, at[r]).throws # {}
    BY <1>3, <1>4 DEF Throws
  <1>6. Throws(r) \in BOOLEAN /\ (Here(plan, at[r]).throws # {}) \in BOOLEAN
    BY DEF Throws
  <1>7. After(plan, Loc(r), Throws(r)) = After(plan, Loc(r), Here(plan, at[r]).throws # {})
    BY <1>5, <1>6, AfterSame
  <1>8. QED
    BY <1>1, <1>2, <1>7 DEF Following

\* What a step does to the shared buffers, and what it waits for.
LEMMA StepShares ==
  ASSUME LocalInv, AddedInv, NEW r \in Ranks, Step(r)
  PROVE  /\ exported \subseteq exported'
         /\ at'[r].phase = "bcast" /\ BufferAt(plan, at'[r]).owner = r =>
              NameAt(at'[r]) \in exported'
         /\ added' \in [Buffers(plan) -> SUBSET Ranks]
         /\ \A b \in Buffers(plan) : added[b] \subseteq added'[b]
         /\ at[r].phase = "bcast" /\ BufferAt(plan, at[r]).kind = "multicast" =>
              r \in added'[NameAt(at[r])]
         /\ at[r].phase \in Gates => Meet(r)
         /\ at[r].phase = "bcast" => Received(r)
  <1> DEFINE x == at[r]
             y == at'[r]
             Idle == exported' = exported /\ added' = added
  <1>1. x \in Position /\ at \in [Ranks -> Position] /\ GoodPosition(plan, x) /\ plan \in Plans
    BY DEF LocalInv, GoodLocal, Loc
  <1>2. CurrentBuffer(r) = BufferAt(plan, x) /\ Current(r) = NameAt(x)
    BY DEF RoundOf, Rounds, Here, CurrentBuffer, BufferAt, Current, Named, NameAt
  <1>3. CASE Construct(r)
    <2>1. /\ x.phase = "construct" /\ added' = added
          /\ exported' = IF BufferAt(plan, x).owner = r THEN exported \union {NameAt(x)} ELSE exported
      BY <1>2, <1>3 DEF Construct, Constructing, In
    <2>2. y = Move(x, x.index, x.sample, "bcast")
      BY <1>1, <1>3, Moves DEF Construct, Goto
    <2>3. NameAt(y) = NameAt(x) /\ BufferAt(plan, y) = BufferAt(plan, x)
      BY <2>2 DEF Move, NameAt, BufferAt, Here
    <2>4. QED
      BY <2>1, <2>3 DEF AddedInv, Gates
  <1>4. CASE AddDevice(r)
    <2>1. /\ x.phase = "bcast" /\ exported' = exported /\ Received(r)
          /\ added' = [added EXCEPT ![NameAt(x)] = @ \union {r}]
      BY <1>2, <1>4 DEF AddDevice, In
    <2>2. y.phase = "added"
      BY <1>1, <1>4 DEF AddDevice, Goto, Position
    <2>3. NameAt(x) \in Buffers(plan)
      BY <1>1, <2>1, NameInBuffers
    <2>4. added' \in [Buffers(plan) -> SUBSET Ranks]
      BY <2>1, <2>3 DEF AddedInv
    <2>5. (\A b \in Buffers(plan) : added[b] \subseteq added'[b]) /\ r \in added'[NameAt(x)]
      BY <2>1, <2>3 DEF AddedInv
    <2>6. QED
      BY <2>1, <2>2, <2>4, <2>5 DEF Gates
  <1>5. CASE ImportUnicast(r)
    <2>1. x.phase = "bcast" /\ Idle /\ Received(r) /\ BufferAt(plan, x).kind = "unicast"
      BY <1>2, <1>5 DEF ImportUnicast, Map, In
    <2>2. y.phase = "mapped"
      BY <1>1, <1>5 DEF ImportUnicast, Map, Goto, Position
    <2>3. QED
      BY <2>1, <2>2 DEF AddedInv, Gates
  <1>6. CASE \/ BindMemory(r) \/ Constructed(r) \/ StartSample(r) \/ EndSample(r) \/ Unmap(r)
    <2>1. Idle /\ x.phase # "bcast" /\ Meet(r)
      BY <1>6 DEF BindMemory, Map, AddBarrier, Constructed, StartSample, EndSample, SampleBarrier,
                  Unmap, DestroyBarrier, In, memory
    <2>2. Constructed(r) => Goto(r, Move(x, x.index + 1, x.sample, "construct"))
      BY GotoMoves, Zenon DEF Constructed
    <2>3. Unmap(r) => Goto(r, Move(x, x.index + 1, x.sample, "destroy"))
      BY GotoMoves, Zenon DEF Unmap
    <2>4. BindMemory(r) \/ StartSample(r) \/ EndSample(r) => y.phase # "bcast"
      BY <1>1 DEF BindMemory, Map, StartSample, EndSample, Goto, Position
    <2>5. y.phase # "bcast"
      BY <1>1, <1>6, <2>2, <2>3, <2>4 DEF Goto, Move
    <2>6. QED
      BY <2>1, <2>5 DEF AddedInv
  <1>7. CASE EndRound(r)
    <2>1. Idle /\ x.phase = "destroy"
      BY <1>7 DEF EndRound, In, memory
    <2>2. y = NextRound(plan, x)
      BY <1>1, <1>7 DEF EndRound, Goto, NextRound, Rounds
    <2>3. y.phase # "bcast"
      BY <1>1, <2>1, <2>2, NextRoundGood
    <2>4. QED
      BY <2>1, <2>3 DEF AddedInv, Gates
  <1>8. CASE \/ AllocateLocal(r) \/ HelperBuilt(r) \/ BeginOperation(r) \/ FinishCopies(r)
             \/ NextSample(r) \/ EndOperation(r)
    <2>1. Idle /\ x.phase \notin Gates \union {"bcast"}
      BY <1>8 DEF AllocateLocal, HelperBuilt, BeginOperation, FinishCopies, NextSample,
                  EndOperation, Constructing, In, memory, Gates
    <2>2. AllocateLocal(r) => y.phase # "bcast"
      BY <1>1 DEF AllocateLocal, Constructing, In, Goto, Position
    <2>3. BeginOperation(r) \/ FinishCopies(r) => y.phase # "bcast"
      BY <1>1 DEF BeginOperation, FinishCopies, Goto, Position
    <2>4. HelperBuilt(r) \/ EndOperation(r) => Goto(r, Move(x, 1, x.sample, "collect"))
      BY GotoMoves, Zenon DEF HelperBuilt, EndOperation
    <2>5. NextSample(r) => Goto(r, Move(x, x.index, x.sample + 1, "entry"))
      BY GotoMoves, Zenon DEF NextSample
    <2>6. y.phase # "bcast"
      BY <1>1, <1>8, <2>2, <2>3, <2>4, <2>5 DEF Goto, Move
    <2>7. QED
      BY <2>1, <2>6 DEF AddedInv
  <1>9. CASE Collect(r) \/ Collected(r) \/ Throw(r) \/ FreeLocal(r) \/ BeginDestroy(r)
    <2>1. Idle /\ x.phase \notin Gates \union {"bcast"}
      BY <1>9 DEF Collect, Collected, Collecting, Throw, FreeLocal, BeginDestroy, In, memory, Gates
    <2>2. Collect(r) \/ FreeLocal(r) => y.phase = x.phase
      BY <1>1 DEF Collect, FreeLocal, Goto, Position
    <2>3. BeginDestroy(r) => y.phase = "unmap"
      BY <1>1 DEF BeginDestroy, Goto, Position
    <2>4. Collected(r) => Goto(r, Move(x, 1, x.sample, "destroy"))
      BY GotoMoves, Zenon DEF Collected
    <2>5. Throw(r) => Goto(r, Move(x, 1, 0, "destroy"))
      BY GotoMoves, Zenon DEF Throw
    <2>6. y.phase # "bcast"
      BY <1>1, <1>9, <2>1, <2>2, <2>3, <2>4, <2>5 DEF Goto, Move
    <2>7. QED
      BY <2>1, <2>6 DEF AddedInv
  <1>10. QED
    BY <1>3, <1>4, <1>5, <1>6, <1>7, <1>8, <1>9 DEF Step

\* A call that a rank has entered is on the path up to where the rank is.
LEMMA Joins ==
  ASSUME LocalInv, NEW N, NEW H, NEW g, Path(plan, N, H), Walking(N, H, g),
         NEW r \in Ranks, NEW q \in Ranks, at[r].phase \in Fresh, Joined(q, r)
  PROVE  g[r] <= g[q]
  <1>1. /\ H[g[r]] = Loc(r) /\ H[g[q]] = Loc(q)
        /\ g[r] \in 1 .. N /\ g[q] \in 1 .. N /\ N \in Nat
    BY DEF Walking, Path
  <1>2. H[g[r]].at.phase \in Fresh /\ H[g[r]].calls = calls[r] /\ H[g[q]].calls = calls[q]
    BY <1>1 DEF Loc
  <1>3. Len(calls[r]) <= Len(calls[q]) /\ Len(calls[r]) \in Nat /\ Len(calls[q]) \in Nat
    BY DEF Joined, LocalInv
  <1>4. g[q] < g[r] => Len(calls[q]) < Len(calls[r])
    BY <1>1, <1>2 DEF Path
  <1>5. QED
    BY <1>1, <1>3, <1>4

\* Who is at a gate has met all others, and passes it as the last one.
LEMMA Meets ==
  ASSUME LocalInv, NEW N, NEW H, NEW g, Path(plan, N, H), Walking(N, H, g),
         NEW r \in Ranks, at[r].phase \in Gates, Meet(r), NEW q \in Ranks
  PROVE  g[r] <= g[q]
  <1>1. at[r].phase \in Fresh
    BY DEF Gates, Fresh
  <1>2. QED
    BY <1>1, Joins DEF Meet

\* The owner of a buffer that was received has exported it.
LEMMA Receives ==
  ASSUME LocalInv, NEW N, NEW H, NEW g, Path(plan, N, H), Walking(N, H, g),
         NEW r \in Ranks, at[r].phase = "bcast", Received(r)
  PROVE  NameAt(at[r]) \in exported
  <1> DEFINE q == BufferAt(plan, at[r]).owner
  <1>1. GoodLocal(plan, Loc(r)) /\ plan \in Plans /\ Loc(r).at = at[r] /\ Loc(r).calls = calls[r]
    BY DEF LocalInv, Loc
  <1>2. GoodPosition(plan, at[r]) /\ Latest(r) = Bcast(q)
    BY <1>1 DEF GoodLocal, Latest
  <1>3. q \in Ranks
    <2>1. /\ at[r].index \in DOMAIN Here(plan, at[r]).buffers
          /\ Here(plan, at[r]).buffers \in Seq(BufferOn(plan))
      BY <1>1, <1>2, HereGood DEF GoodPosition, OnPlan, Fits, GoodRound
    <2>2. BufferAt(plan, at[r]) \in BufferOn(plan)
      BY <2>1 DEF BufferAt
    <2>3. QED
      BY <2>2 DEF BufferOn, RanksOf, Ranks
  <1>4. Joined(q, r)
    BY <1>2 DEF Received, Bcast
  <1>5. g[r] <= g[q]
    BY <1>3, <1>4, Joins DEF Fresh
  <1>6. g[r] \in 1 .. N /\ H[g[r]].at = at[r]
    BY <1>1 DEF Walking
  <1>7. QED
    BY <1>3, <1>5, <1>6 DEF Walking

LEMMA WalkStarts ==
  ASSUME Init
  PROVE  LET s == [at |-> Begin(plan, 1, 1), calls |-> <<>>]
             H == [i \in 1 .. 1 |-> s]
             g == [r \in Ranks |-> 1]
         IN  Path(plan, 1, H) /\ Walking(1, H, g) /\ AddedInv
  <1> DEFINE s == [at |-> Begin(plan, 1, 1), calls |-> <<>>]
             H == [i \in 1 .. 1 |-> s]
             g == [r \in Ranks |-> 1]
  <1>1. LocalInv /\ plan \in Plans
    BY LocalInit DEF LocalInv
  <1>2. \A r \in Ranks : Loc(r) = s
    BY DEF Init, Loc
  <1>3. 0 \in Ranks
    BY <1>1, PlanFacts DEF Ranks, RanksOf
  <1>4. GoodLocal(plan, s) /\ s.at.phase \in {"construct", "done"}
    BY <1>1, <1>2, <1>3 DEF LocalInv, Begin
  <1>5. s.calls = <<>>
    OBVIOUS
  <1> HIDE DEF s
  <1>6. \A i \in 1 .. 1 : H[i] = s /\ i = 1
    OBVIOUS
  <1>7. 1 .. 1 - 1 = {} /\ 1 \in Nat \ {0}
    OBVIOUS
  <1> HIDE DEF H
  <1>8. Path(plan, 1, H)
    <2>1. \A i, j \in 1 .. 1 : ~(i < j) /\ Prefix(H[i].calls, H[j].calls)
      BY <1>5, <1>6 DEF Prefix
    <2>2. \A i \in 1 .. 1 : H[i].at.phase \notin Operating \union {"added"}
      BY <1>4, <1>6 DEF Operating
    <2>3. QED
      BY <1>4, <1>6, <1>7, <2>1, <2>2 DEF Path
  <1>9. Walking(1, H, g)
    <2>1. \A r \in Ranks : g[r] = 1 /\ H[g[r]] = Loc(r)
      BY <1>2, <1>6
    <2>2. \A m \in 1 .. 1 : H[m].at.phase # "bcast"
      BY <1>4, <1>6
    <2>3. QED
      BY <1>6, <2>1, <2>2 DEF Walking
  <1>10. AddedInv
    BY DEF Init, AddedInv
  <1>11. QED
    BY <1>8, <1>9, <1>10 DEF H, s

LEMMA WalkInit == Init => WalkInv
  <1> SUFFICES ASSUME Init PROVE WalkInv
    OBVIOUS
  <1>1. \E N, H, g : Path(plan, N, H) /\ Walking(N, H, g) /\ AddedInv
    BY WalkStarts
  <1>2. QED
    BY <1>1 DEF WalkInv

\* A step of a rank takes it one state further, on the path as it was or one
\* state longer.
LEMMA WalkGrows ==
  ASSUME LocalInv, Together, AddedInv, NEW N, NEW H, NEW g, Path(plan, N, H), Walking(N, H, g),
         NEW r \in Ranks, Step(r)
  PROVE  /\ AddedInv'
         /\ \E M, G, f :
              /\ M \in {N, N + 1} /\ Path(plan, M, G) /\ \A i \in 1 .. N : G[i] = H[i]
              /\ Walking(M, G, f)'
              /\ f[r] = g[r] + 1 /\ \A q \in Ranks \ {r} : f[q] = g[q]
  <1> DEFINE here == g[r]
             w == Following(plan, Loc(r))
  <1>1. /\ plan \in Plans /\ plan' = plan /\ Ranks' = Ranks /\ AddedInv /\ LocalInv'
        /\ at[r].phase # "done" /\ OthersStay(r)
    BY StepWalks, LocalStep DEF LocalInv, Ranks
  <1>2. N \in Nat \ {0} /\ here \in 1 .. N /\ H[here] = Loc(r) /\ Loc(r).at = at[r]
    BY DEF Path, Walking, Loc
  <1>3. Loc(r)' = w /\ at'[r] = w.at
    <2>1. Loc(r)' = w
      BY StepFollows
    <2>2. Loc(r)'.at = at'[r]
      BY DEF Loc
    <2>3. QED
      BY <2>1, <2>2
  <1>4. \E M, G : /\ Path(plan, M, G) /\ M \in {N, N + 1}
                  /\ \A i \in 1 .. N : G[i] = H[i]
                  /\ here + 1 \in 1 .. M /\ G[here + 1] = w
    <2>1. CASE here < N
      <3>1. here \in 1 .. N - 1 /\ here + 1 \in 1 .. N
        BY <1>2, <2>1
      <3>2. H[here + 1] = w
        BY <1>2, <3>1 DEF Path
      <3>3. QED
        BY <1>2, <3>1, <3>2
    <2>2. CASE here = N
      <3>1. H[N].at.phase # "done" /\ H[N] = Loc(r)
        BY <1>1, <1>2, <2>2
      <3>2. PICK G : /\ Path(plan, N + 1, G)
                     /\ \A i \in 1 .. N : G[i] = H[i]
                     /\ G[N + 1] = w
        BY <1>1, <3>1, PathGrows
      <3>3. N <= N + 1 /\ N + 1 \in Nat /\ N + 1 \in 1 .. N + 1
        BY <1>2
      <3>4. QED
        BY <2>2, <3>2, <3>3
    <2>3. QED
      BY <1>2, <2>1, <2>2
  <1> PICK M, G : /\ Path(plan, M, G) /\ M \in {N, N + 1}
                  /\ \A i \in 1 .. N : G[i] = H[i]
                  /\ here + 1 \in 1 .. M /\ G[here + 1] = w
    BY <1>4
  <1> DEFINE f == [g EXCEPT ![r] = here + 1]
  <1> HIDE DEF w
  <1>5. /\ f \in [Ranks -> 1 .. M] /\ f[r] = here + 1
        /\ \A q \in Ranks \ {r} : f[q] = g[q]
        /\ \A q \in Ranks : g[q] \in 1 .. N /\ g[q] <= f[q]
    BY <1>2 DEF Walking
  <1> HIDE DEF f
  <1>6. \A q \in Ranks : G[f[q]] = Loc(q)'
    BY <1>1, <1>3, <1>5 DEF Walking, OthersStay
  <1>7. \A q, o \in Ranks : \A m \in 1 .. M :
          m < f[o] /\ G[m].at.phase \in Gates => m <= f[q]
    <2> SUFFICES ASSUME NEW q \in Ranks, NEW o \in Ranks, NEW m \in 1 .. M,
                        m < f[o], G[m].at.phase \in Gates
                 PROVE  m <= f[q]
      OBVIOUS
    <2>1. m \in 1 .. N /\ G[m] = H[m]
      <3>1. m <= g[o] \/ m <= here
        BY <1>2, <1>5
      <3>2. QED
        BY <1>2, <1>5, <3>1
    <2>2. CASE m < g[o]
      <3>1. m <= g[q]
        BY <2>1, <2>2 DEF Walking
      <3>2. QED
        BY <1>5, <2>1, <3>1
    <2>3. CASE ~(m < g[o])
      <3>1. o = r /\ m = here
        BY <1>2, <1>5, <2>1, <2>3
      <3>2. at[r].phase \in Gates
        BY <1>2, <2>1, <3>1
      <3>3. Meet(r)
        BY <1>1, <3>2, StepShares
      <3>4. here <= g[q]
        BY <3>2, <3>3, Meets
      <3>5. QED
        BY <1>5, <3>1, <3>4
    <2>4. QED
      BY <2>2, <2>3
  <1>8. \A q \in Ranks : \A m \in 1 .. M :
          m <= f[q] /\ G[m].at.phase = "bcast" /\ BufferAt(plan, G[m].at).owner = q =>
            NameAt(G[m].at) \in exported'
    <2> SUFFICES ASSUME NEW q \in Ranks, NEW m \in 1 .. M, m <= f[q],
                        G[m].at.phase = "bcast", BufferAt(plan, G[m].at).owner = q
                 PROVE  NameAt(G[m].at) \in exported'
      OBVIOUS
    <2>1. CASE m <= g[q]
      <3>1. m \in 1 .. N /\ G[m] = H[m]
        BY <1>2, <1>5, <2>1
      <3>2. NameAt(H[m].at) \in exported
        BY <2>1, <3>1 DEF Walking
      <3>3. QED
        BY <1>1, <3>1, <3>2, StepShares
    <2>2. CASE ~(m <= g[q])
      <3>1. q = r /\ m = here + 1
        BY <1>2, <1>5, <2>2
      <3>2. G[m].at = at'[r]
        BY <1>3, <3>1
      <3>3. QED
        BY <1>1, <3>1, <3>2, StepShares
    <2>3. QED
      BY <2>1, <2>2
  <1>9. \A q \in Ranks : \A m \in 1 .. M :
          m < f[q] /\ G[m].at.phase = "bcast" /\ BufferAt(plan, G[m].at).kind = "multicast" =>
            q \in added'[NameAt(G[m].at)]
    <2> SUFFICES ASSUME NEW q \in Ranks, NEW m \in 1 .. M, m < f[q],
                        G[m].at.phase = "bcast", BufferAt(plan, G[m].at).kind = "multicast"
                 PROVE  q \in added'[NameAt(G[m].at)]
      OBVIOUS
    <2>1. CASE m < g[q]
      <3>1. m \in 1 .. N /\ G[m] = H[m]
        BY <1>2, <1>5, <2>1
      <3>2. q \in added[NameAt(H[m].at)]
        BY <2>1, <3>1 DEF Walking
      <3>3. NameAt(H[m].at) \in Buffers(plan)
        BY <1>1, <3>1, NameInBuffers DEF Path, GoodLocal
      <3>4. QED
        BY <1>1, <3>1, <3>2, <3>3, StepShares
    <2>2. CASE ~(m < g[q])
      <3>1. q = r /\ m = here
        BY <1>2, <1>5, <2>2
      <3>2. G[m].at = at[r]
        BY <1>2, <3>1
      <3>3. QED
        BY <1>1, <3>1, <3>2, StepShares
    <2>3. QED
      BY <2>1, <2>2
  <1>10. Walking(M, G, f)'
    BY <1>1, <1>5, <1>6, <1>7, <1>8, <1>9 DEF Walking
  <1>11. AddedInv'
    <2>1. Buffers(plan)' = Buffers(plan)
      BY <1>1 DEF Buffers
    <2>2. QED
      BY <1>1, <2>1, StepShares DEF AddedInv
  <1>12. QED
    BY <1>4, <1>5, <1>10, <1>11

LEMMA WalkStep ==
  ASSUME LocalInv, Together, WalkInv, NEW r \in Ranks, Step(r)
  PROVE  WalkInv'
  <1> PICK N, H, g : Path(plan, N, H) /\ Walking(N, H, g)
    BY DEF WalkInv
  <1>1. AddedInv /\ plan' = plan
    BY StepWalks DEF WalkInv
  <1>2. AddedInv' /\ \E M, G, f : Path(plan, M, G) /\ Walking(M, G, f)'
    BY <1>1, WalkGrows
  <1> PICK M, G, f : Path(plan, M, G) /\ Walking(M, G, f)'
    BY <1>2
  <1>3. Path(plan, M, G)'
    BY <1>1
  <1>4. QED
    BY <1>2, <1>3 DEF WalkInv

-------------------------------------------------------------------------------
(***************************************************************************)
(* 7. The properties.                                                      *)
(***************************************************************************)
LEMMA TogetherStays ==
  ASSUME plan' = plan
  PROVE  Together' <=> Together
  BY DEF Together, Ranks

LEMMA WalkInvariant == Spec => [](LocalInv /\ MappedInv /\ (Together => WalkInv))
  <1>1. LocalInv /\ (Together => WalkInv) /\ [Next]_vars => (Together => WalkInv)'
    <2>1. ASSUME LocalInv, Together => WalkInv, UNCHANGED vars
          PROVE  (Together => WalkInv)'
      <3>1. /\ plan' = plan /\ Ranks' = Ranks /\ exported' = exported /\ added' = added
            /\ \A r : Loc(r)' = Loc(r)
        BY <2>1 DEF vars, Ranks, Loc
      <3>2. SUFFICES ASSUME WalkInv PROVE WalkInv'
        BY <2>1, <3>1, TogetherStays
      <3>3. PICK N, H, g : Path(plan, N, H) /\ Walking(N, H, g)
        BY <3>2 DEF WalkInv
      <3>4. Path(plan, N, H)'
        BY <3>1, <3>3
      <3>5. Walking(N, H, g)'
        BY <3>1, <3>3 DEF Walking
      <3>6. AddedInv'
        BY <3>1, <3>2 DEF WalkInv, AddedInv, Buffers
      <3>7. QED
        BY <3>4, <3>5, <3>6 DEF WalkInv
    <2>2. ASSUME LocalInv, Together => WalkInv, NEW r \in Ranks, Step(r)
          PROVE  (Together => WalkInv)'
      <3>1. Together' <=> Together
        BY <2>2, StepWalks, TogetherStays
      <3>2. QED
        BY <2>2, <3>1, WalkStep
    <2>3. QED
      BY <2>1, <2>2, NextSteps
  <1>2. QED
    BY <1>1, WalkInit, PlacesInvariant, PTL DEF Spec

\* If a round throws on all ranks or on none, all ranks make the same collective
\* calls in the same order, so that no call meets one of another kind: the calls
\* of one are a prefix of those of the other.
THEOREM CallsMatch == Spec => [](Together => CollectivesMatch)
  <1>1. LocalInv /\ WalkInv => CollectivesMatch
    <2> SUFFICES ASSUME LocalInv, WalkInv, NEW r \in Ranks, NEW q \in Ranks,
                        NEW n \in DOMAIN calls[r] \intersect DOMAIN calls[q]
                 PROVE  calls[r][n] = calls[q][n]
      BY DEF CollectivesMatch
    <2> PICK N, H, g : Path(plan, N, H) /\ Walking(N, H, g)
      BY DEF WalkInv
    <2>1. /\ g[r] \in 1 .. N /\ g[q] \in 1 .. N
          /\ H[g[r]].calls = calls[r] /\ H[g[q]].calls = calls[q]
      <3>1. H[g[r]] = Loc(r) /\ H[g[q]] = Loc(q)
        BY DEF Walking
      <3>2. QED
        BY <3>1 DEF Walking, Loc
    <2>2. CASE g[r] <= g[q]
      <3>1. Prefix(calls[r], calls[q])
        BY <2>1, <2>2 DEF Path
      <3>2. QED
        BY <3>1 DEF Prefix
    <2>3. CASE g[q] <= g[r]
      <3>1. Prefix(calls[q], calls[r])
        BY <2>1, <2>3 DEF Path
      <3>2. QED
        BY <3>1 DEF Prefix
    <2>4. QED
      BY <2>1, <2>2, <2>3 DEF Path
  <1>2. QED
    BY <1>1, WalkInvariant, PTL

\* While a rank runs a memcpy operation, every shared buffer of its round and the
\* latch are mapped on all ranks, its local ones on their owners, and the rank
\* that executes a copy has both of its buffers.
THEOREM MemoryOutlives == Spec => [](Together => MemoryOutlivesItsUse)
  <1>1. LocalInv /\ MappedInv /\ WalkInv => MemoryOutlivesItsUse
    <2> SUFFICES ASSUME LocalInv, MappedInv, WalkInv, NEW r \in Ranks, at[r].phase \in Operating
                 PROVE  /\ \A q \in Ranks : <<at[r].test, 1, 1>> \in mapped[q]
                        /\ \A i \in DOMAIN RoundOf(r).buffers, q \in Ranks :
                             IF RoundOf(r).buffers[i].kind = "local"
                             THEN Named(r, i) \in mapped[q] => q = RoundOf(r).buffers[i].owner
                             ELSE Named(r, i) \in mapped[q]
                        /\ \A c \in DOMAIN RoundOf(r).copies :
                             RoundOf(r).executors[c] = r =>
                               \A k \in {1, 2} : Named(r, RoundOf(r).copies[c][k]) \in mapped[r]
      BY DEF MemoryOutlivesItsUse, Operating
    <2> DEFINE x == at[r]
               d == Here(plan, x)
    <2>1. /\ RoundOf(r) = d /\ plan \in Plans /\ GoodPosition(plan, x) /\ x.phase # "done"
          /\ \A i : Named(r, i) = <<x.test, x.round, i>>
      BY DEF RoundOf, Rounds, Here, Named, LocalInv, GoodLocal, Loc, Operating
    <2>2. /\ GoodRound(plan, x.round, d) /\ d.copies # <<>> /\ x.round # 1
          /\ x.test \in Nat /\ x.round \in Nat /\ x.round >= 1 /\ x.test \in DOMAIN plan.keys
      BY <2>1, HereGood DEF GoodRound, GoodPosition, OnPlan, Fits, Position
    <2>3. /\ DOMAIN d.buffers = 1 .. Len(d.buffers) /\ Len(d.buffers) \in Nat
          /\ \E i \in DOMAIN d.buffers : d.buffers[i].kind # "local"
          /\ \A i \in DOMAIN d.buffers : i \in Nat /\ i < Built(plan, x)
      <3>1. d.buffers \in Seq(BufferOn(plan)) /\ \E i \in DOMAIN d.buffers : d.buffers[i].kind # "local"
        BY <2>2 DEF GoodRound
      <3>2. DOMAIN d.buffers = 1 .. Len(d.buffers) /\ Len(d.buffers) \in Nat
        BY <3>1
      <3>3. x.phase \in Operating
        OBVIOUS
      <3>4. Built(plan, x) = Len(d.buffers) + 1
        BY <3>3 DEF Built, Operating
      <3>5. \A i \in DOMAIN d.buffers : i \in Nat /\ i < Built(plan, x)
        BY <3>2, <3>4
      <3>6. QED
        BY <3>1, <3>2, <3>5
    <2>4. ASSUME NEW q \in Ranks
          PROVE  /\ SameRound(x, at[q]) /\ at[q].phase # "done"
                 /\ \A i \in DOMAIN d.buffers :
                      d.buffers[i].kind # "local" => InRound(plan, q, at[q], i)
      <3> DEFINE y == at[q]
      <3> PICK N, H, g : Path(plan, N, H) /\ Walking(N, H, g)
        BY DEF WalkInv
      <3>1. /\ g[r] \in 1 .. N /\ g[q] \in 1 .. N /\ H[g[r]].at = x /\ H[g[q]].at = y
            /\ N \in Nat
        <4>1. H[g[r]] = Loc(r) /\ H[g[q]] = Loc(q)
          BY DEF Walking
        <4>2. QED
          BY <4>1 DEF Walking, Loc, Path
      <3>2. CASE g[r] <= g[q]
        <4>1. Open(H, g[r], g[q])
          <5> SUFFICES ASSUME NEW m \in g[r] + 1 .. g[q] - 1, H[m].at.phase \in Gates PROVE FALSE
            BY DEF Open
          <5>1. m \in 1 .. N /\ m < g[q] /\ ~(m <= g[r])
            BY <3>1
          <5>2. QED
            BY <5>1 DEF Walking
        <4>2. Lagging(plan, x, y)
          BY <3>1, <3>2, <4>1 DEF Path
        <4>3. Here(plan, y) = d /\ SameRound(x, y)
          BY <4>2 DEF Lagging, SameRound, Here
        <4>4. Built(plan, y) = Len(d.buffers) + 1 /\ y.phase # "done"
          BY <4>2, <4>3 DEF Lagging, Built, Operating
        <4>5. y.phase \in {"destroy", "unmap"} =>
                \A m \in DOMAIN d.destroy :
                  m < y.index => d.buffers[d.destroy[m]].kind = "local"
          BY <4>2, <4>3 DEF Lagging, Operating
        <4>6. QED
          BY <2>3, <4>3, <4>4, <4>5 DEF InRound
      <3>3. CASE g[q] < g[r]
        <4>1. Open(H, g[q], g[r])
          <5> SUFFICES ASSUME NEW m \in g[q] + 1 .. g[r] - 1, H[m].at.phase \in Gates PROVE FALSE
            BY DEF Open
          <5>1. m \in 1 .. N /\ m < g[r] /\ ~(m <= g[q])
            BY <3>1
          <5>2. QED
            BY <5>1 DEF Walking
        <4>2. Leading(plan, y, x)
          BY <3>1, <3>3, <4>1 DEF Path, Working
        <4>3. /\ SameRound(y, x) /\ y.phase \in Working \union {"mapped"}
              /\ \A i \in DOMAIN d.buffers :
                   Built(plan, y) <= i => d.buffers[i].kind = "local"
          BY <2>3, <4>2 DEF Leading
        <4>4. Here(plan, y) = d /\ y.phase \notin {"done", "destroy", "unmap"}
          BY <4>3 DEF SameRound, Here, Working, Operating
        <4>5. Built(plan, y) \in Nat
          BY <2>3, <4>4, SMTT(30) DEF Built, LocalInv, Position
        <4>6. QED
          BY <2>3, <4>3, <4>4, <4>5 DEF InRound, SameRound
      <3>4. QED
        BY <3>1, <3>2, <3>3
    <2>5. \A q \in Ranks : <<x.test, 1, 1>> \in mapped[q]
      <3> TAKE q \in Ranks
      <3>1. Latched(plan, at[q], x.test, 1, 1)
        BY <2>2, <2>4 DEF Latched, SameRound
      <3>2. QED
        BY <2>2, <3>1 DEF MappedInv, HeldAt, Holds
    <2>6. ASSUME NEW i \in DOMAIN d.buffers, NEW q \in Ranks
          PROVE  IF d.buffers[i].kind = "local"
                 THEN <<x.test, x.round, i>> \in mapped[q] => q = d.buffers[i].owner
                 ELSE <<x.test, x.round, i>> \in mapped[q]
      <3>1. SameRound(x, at[q]) /\ Here(plan, at[q]) = d /\ at[q].phase # "done"
        BY <2>4 DEF SameRound, Here
      <3>2. <<x.test, x.round, i>> \in mapped[q] <=> InRound(plan, q, at[q], i)
        <4>1. <<x.test, x.round, i>> \in mapped[q] <=> Holds(plan, q, at[q], x.test, x.round, i)
          BY <2>2, <2>3 DEF MappedInv, HeldAt
        <4>2. ~Latched(plan, at[q], x.test, x.round, i)
          BY <2>2 DEF Latched
        <4>3. QED
          BY <3>1, <4>1, <4>2 DEF Holds, SameRound
      <3>3. CASE d.buffers[i].kind = "local"
        BY <3>1, <3>2, <3>3 DEF InRound
      <3>4. CASE d.buffers[i].kind # "local"
        BY <2>4, <3>2, <3>4
      <3>5. QED
        BY <3>3, <3>4
    <2>7. ASSUME NEW c \in DOMAIN d.copies, d.executors[c] = r, NEW k \in {1, 2}
          PROVE  <<x.test, x.round, d.copies[c][k]>> \in mapped[r]
      <3> DEFINE i == d.copies[c][k]
      <3>1. /\ i \in DOMAIN d.buffers
            /\ d.buffers[i].kind = "local" => d.buffers[i].owner = r
        BY <2>2, <2>7 DEF GoodRound
      <3>2. InRound(plan, r, x, i)
        BY <2>3, <3>1 DEF InRound, Operating
      <3>3. Holds(plan, r, x, x.test, x.round, i)
        BY <2>1, <3>2 DEF Holds
      <3>4. QED
        BY <2>2, <2>3, <3>1, <3>3 DEF MappedInv, HeldAt
    <2>8. QED
      BY <2>1, <2>5, <2>6, <2>7
  <1>2. QED
    BY <1>1, WalkInvariant, PTL

LEMMA HeldInBuffers ==
  ASSUME NEW p \in Plans, NEW r, NEW x, GoodPosition(p, x),
         NEW held, HeldAt(p, r, x, held), NEW b \in held
  PROVE  b \in Buffers(p)
  <1>1. PICK t, k, i \in Nat : b = <<t, k, i>>
    BY DEF HeldAt, Triples
  <1>2. Holds(p, r, x, t, k, i)
    BY <1>1 DEF HeldAt
  <1>3. DOMAIN Table[p] = DOMAIN p.keys
    BY DEF Table
  <1>4. CASE Latched(p, x, t, k, i)
    <2>1. t \in DOMAIN p.keys /\ k = 1 /\ i = 1
      BY <1>4 DEF Latched
    <2>2. 1 \in DOMAIN Table[p][t] /\ GoodRound(p, 1, Table[p][t][1])
      BY <2>1, RoundsGood
    <2>3. 1 \in DOMAIN Table[p][t][1].buffers
      <3>1. Table[p][t][1].buffers = <<Unicast(0)>>
        BY <2>2 DEF GoodRound
      <3>2. QED
        BY <3>1
    <2>4. QED
      BY <1>1, <1>3, <2>1, <2>2, <2>3 DEF Buffers
  <1>5. CASE x.phase # "done" /\ t = x.test /\ k = x.round /\ InRound(p, r, x, i)
    <2>1. /\ t \in DOMAIN p.keys /\ k \in DOMAIN Table[p][t]
          /\ i \in DOMAIN Table[p][t][k].buffers
      BY <1>5 DEF GoodPosition, OnPlan, InRound, Here
    <2>2. QED
      BY <1>1, <1>3, <2>1 DEF Buffers
  <1>6. QED
    BY <1>2, <1>4, <1>5 DEF Holds

ReadyIn(b) ==
  /\ BufferNamed(b).kind # "local" => b \in exported
  /\ BufferNamed(b).kind = "multicast" => added[b] = Ranks

LEMMA NameIsBuffer ==
  ASSUME NEW x
  PROVE  BufferNamed(NameAt(x)) = BufferAt(plan, x)
  BY DEF BufferNamed, NameAt, BufferAt, Here, Rounds

\* What a rank is about to map: the buffer it stands at, exported by its owner
\* and, if it is a multicast object, with the device of every rank.
LEMMA ReadyToMap ==
  ASSUME LocalInv, WalkInv, NEW r \in Ranks, Step(r), Adding(plan, r, at[r], at'[r])
  PROVE  ReadyIn(NameAt(at[r]))
  <1> DEFINE x == at[r]
             b == NameAt(x)
  <1> PICK N, H, g : Path(plan, N, H) /\ Walking(N, H, g)
    BY DEF WalkInv
  <1>1. /\ plan \in Plans /\ GoodPosition(plan, x) /\ BufferNamed(b) = BufferAt(plan, x)
        /\ Loc(r).at = x
    BY NameIsBuffer DEF LocalInv, GoodLocal, Loc
  <1>2. CASE x.phase = "construct"
    <2>1. BufferAt(plan, x).kind = "local"
      BY <1>2 DEF Adding
    <2>2. QED
      BY <1>1, <2>1 DEF ReadyIn
  <1>3. CASE x.phase = "bcast"
    <2>1. at'[r].phase = "mapped"
      BY <1>3 DEF Adding
    <2>2. at'[r] = After(plan, Loc(r), Throws(r)).at
      <3>1. Loc(r)' = After(plan, Loc(r), Throws(r))
        BY StepWalks
      <3>2. QED
        BY <3>1 DEF Loc
    <2>3. BufferAt(plan, x).kind = "unicast"
      <3>1. After(plan, Loc(r), Throws(r)) = AfterBcast(plan, Loc(r))
        BY <1>1, <1>3, AfterPhase
      <3>2. QED
        BY <1>1, <2>1, <2>2, <3>1 DEF AfterBcast, Calling, Move
    <2>4. b \in exported
      BY <1>3, Receives, StepShares DEF WalkInv
    <2>5. QED
      BY <1>1, <2>3, <2>4 DEF ReadyIn
  <1>4. CASE x.phase = "added"
    <2> DEFINE m == g[r] - 1
               z == H[m].at
    <2>1. g[r] \in 1 .. N /\ N \in Nat /\ H[g[r]].at = x /\ \A q \in Ranks : g[q] \in Int
      <3>1. H[g[r]] = Loc(r)
        BY DEF Walking
      <3>2. QED
        BY <1>1, <3>1 DEF Walking, Path
    <2>2. m \in 1 .. N /\ z.phase = "bcast" /\ NameAt(z) = b
      BY <1>4, <2>1 DEF Path
    <2>3. BufferAt(plan, z) = BufferAt(plan, x)
      BY <2>2 DEF NameAt, BufferAt, Here
    <2>4. \A q \in Ranks : m < g[q] /\ m <= g[q]
      <3> TAKE q \in Ranks
      <3>1. g[r] <= g[q]
        BY <1>4, Meets, StepShares DEF WalkInv, Gates
      <3>2. QED
        BY <2>1, <3>1
    <2>5. /\ BufferAt(plan, x).kind = "multicast" /\ BufferAt(plan, x).owner \in Ranks
      <3>1. /\ x.index \in DOMAIN Here(plan, x).buffers
            /\ Here(plan, x).buffers[x.index].kind = "multicast"
            /\ Here(plan, x).buffers \in Seq(BufferOn(plan))
        BY <1>1, <1>4, HereGood DEF GoodPosition, OnPlan, Fits, GoodRound
      <3>2. BufferAt(plan, x) \in BufferOn(plan)
        BY <3>1 DEF BufferAt
      <3>3. QED
        BY <3>1, <3>2 DEF BufferAt, BufferOn, RanksOf, Ranks
    <2>6. b \in exported
      BY <2>2, <2>3, <2>4, <2>5 DEF Walking
    <2>7. \A q \in Ranks : q \in added[b]
      BY <2>2, <2>3, <2>4, <2>5 DEF Walking
    <2>8. added[b] \subseteq Ranks
      BY <1>1, <1>4, NameInBuffers DEF WalkInv, AddedInv
    <2>9. QED
      BY <1>1, <2>6, <2>7, <2>8 DEF ReadyIn
  <1>5. QED
    BY <1>2, <1>3, <1>4 DEF Adding

LEMMA MapsReadyStep ==
  ASSUME LocalInv, MappedInv, WalkInv, MapsWhatIsReady, NEW r \in Ranks, Step(r)
  PROVE  MapsWhatIsReady'
  <1> DEFINE x == at[r]
  <1>1. /\ plan \in Plans /\ plan' = plan /\ Ranks' = Ranks /\ AddedInv /\ MappedInv' /\ LocalInv'
    BY StepWalks, LocalStep, MappedStep DEF LocalInv, WalkInv
  <1>2. \A b : BufferNamed(b)' = BufferNamed(b)
    BY <1>1 DEF BufferNamed, Rounds
  <1>3. ASSUME NEW b \in Buffers(plan), ReadyIn(b)
        PROVE  ReadyIn(b)'
    <2>1. b \in exported => b \in exported'
      BY <1>1, StepShares
    <2>2. added[b] \subseteq added'[b] /\ added'[b] \subseteq Ranks
      BY <1>1, StepShares
    <2>3. QED
      BY <1>1, <1>2, <1>3, <2>1, <2>2 DEF ReadyIn
  <1>4. ASSUME NEW q \in Ranks, NEW b \in mapped'[q]
        PROVE  b \in Buffers(plan)
    <2>1. HeldAt(plan, q, at'[q], mapped'[q])
      BY <1>1 DEF MappedInv
    <2>2. GoodPosition(plan, at'[q])
      BY <1>1 DEF LocalInv, GoodLocal, Loc
    <2>3. QED
      BY <1>1, <2>1, <2>2, HeldInBuffers
  <1>5. ASSUME NEW q \in Ranks, NEW b \in mapped'[q]
        PROVE  b \in mapped[q] \/ (b = NameAt(x) /\ Adding(plan, r, x, at'[r]))
    BY StepMaps DEF Change
  <1>6. ASSUME NEW q \in Ranks, NEW b \in mapped'[q]
        PROVE  ReadyIn(b)
    <2>1. b \in mapped[q] => ReadyIn(b)
      BY DEF MapsWhatIsReady, ReadyIn
    <2>2. QED
      BY <1>5, <1>6, <2>1, ReadyToMap
  <1>7. \A q \in Ranks : \A b \in mapped'[q] : ReadyIn(b)'
    BY <1>3, <1>4, <1>6
  <1>8. QED
    BY <1>1, <1>7 DEF MapsWhatIsReady, ReadyIn

\* Whatever a rank has mapped, its owner has exported; and a multicast object is
\* bound to memory only with the device of every rank added to it.
THEOREM MapsReady == Spec => [](Together => MapsWhatIsReady)
  <1>1. Init => MapsWhatIsReady
    BY DEF Init, MapsWhatIsReady
  <1>2. /\ LocalInv /\ MappedInv /\ (Together => WalkInv)
        /\ (Together => MapsWhatIsReady) /\ [Next]_vars
        => (Together => MapsWhatIsReady)'
    <2>1. ASSUME MapsWhatIsReady, UNCHANGED vars PROVE MapsWhatIsReady'
      BY <2>1 DEF vars, MapsWhatIsReady, BufferNamed, Rounds, Ranks
    <2>2. ASSUME LocalInv, MappedInv, Together => WalkInv, Together => MapsWhatIsReady,
                 NEW r \in Ranks, Step(r)
          PROVE  (Together => MapsWhatIsReady)'
      <3>1. Together' <=> Together
        BY <2>2, StepWalks, TogetherStays
      <3>2. QED
        BY <2>2, <3>1, MapsReadyStep
    <2>3. UNCHANGED vars => (Together' <=> Together)
      BY TogetherStays DEF vars
    <2>4. QED
      BY <2>1, <2>2, <2>3, NextSteps
  <1>3. QED
    BY <1>1, <1>2, WalkInvariant, PTL DEF Spec
-------------------------------------------------------------------------------
(***************************************************************************)
(* 8. What the collective calls after a round bring to all ranks.          *)
(***************************************************************************)
\* The copies whose bandwidth each of the calls returns.
Values(d) ==
  [i \in DOMAIN d.after |-> IF d.after[i].op = "allreduce" THEN DOMAIN d.copies ELSE {i}]

\* Calls that ask the ranks that executed the copies.
GoodAfter(p, d) ==
  /\ \E n \in Nat \ {0} : DOMAIN d.copies = 1 .. n /\ d.executors \in [1 .. n -> RanksOf(p)]
  /\ \A i \in DOMAIN d.after :
       \/ d.after[i] = Allreduce
       \/ i \in DOMAIN d.copies /\ d.after[i] = Bcast(d.executors[i])

\* What rank r contributes to call i.
Own(d, r) == {c \in DOMAIN d.copies : d.executors[c] = r}
Place(S, i) == Cardinality({c \in S : c <= i})
Gives(d, r, i) ==
  IF d.copies = <<>> THEN {}
  ELSE IF d.after[i].op = "allreduce" THEN Own(d, r)
  ELSE IF d.after[i].root = r THEN {c \in Own(d, r) : Place(Own(d, r), c) = Place(Own(d, r), i)}
  ELSE {}

LEMMA ContributionGives ==
  ASSUME NEW r, NEW i
  PROVE  Contribution(r, i) = Gives(Here(plan, at[r]), r, i)
  <1>1. RoundOf(r) = Here(plan, at[r])
    BY DEF RoundOf, Rounds, Here
  <1>2. Executed(r) = Own(Here(plan, at[r]), r)
    BY <1>1 DEF Executed, Own
  <1>3. \A c : Turn(r, c) = Place(Own(Here(plan, at[r]), r), c)
    BY <1>2 DEF Turn, Place
  <1>4. SendsNext(r, i)
          = {c \in Own(Here(plan, at[r]), r) :
               Place(Own(Here(plan, at[r]), r), c) = Place(Own(Here(plan, at[r]), r), i)}
    BY <1>2, <1>3 DEF SendsNext
  <1>5. QED
    BY <1>1, <1>2, <1>4, Zenon DEF Contribution, Measures, Gives

\* Elements of a set of numbers have different places in it.
LEMMA PlacesDiffer ==
  ASSUME NEW n \in Nat, NEW S \in SUBSET (1 .. n), NEW c \in S, NEW e \in S,
         Place(S, c) = Place(S, e)
  PROVE  c = e
  <1>1. ASSUME NEW a \in S, NEW b \in S, a < b, Place(S, a) = Place(S, b)
        PROVE  FALSE
    <2> DEFINE A == {x \in S : x <= a}
               B == {x \in S : x <= b}
    <2>1. a \in Nat /\ b \in Nat /\ \A x \in S : x \in Nat
      OBVIOUS
    <2>2. A \subseteq B /\ b \in B /\ b \notin A
      <3>1. b <= b /\ ~(b <= a) /\ \A x \in S : x <= a => x <= b
        BY <1>1, <2>1
      <3>2. QED
        BY <3>1
    <2>3. IsFiniteSet(B)
      <3>1. IsFiniteSet(1 .. n)
        BY FS_Interval
      <3>2. B \subseteq 1 .. n
        OBVIOUS
      <3>3. QED
        BY <3>1, <3>2, FS_Subset
    <2>4. Cardinality(A) = Cardinality(B)
      BY <1>1 DEF Place
    <2>5. QED
      BY <2>2, <2>3, <2>4, FS_Subset
  <1>2. c \in Nat /\ e \in Nat
    OBVIOUS
  <1>3. ~(c < e) /\ ~(e < c)
    BY <1>1
  <1>4. QED
    BY <1>2, <1>3

\* A broadcast brings its own copy to all ranks, and a reduction all of them.
LEMMA GivesValues ==
  ASSUME NEW p, NEW d, GoodAfter(p, d), NEW i \in DOMAIN d.after
  PROVE  /\ d.after[i].op \in {"bcast", "allreduce"}
         /\ d.after[i].op = "bcast" =>
              /\ d.after[i].root \in RanksOf(p)
              /\ Gives(d, d.after[i].root, i) = Values(d)[i]
         /\ d.after[i].op = "allreduce" =>
              UNION {Gives(d, q, i) : q \in RanksOf(p)} = Values(d)[i]
  <1> PICK n \in Nat \ {0} : DOMAIN d.copies = 1 .. n /\ d.executors \in [1 .. n -> RanksOf(p)]
    BY DEF GoodAfter
  <1>1. d.copies # <<>>
    OBVIOUS
  <1>2. CASE d.after[i] = Allreduce
    <2>1. d.after[i].op = "allreduce" /\ Values(d)[i] = 1 .. n
      BY <1>2 DEF Allreduce, Values
    <2>2. \A q : Gives(d, q, i) = {c \in 1 .. n : d.executors[c] = q}
      BY <1>1, <2>1 DEF Gives, Own
    <2>3. UNION {Gives(d, q, i) : q \in RanksOf(p)} = 1 .. n
      BY <2>2
    <2>4. QED
      BY <2>1, <2>3
  <1>3. CASE i \in DOMAIN d.copies /\ d.after[i] = Bcast(d.executors[i])
    <2> DEFINE r == d.executors[i]
    <2>1. /\ d.after[i].op = "bcast" /\ d.after[i].root = r /\ r \in RanksOf(p)
          /\ Values(d)[i] = {i}
      BY <1>3 DEF Bcast, Values
    <2>2. Own(d, r) \in SUBSET (1 .. n) /\ i \in Own(d, r)
      BY <1>3 DEF Own
    <2>3. Gives(d, r, i) = {c \in Own(d, r) : Place(Own(d, r), c) = Place(Own(d, r), i)}
      BY <1>1, <2>1 DEF Gives
    <2> HIDE DEF r
    <2>4. \A c \in Own(d, r) : Place(Own(d, r), c) = Place(Own(d, r), i) => c = i
      BY <2>2, PlacesDiffer
    <2>5. Gives(d, r, i) = {i}
      BY <2>2, <2>3, <2>4
    <2>6. QED
      BY <2>1, <2>5
  <1>4. QED
    BY <1>2, <1>3 DEF GoodAfter

\* The round after the helper's is the one of the first shape, and so on.
LEMMA RoundIs ==
  ASSUME NEW p \in Plans, NEW t \in DOMAIN p.keys, NEW k \in DOMAIN Table[p][t], k # 1
  PROVE  /\ p.keys[t] \in DOMAIN Runs /\ k \in Nat /\ k - 1 \in DOMAIN Shapes(p, p.keys[t])
         /\ Table[p][t][k] = MeasuredRound(p, p.keys[t], Shapes(p, p.keys[t])[k - 1])
  <1> DEFINE key == p.keys[t]
             shapes == Shapes(p, key)
             measured == [i \in DOMAIN shapes |-> MeasuredRound(p, key, shapes[i])]
             helper == HelperRound(p, t)
  <1>1. key \in DOMAIN Runs
    <2>1. p.keys \in Seq(DOMAIN Runs)
      BY PlanFacts
    <2>2. QED
      BY <2>1
  <1>2. PICK m \in Nat : DOMAIN shapes = 1 .. m
    BY <1>1, PlanFacts, ShapesCounted
  <1>3. Table[p][t] = <<helper>> \o measured
    BY DEF Table, RoundsOf
  <1>4. measured \in Seq({measured[i] : i \in 1 .. m}) /\ Len(measured) = m
    BY <1>2
  <1> HIDE DEF helper
  <1>5. DOMAIN measured = 1 .. m /\ \A i \in 1 .. m : measured[i] = MeasuredRound(p, key, shapes[i])
    BY <1>2
  <1> HIDE DEF measured, shapes
  <1>6. /\ DOMAIN Table[p][t] = 1 .. m + 1
        /\ \A i \in 1 .. m : Table[p][t][i + 1] = measured[i]
    BY <1>3, <1>4
  <1>7. k \in Nat /\ k - 1 \in 1 .. m /\ k - 1 + 1 = k
    BY <1>6
  <1>8. Table[p][t][k] = MeasuredRound(p, key, shapes[k - 1])
    BY <1>5, <1>6, <1>7
  <1>9. QED
    BY <1>1, <1>2, <1>7, <1>8 DEF shapes

LEMMA AfterOfRound ==
  ASSUME NEW p \in Plans, NEW t \in DOMAIN p.keys, NEW k \in DOMAIN Table[p][t], k # 1
  PROVE  GoodAfter(p, Table[p][t][k])
  <1> DEFINE key == p.keys[t]
             s == Shapes(p, key)[k - 1]
             x == Executors(key, s)
             d == MeasuredRound(p, key, s)
  <1>1. key \in DOMAIN Runs /\ k - 1 \in DOMAIN Shapes(p, key) /\ Table[p][t][k] = d
    BY RoundIs
  <1>2. GoodShape(p, Runs[key].prefer, s)
    BY <1>1, PlanFacts, ShapesGood
  <1>3. d.copies = s.copies /\ d.executors = x /\ d.after = Results(key, x)
    BY DEF MeasuredRound, Round
  <1>4. PICK n \in Nat : DOMAIN s.copies = 1 .. n
    BY <1>2 DEF GoodShape
  <1>5. n \in Nat \ {0}
    <2>1. 1 \in DOMAIN s.copies
      BY <1>2 DEF GoodShape
    <2>2. QED
      BY <1>4, <2>1
  <1>6. x \in [1 .. n -> RanksOf(p)]
    <2>1. \A c \in 1 .. n : x[c] = s.buffers[Preferred(Runs[key].prefer, s.copies[c])].owner
      BY <1>1, <1>4, RunTable DEF Executors, Executor, Preferred
    <2>2. \A c \in 1 .. n : x[c] \in RanksOf(p)
      <3> TAKE c \in 1 .. n
      <3>1. Preferred(Runs[key].prefer, s.copies[c]) \in DOMAIN s.buffers
        BY <1>2, <1>4 DEF GoodShape, Preferred
      <3>2. s.buffers[Preferred(Runs[key].prefer, s.copies[c])] \in BufferOn(p)
        <4>1. s.buffers \in Seq(BufferOn(p))
          BY <1>2 DEF GoodShape
        <4>2. QED
          BY <3>1, <4>1
      <3>3. QED
        BY <2>1, <3>2 DEF BufferOn
    <2>3. QED
      BY <1>4, <2>2 DEF Executors
  <1> HIDE DEF x
  <1>7. \A i \in DOMAIN d.after :
          d.after[i] = Allreduce \/ (i \in DOMAIN d.copies /\ d.after[i] = Bcast(d.executors[i]))
    <2>1. CASE Runs[key].value = "FIRST"
      <3>1. d.after = <<Bcast(x[1])>> /\ 1 \in 1 .. n
        BY <1>3, <1>5, <2>1 DEF Results
      <3>2. QED
        BY <1>3, <1>4, <3>1, SMTT(30)
    <2>2. CASE Runs[key].value = "SUM"
      <3>1. d.after = <<Allreduce>>
        BY <1>3, <2>2 DEF Results
      <3>2. QED
        BY <3>1
    <2>3. CASE Runs[key].value = "VECTOR"
      <3>1. d.after = [i \in 1 .. n |-> Bcast(x[i])]
        BY <1>3, <1>6, <2>3 DEF Results
      <3>2. QED
        BY <1>3, <1>4, <3>1
    <2>4. QED
      BY <1>1, <2>1, <2>2, <2>3, RunTable
  <1> HIDE DEF d
  <1>8. GoodAfter(p, d)
    BY <1>3, <1>4, <1>5, <1>6, <1>7 DEF GoodAfter
  <1>9. QED
    BY <1>1, <1>8

-------------------------------------------------------------------------------
(***************************************************************************)
(* 9. What a rank has sent with each call, and from whom it has heard.     *)
(***************************************************************************)
SentInv ==
  /\ sent \in [Ranks -> Seq(SUBSET Nat)]
  /\ \A r \in Ranks : Len(sent[r]) = Len(calls[r])

\* A rank that enters one of the calls that collect the results.
Asking(p, x) == x.phase = "collect" /\ x.index <= Len(Here(p, x).after)

LEMMA GivesNumbers ==
  ASSUME NEW p, NEW d, d.copies = <<>> \/ GoodAfter(p, d), NEW r, NEW i
  PROVE  Gives(d, r, i) \in SUBSET Nat
  <1>1. CASE d.copies = <<>>
    BY <1>1 DEF Gives
  <1>2. CASE d.copies # <<>>
    <2> PICK n \in Nat \ {0} : DOMAIN d.copies = 1 .. n
      BY <1>2 DEF GoodAfter
    <2>1. Own(d, r) \subseteq Nat
      BY DEF Own
    <2> HIDE DEF Own
    <2>2. QED
      BY <2>1 DEF Gives
  <1>3. QED
    BY <1>1, <1>2

LEMMA HereAfter ==
  ASSUME NEW p \in Plans, NEW x, GoodPosition(p, x), x.phase # "done"
  PROVE  Here(p, x).copies = <<>> \/ GoodAfter(p, Here(p, x))
  <1>1. x.test \in DOMAIN p.keys /\ x.round \in DOMAIN Table[p][x.test]
    BY DEF GoodPosition, OnPlan
  <1>2. CASE x.round = 1
    BY <1>2, HereGood DEF GoodRound
  <1>3. CASE x.round # 1
    BY <1>1, <1>3, AfterOfRound DEF Here
  <1>4. QED
    BY <1>2, <1>3

\* What a step leaves of what was sent.
Adds(r) ==
  /\ SentInv'
  /\ \A q \in Ranks \ {r} : sent'[q] = sent[q]
  /\ Len(sent[r]) <= Len(sent'[r])
  /\ \A n \in 1 .. Len(sent[r]) : sent'[r][n] = sent[r][n]

LEMMA EnteringAdds ==
  ASSUME LocalInv, SentInv, NEW r \in Ranks, NEW call, NEW data \in SUBSET Nat,
         plan' = plan, EnterWith(r, call, data)
  PROVE  Adds(r) /\ sent'[r] = Append(sent[r], data)
  <1>1. /\ calls' = [calls EXCEPT ![r] = Append(calls[r], call)]
        /\ sent' = [sent EXCEPT ![r] = Append(sent[r], data)]
        /\ Ranks' = Ranks
    BY DEF EnterWith, Ranks
  <1>2. /\ sent[r] \in Seq(SUBSET Nat) /\ calls[r] \in Seq(CallsOn(plan))
        /\ Len(sent[r]) = Len(calls[r])
    BY DEF SentInv, LocalInv
  <1>3. /\ sent'[r] = Append(sent[r], data) /\ calls'[r] = Append(calls[r], call)
        /\ \A q \in Ranks \ {r} : sent'[q] = sent[q] /\ calls'[q] = calls[q]
    BY <1>1 DEF SentInv, LocalInv
  <1>4. /\ Append(sent[r], data) \in Seq(SUBSET Nat)
        /\ Len(Append(sent[r], data)) = Len(sent[r]) + 1
        /\ \A n \in 1 .. Len(sent[r]) : Append(sent[r], data)[n] = sent[r][n]
        /\ Len(Append(calls[r], call)) = Len(calls[r]) + 1
    BY <1>2
  <1>5. sent' \in [Ranks -> Seq(SUBSET Nat)]
    BY <1>1, <1>4 DEF SentInv
  <1>6. \A q \in Ranks : Len(sent'[q]) = Len(calls'[q])
    BY <1>2, <1>3, <1>4 DEF SentInv
  <1>7. SentInv'
    BY <1>1, <1>5, <1>6 DEF SentInv
  <1>8. Len(sent[r]) <= Len(sent'[r])
    BY <1>2, <1>3, <1>4
  <1>9. QED
    BY <1>3, <1>4, <1>7, <1>8 DEF Adds

LEMMA QuietAdds ==
  ASSUME LocalInv, SentInv, NEW r \in Ranks, plan' = plan, calls' = calls, sent' = sent
  PROVE  Adds(r)
  <1>1. sent[r] \in Seq(SUBSET Nat)
    BY DEF SentInv
  <1>2. Len(sent[r]) <= Len(sent[r])
    BY <1>1
  <1>3. QED
    BY <1>2 DEF Adds, SentInv, Ranks

\* A rank sends with the call of a result what it has of it, and goes on when
\* the call before it has returned.
LEMMA StepSends ==
  ASSUME LocalInv, SentInv, NEW r \in Ranks, Step(r)
  PROVE  /\ Adds(r)
         /\ Asking(plan, at[r]) =>
              sent'[r] = Append(sent[r], Gives(Here(plan, at[r]), r, at[r].index))
         /\ at[r].phase = "collect" /\ at[r].index > 1 => Returned(r)
  <1> DEFINE x == at[r]
             here == Here(plan, x)
  <1>1. plan' = plan /\ x.phase # "done" /\ RoundOf(r) = here
    BY StepWalks DEF RoundOf, Rounds, Here
  <1>2. GoodPosition(plan, x) /\ plan \in Plans
    BY DEF LocalInv, GoodLocal, Loc
  <1>3. x.index \in Nat /\ Len(here.after) \in Nat
    BY <1>1, <1>2, HereGood, SMTT(30) DEF GoodRound, GoodPosition, Position
  <1>4. CASE Collect(r)
    <2>1. Gives(here, r, x.index) \in SUBSET Nat
      BY <1>1, <1>2, HereAfter, GivesNumbers
    <2>2. EnterWith(r, RoundOf(r).after[x.index], Gives(here, r, x.index))
      BY <1>4, ContributionGives DEF Collect
    <2>3. Adds(r) /\ sent'[r] = Append(sent[r], Gives(here, r, x.index))
      BY <1>1, <2>1, <2>2, EnteringAdds
    <2>4. x.phase = "collect" /\ x.index > 1 => Returned(r)
      BY <1>4 DEF Collect, Collecting
    <2>5. QED
      BY <2>3, <2>4
  <1>5. CASE Collected(r)
    <2>1. calls' = calls /\ sent' = sent /\ (x.index > 1 => Returned(r))
      BY <1>5 DEF Collected, Collecting
    <2>2. x.index > Len(here.after)
      BY <1>1, <1>5 DEF Collected
    <2>3. QED
      BY <1>1, <1>3, <2>1, <2>2, QuietAdds DEF Asking
  <1>6. CASE \/ Construct(r) \/ ImportUnicast(r) \/ AddDevice(r) \/ BindMemory(r)
             \/ BeginOperation(r) \/ FinishCopies(r) \/ NextSample(r) \/ BeginDestroy(r)
    <2>1. x.phase # "collect"
      BY <1>6 DEF Construct, Constructing, ImportUnicast, AddDevice, BindMemory,
                  BeginOperation, FinishCopies, NextSample, BeginDestroy, In
    <2>2. \E call : EnterWith(r, call, {})
      BY <1>6 DEF Construct, ImportUnicast, AddDevice, BindMemory, Map, BeginOperation,
                  FinishCopies, NextSample, BeginDestroy, EnterDestructor, Enter
    <2>3. {} \in SUBSET Nat
      OBVIOUS
    <2>4. Adds(r)
      BY <1>1, <2>2, <2>3, EnteringAdds
    <2>5. QED
      BY <2>1, <2>4 DEF Asking
  <1>7. CASE \/ AllocateLocal(r) \/ Constructed(r) \/ HelperBuilt(r) \/ StartSample(r)
             \/ EndSample(r) \/ EndOperation(r) \/ Throw(r) \/ FreeLocal(r) \/ Unmap(r)
             \/ EndRound(r)
    <2>1. x.phase # "collect"
      BY <1>7 DEF AllocateLocal, Constructing, Constructed, HelperBuilt, StartSample, EndSample,
                  EndOperation, Throw, FreeLocal, Unmap, EndRound, In
    <2>2. calls' = calls /\ sent' = sent
      BY <1>7 DEF AllocateLocal, Constructed, HelperBuilt, StartSample, EndSample,
                  EndOperation, Throw, FreeLocal, Unmap, EndRound
    <2>3. QED
      BY <1>1, <2>1, <2>2, QuietAdds DEF Asking
  <1>8. QED
    BY <1>4, <1>5, <1>6, <1>7 DEF Step

\* A rank takes the values of the calls of a round for its cell, and nothing else.
Taking(p, x) ==
  x.phase = "collect" /\ ~(x.index <= Len(Here(p, x).after)) /\ Here(p, x).copies # <<>>

Taken(r) ==
  LET here == Here(plan, at[r])
  IN  [test |-> at[r].test, round |-> at[r].round,
       values |-> [i \in DOMAIN here.after |-> Value(r, (Len(calls[r]) - Len(here.after)) + i)]]

LEMMA StepTakes ==
  ASSUME LocalInv, NEW r \in Ranks, Step(r)
  PROVE  cells' = IF Taking(plan, at[r]) THEN [cells EXCEPT ![r] = Append(@, Taken(r))] ELSE cells
  <1> DEFINE x == at[r]
             here == Here(plan, x)
  <1>1. RoundOf(r) = here /\ x.phase # "done"
    BY StepWalks DEF RoundOf, Rounds, Here
  <1>2. x.index \in Nat /\ Len(here.after) \in Nat
    <2>1. GoodPosition(plan, x) /\ plan \in Plans
      BY DEF LocalInv, GoodLocal, Loc
    <2>2. QED
      BY <1>1, <2>1, HereGood, SMTT(30) DEF GoodRound, GoodPosition, Position
  <1>3. CASE Collected(r)
    <2>1. x.phase = "collect" /\ ~(x.index <= Len(here.after))
      BY <1>1, <1>2, <1>3 DEF Collected, Collecting, In
    <2>2. CASE here.copies = <<>>
      BY <1>1, <1>3, <2>2 DEF Collected, Measures, Taking
    <2>3. CASE here.copies # <<>>
      <3>1. cells' = [cells EXCEPT ![r] = Append(@, Taken(r))]
        BY <1>1, <1>3, <2>3 DEF Collected, Measures, Taken
      <3>2. QED
        BY <2>1, <2>3, <3>1 DEF Taking
    <2>4. QED
      BY <2>2, <2>3
  <1>4. CASE Collect(r)
    BY <1>1, <1>4 DEF Collect, Taking
  <1>5. CASE \/ Construct(r) \/ ImportUnicast(r) \/ AddDevice(r) \/ BindMemory(r)
             \/ BeginOperation(r) \/ FinishCopies(r) \/ NextSample(r) \/ BeginDestroy(r)
    <2>1. x.phase # "collect"
      BY <1>5 DEF Construct, Constructing, ImportUnicast, AddDevice, BindMemory,
                  BeginOperation, FinishCopies, NextSample, BeginDestroy, In
    <2>2. cells' = cells
      BY <1>5 DEF Construct, ImportUnicast, AddDevice, BindMemory, Map, BeginOperation,
                  FinishCopies, NextSample, BeginDestroy
    <2>3. QED
      BY <2>1, <2>2 DEF Taking
  <1>6. CASE \/ AllocateLocal(r) \/ Constructed(r) \/ HelperBuilt(r) \/ StartSample(r)
             \/ EndSample(r) \/ EndOperation(r) \/ Throw(r) \/ FreeLocal(r) \/ Unmap(r)
             \/ EndRound(r)
    <2>1. x.phase # "collect"
      BY <1>6 DEF AllocateLocal, Constructing, Constructed, HelperBuilt, StartSample, EndSample,
                  EndOperation, Throw, FreeLocal, Unmap, EndRound, In
    <2>2. cells' = cells
      BY <1>6 DEF AllocateLocal, Constructed, HelperBuilt, StartSample, EndSample,
                  EndOperation, Throw, FreeLocal, Unmap, EndRound
    <2>3. QED
      BY <2>1, <2>2 DEF Taking
  <1>7. QED
    BY <1>3, <1>4, <1>5, <1>6 DEF Step

\* How a rank has come to where it collects: by the calls before this one.
LEMMA CollectsFrom ==
  ASSUME NEW p \in Plans, NEW s, NEW thrown, GoodLocal(p, s), s.at.phase # "done",
         NEW y, y = After(p, s, thrown), y.at.phase = "collect", y.at.index # 1
  PROVE  /\ Asking(p, s.at) /\ y.at = Move(s.at, s.at.index + 1, s.at.sample, "collect")
         /\ y.calls = Append(s.calls, Here(p, s.at).after[s.at.index])
  <1> DEFINE x == s.at
  <1>1. x.phase \in Phases
    BY DEF GoodLocal, GoodPosition, Position
  <1>2. CASE x.phase = "construct"
    BY <1>2, AfterPhase DEF AfterConstruct, Quiet, Calling, Move
  <1>3. CASE x.phase = "bcast"
    <2>1. \/ y = Calling(s, Move(x, x.index, x.sample, "mapped"), Barrier)
          \/ y = Calling(s, Move(x, x.index, x.sample, "added"), Barrier)
      BY <1>3, AfterPhase DEF AfterBcast
    <2>2. QED
      BY <2>1 DEF Calling, Move
  <1>4. CASE x.phase \in {"added", "mapped", "entry", "exit", "unmap"}
    BY <1>4, AfterPhase DEF Quiet, Calling, Move
  <1>5. CASE x.phase = "copy"
    BY <1>5, AfterPhase DEF AfterCopy, Quiet, Calling, Move
  <1>6. CASE x.phase = "verify"
    BY <1>6, AfterPhase DEF AfterVerify, Quiet, Calling, Move
  <1>7. CASE x.phase = "destroy"
    <2>1. y = AfterDestroy(p, s)
      BY <1>7, AfterPhase
    <2>2. CASE x.index <= Len(Here(p, x).destroy)
      BY <2>1, <2>2 DEF AfterDestroy, Quiet, Calling, Move
    <2>3. CASE ~(x.index <= Len(Here(p, x).destroy))
      BY <1>7, <2>1, <2>3, NextRoundGood DEF AfterDestroy, Quiet, GoodLocal
    <2>4. QED
      BY <2>2, <2>3
  <1>8. CASE x.phase = "collect"
    <2>1. y = AfterCollect(p, s)
      BY <1>8, AfterPhase
    <2>2. CASE x.index <= Len(Here(p, x).after)
      BY <1>8, <2>1, <2>2 DEF AfterCollect, Calling, Move, Asking
    <2>3. CASE ~(x.index <= Len(Here(p, x).after))
      BY <2>1, <2>3 DEF AfterCollect, Quiet, Move
    <2>4. QED
      BY <2>2, <2>3
  <1>9. QED
    BY <1>1, <1>2, <1>3, <1>4, <1>5, <1>6, <1>7, <1>8 DEF Phases, Operating

LEMMA AskingCalls ==
  ASSUME NEW p \in Plans, NEW s, NEW thrown, GoodLocal(p, s), Asking(p, s.at)
  PROVE  /\ After(p, s, thrown).at = Move(s.at, s.at.index + 1, s.at.sample, "collect")
         /\ After(p, s, thrown).calls = Append(s.calls, Here(p, s.at).after[s.at.index])
         /\ s.at.index \in DOMAIN Here(p, s.at).after
         /\ Len(After(p, s, thrown).calls) = Len(s.calls) + 1
         /\ Len(s.calls) \in Nat
         /\ After(p, s, thrown).calls[Len(s.calls) + 1] = Here(p, s.at).after[s.at.index]
  <1>1. s.at.phase = "collect" /\ s.at.index <= Len(Here(p, s.at).after)
    BY DEF Asking
  <1>2. After(p, s, thrown) = Calling(s, Move(s.at, s.at.index + 1, s.at.sample, "collect"),
                                      Here(p, s.at).after[s.at.index])
    BY <1>1, AfterPhase DEF AfterCollect
  <1>3. s.calls \in Seq(CallsOn(p)) /\ GoodPosition(p, s.at) /\ s.at.phase # "done"
    BY <1>1 DEF GoodLocal
  <1>4. Here(p, s.at).after \in Seq(CallsOn(p)) /\ s.at.index \in Nat \ {0}
    BY <1>3, HereGood, SMTT(30) DEF GoodRound, GoodPosition, Position
  <1>5. s.at.index \in DOMAIN Here(p, s.at).after
    BY <1>1, <1>4
  <1>6. /\ After(p, s, thrown).at = Move(s.at, s.at.index + 1, s.at.sample, "collect")
        /\ After(p, s, thrown).calls = Append(s.calls, Here(p, s.at).after[s.at.index])
    BY <1>2 DEF Calling
  <1>7. QED
    BY <1>3, <1>5, <1>6

\* Rank q takes part in a call.
Answers(call, q) == call.op = "bcast" => call.root = q

\* The states of the path at which a rank entered the calls of its round.
Collects(N, H) ==
  \A m \in 1 .. N : \A j \in Nat \ {0} :
    H[m].at.phase = "collect" /\ j < H[m].at.index =>
      /\ m - j \in 1 .. N
      /\ H[m - j].at = Move(H[m].at, H[m].at.index - j, H[m].at.sample, "collect")
      /\ Len(H[m - j].calls) = Len(H[m].calls) - j

\* What a rank has sent at the states behind it, and that it has heard from the
\* ranks that a call needs when it is past that call.
Sends(N, H, g) ==
  /\ Collects(N, H)
  /\ \A r \in Ranks : \A m \in 1 .. N :
       m < g[r] /\ Asking(plan, H[m].at) =>
         /\ Len(H[m].calls) + 1 \in 1 .. Len(sent[r])
         /\ sent[r][Len(H[m].calls) + 1] = Gives(Here(plan, H[m].at), r, H[m].at.index)
  /\ \A r \in Ranks : \A m \in 1 .. N :
       m + 1 < g[r] /\ Asking(plan, H[m].at) =>
         \A q \in Ranks : Answers(Here(plan, H[m].at).after[H[m].at.index], q) => m < g[q]

DataInv ==
  /\ AddedInv
  /\ SentInv
  /\ \E N, H, g : Path(plan, N, H) /\ Walking(N, H, g) /\ Sends(N, H, g)

LEMMA CollectsGrows ==
  ASSUME NEW p \in Plans, NEW N \in Nat \ {0}, NEW H, NEW M \in {N, N + 1}, NEW G,
         Path(p, M, G), Collects(N, H), \A i \in 1 .. N : G[i] = H[i]
  PROVE  Collects(M, G)
  <1> SUFFICES ASSUME NEW m \in 1 .. M, NEW j \in Nat \ {0},
                      G[m].at.phase = "collect", j < G[m].at.index
               PROVE  /\ m - j \in 1 .. M
                      /\ G[m - j].at = Move(G[m].at, G[m].at.index - j, G[m].at.sample, "collect")
                      /\ Len(G[m - j].calls) = Len(G[m].calls) - j
    BY DEF Collects
  <1>1. CASE m \in 1 .. N
    <2>1. G[m] = H[m]
      BY <1>1
    <2>2. /\ m - j \in 1 .. N
          /\ H[m - j].at = Move(H[m].at, H[m].at.index - j, H[m].at.sample, "collect")
          /\ Len(H[m - j].calls) = Len(H[m].calls) - j
      BY <1>1, <2>1 DEF Collects
    <2>3. G[m - j] = H[m - j] /\ m - j \in 1 .. M
      BY <2>2
    <2>4. QED
      BY <2>1, <2>2, <2>3
  <1>2. CASE m \notin 1 .. N
    <2>1. m = N + 1 /\ M = N + 1 /\ N \in 1 .. M - 1
      BY <1>2
    <2>2. G[m].at.index \in Nat
      BY DEF Path, GoodLocal, GoodPosition, Position
    <2>3. G[m].at.index # 1
      BY <2>2
    <2>4. /\ GoodLocal(p, G[N]) /\ G[N].at.phase # "done" /\ GoodLocal(p, G[m])
          /\ G[m] = After(p, G[N], Here(p, G[N].at).throws # {})
      BY <2>1, SMTT(30) DEF Path, Following
    <2>5. /\ Asking(p, G[N].at)
          /\ G[m].at = Move(G[N].at, G[N].at.index + 1, G[N].at.sample, "collect")
      BY <2>3, <2>4, CollectsFrom, SMTT(30)
    <2>6. Len(G[m].calls) = Len(G[N].calls) + 1 /\ Len(G[N].calls) \in Nat
      BY <2>4, <2>5, AskingCalls, SMTT(30)
    <2>7. /\ G[N].at \in Position /\ G[N].at.phase = "collect" /\ G[N].at.index \in Nat
      BY <2>4, <2>5 DEF GoodLocal, GoodPosition, Position, Asking
    <2>8. /\ G[m].at.index = G[N].at.index + 1 /\ G[m].at.sample = G[N].at.sample
          /\ G[m].at.test = G[N].at.test /\ G[m].at.round = G[N].at.round
      BY <2>5 DEF Move
    <2>9. CASE j = 1
      <3>1. m - j = N
        BY <2>1, <2>9
      <3>2. G[N].at = Move(G[m].at, G[m].at.index - 1, G[m].at.sample, "collect")
        BY <2>7, <2>8 DEF Move, Position
      <3>3. QED
        BY <2>1, <2>6, <2>9, <3>1, <3>2
    <2>10. CASE j # 1
      <3> DEFINE i == j - 1
      <3>1. i \in Nat \ {0} /\ i < G[N].at.index /\ N - i = m - j /\ N \in 1 .. N
        BY <2>1, <2>7, <2>8, <2>10
      <3>2. G[N] = H[N]
        BY <3>1
      <3> HIDE DEF i
      <3>3. /\ N - i \in 1 .. N
            /\ H[N - i].at = Move(H[N].at, H[N].at.index - i, H[N].at.sample, "collect")
            /\ Len(H[N - i].calls) = Len(H[N].calls) - i
        BY <2>7, <3>1, <3>2 DEF Collects
      <3>4. G[N - i] = H[N - i]
        BY <3>3
      <3>5. G[N].at.index - i = G[m].at.index - j
        BY <2>7, <2>8 DEF i
      <3>6. G[m - j].at = Move(G[N].at, G[m].at.index - j, G[N].at.sample, "collect")
        BY <3>1, <3>2, <3>3, <3>4, <3>5
      <3>7. Move(G[N].at, G[m].at.index - j, G[N].at.sample, "collect")
              = Move(G[m].at, G[m].at.index - j, G[m].at.sample, "collect")
        BY <2>8 DEF Move
      <3>8. Len(G[m - j].calls) = Len(G[m].calls) - j
        <4>1. Len(G[m - j].calls) = Len(G[N].calls) - i
          BY <3>1, <3>2, <3>3, <3>4
        <4>2. Len(G[N].calls) - i = Len(G[N].calls) + 1 - j
          BY <2>6 DEF i
        <4>3. QED
          BY <2>6, <4>1, <4>2
      <3>9. QED
        BY <2>1, <3>1, <3>3, <3>6, <3>7, <3>8
    <2>11. QED
      BY <2>9, <2>10
  <1>3. QED
    BY <1>1, <1>2

\* A rank that takes a step from behind a call has heard from the ranks that it
\* needs: the one that sends, or all.
LEMMA HasHeard ==
  ASSUME LocalInv, SentInv, NEW N, NEW H, NEW g,
         Path(plan, N, H), Walking(N, H, g), Sends(N, H, g),
         NEW r \in Ranks, Step(r), NEW m \in 1 .. N, m < g[r], Asking(plan, H[m].at),
         NEW q \in Ranks, Answers(Here(plan, H[m].at).after[H[m].at.index], q)
  PROVE  m < g[q]
  <1>1. /\ N \in Nat /\ g[r] \in 1 .. N /\ g[q] \in 1 .. N
        /\ H[g[r]] = Loc(r) /\ H[g[q]] = Loc(q)
    BY DEF Path, Walking
  <1>2. CASE m + 1 < g[r]
    BY <1>2 DEF Sends
  <1>3. CASE ~(m + 1 < g[r])
    <2> DEFINE s == H[m]
               call == Here(plan, s.at).after[s.at.index]
    <2>1. m + 1 = g[r] /\ m \in 1 .. N - 1 /\ plan \in Plans
      BY <1>1, <1>3 DEF LocalInv
    <2>2. GoodLocal(plan, s) /\ Loc(r) = After(plan, s, Here(plan, s.at).throws # {})
      BY <1>1, <2>1 DEF Path, Following
    <2>3. /\ at[r] = Move(s.at, s.at.index + 1, s.at.sample, "collect")
          /\ Len(calls[r]) = Len(s.calls) + 1 /\ Len(s.calls) \in Nat
          /\ calls[r][Len(s.calls) + 1] = call
      BY <2>1, <2>2, AskingCalls, SMTT(30) DEF Loc
    <2>4. s.at.index \in Nat \ {0}
      BY <2>2, SMTT(30) DEF GoodLocal, GoodPosition, Position
    <2>5. at[r].phase = "collect" /\ at[r].index > 1
      BY <2>3, <2>4 DEF Move
    <2>6. Returned(r) /\ Latest(r) = call
      BY <2>3, <2>5, StepSends DEF Latest
    <2>7. Joined(q, r)
      <3>1. CASE call.op = "bcast"
        BY <2>6, <3>1 DEF Returned, Received, Answers
      <3>2. CASE call.op # "bcast"
        BY <2>6, <3>2 DEF Returned, Meet
      <3>3. QED
        BY <3>1, <3>2
    <2>8. Len(calls[q]) > Len(s.calls) /\ Len(calls[q]) \in Nat
      BY <2>3, <2>7, SMTT(30) DEF Joined, LocalInv
    <2>9. g[q] <= m => Len(calls[q]) <= Len(s.calls)
      BY <1>1 DEF Path, Prefix, Loc
    <2>10. QED
      BY <1>1, <2>3, <2>8, <2>9
  <1>4. QED
    BY <1>2, <1>3

LEMMA DataStep ==
  ASSUME LocalInv, Together, DataInv, NEW r \in Ranks, Step(r)
  PROVE  DataInv'
  <1> PICK N, H, g : Path(plan, N, H) /\ Walking(N, H, g) /\ Sends(N, H, g)
    BY DEF DataInv
  <1>1. AddedInv /\ SentInv /\ plan' = plan /\ Ranks' = Ranks
    BY StepWalks DEF DataInv, Ranks
  <1>2. PICK M, G, f :
          /\ M \in {N, N + 1} /\ Path(plan, M, G) /\ \A i \in 1 .. N : G[i] = H[i]
          /\ Walking(M, G, f)'
          /\ f[r] = g[r] + 1 /\ \A q \in Ranks \ {r} : f[q] = g[q]
    BY <1>1, WalkGrows
  <1>3. AddedInv'
    BY <1>1, WalkGrows
  <1>4. /\ N \in Nat \ {0} /\ \A q \in Ranks : g[q] \in 1 .. N /\ H[g[q]] = Loc(q)
        /\ \A q \in Ranks : g[q] <= f[q] /\ f[q] \in Nat
    <2>1. N \in Nat \ {0}
      BY Zenon DEF Path
    <2>2. \A q \in Ranks : g[q] \in 1 .. N /\ H[g[q]] = Loc(q)
      BY Zenon DEF Walking
    <2>3. f[r] = g[r] + 1 /\ \A q \in Ranks \ {r} : f[q] = g[q]
      BY <1>2, Zenon
    <2>4. \A q \in Ranks : g[q] <= f[q] /\ f[q] \in Nat
      BY <2>1, <2>2, <2>3
    <2>5. QED
      BY <2>1, <2>2, <2>4, Zenon
  <1>5. /\ Adds(r)
        /\ Asking(plan, at[r]) =>
             sent'[r] = Append(sent[r], Gives(Here(plan, at[r]), r, at[r].index))
    BY <1>1, StepSends
  <1>6. Collects(M, G)
    BY <1>1, <1>2, <1>4, CollectsGrows DEF Sends, LocalInv
  <1>7. \A q \in Ranks : \A m \in 1 .. M :
          m < f[q] /\ Asking(plan, G[m].at) =>
            /\ Len(G[m].calls) + 1 \in 1 .. Len(sent'[q])
            /\ sent'[q][Len(G[m].calls) + 1] = Gives(Here(plan, G[m].at), q, G[m].at.index)
    <2> SUFFICES ASSUME NEW q \in Ranks, NEW m \in 1 .. M, m < f[q], Asking(plan, G[m].at)
                 PROVE  /\ Len(G[m].calls) + 1 \in 1 .. Len(sent'[q])
                        /\ sent'[q][Len(G[m].calls) + 1]
                             = Gives(Here(plan, G[m].at), q, G[m].at.index)
      OBVIOUS
    <2>1. m \in 1 .. N /\ G[m] = H[m] /\ (m < g[q] \/ (q = r /\ m = g[r]))
      BY <1>2, <1>4
    <2>2. sent[q] \in Seq(SUBSET Nat) /\ Len(sent[q]) = Len(calls[q])
      BY <1>1 DEF SentInv
    <2>3. CASE m < g[q]
      <3>1. /\ Len(H[m].calls) + 1 \in 1 .. Len(sent[q])
            /\ sent[q][Len(H[m].calls) + 1] = Gives(Here(plan, H[m].at), q, H[m].at.index)
        BY <2>1, <2>3 DEF Sends
      <3>2. CASE q = r
        <4>1. /\ Len(sent[r]) <= Len(sent'[r]) /\ sent' \in [Ranks -> Seq(SUBSET Nat)]
              /\ \A n \in 1 .. Len(sent[r]) : sent'[r][n] = sent[r][n]
          BY <1>1, <1>5 DEF Adds, SentInv
        <4>2. Len(sent'[r]) \in Nat /\ Len(sent[r]) \in Nat
          BY <2>2, <3>2, <4>1
        <4>3. Len(G[m].calls) + 1 \in 1 .. Len(sent[r])
          BY <2>1, <3>1, <3>2, Zenon
        <4>4. Len(G[m].calls) + 1 \in 1 .. Len(sent'[r])
          <5>1. \A a, b \in Nat : \A n \in 1 .. a : a <= b => n \in 1 .. b
            OBVIOUS
          <5>2. QED
            BY <4>1, <4>2, <4>3, <5>1, Zenon
        <4>5. sent'[r][Len(G[m].calls) + 1] = Gives(Here(plan, G[m].at), r, G[m].at.index)
          BY <2>1, <3>1, <3>2, <4>1, <4>3, Zenon
        <4>6. QED
          BY <3>2, <4>4, <4>5, Zenon
      <3>3. CASE q # r
        BY <1>5, <2>1, <3>1, <3>3 DEF Adds
      <3>4. QED
        BY <3>2, <3>3
    <2>4. CASE q = r /\ m = g[r]
      <3>1. G[m] = Loc(r) /\ G[m].at = at[r] /\ G[m].calls = calls[r]
        BY <1>4, <2>1, <2>4 DEF Loc
      <3>2. sent'[r] = Append(sent[r], Gives(Here(plan, at[r]), r, at[r].index))
        BY <1>5, <3>1
      <3>3. Len(sent'[r]) = Len(sent[r]) + 1 /\ Len(sent[r]) \in Nat
        BY <2>2, <2>4, <3>2
      <3>4. sent'[r][Len(sent[r]) + 1] = Gives(Here(plan, at[r]), r, at[r].index)
        BY <2>2, <2>4, <3>2
      <3>5. QED
        BY <2>2, <2>4, <3>1, <3>3, <3>4
    <2>5. QED
      BY <2>1, <2>3, <2>4
  <1>8. \A q \in Ranks : \A m \in 1 .. M :
          m + 1 < f[q] /\ Asking(plan, G[m].at) =>
            \A o \in Ranks : Answers(Here(plan, G[m].at).after[G[m].at.index], o) => m < f[o]
    <2> SUFFICES ASSUME NEW q \in Ranks, NEW m \in 1 .. M, m + 1 < f[q], Asking(plan, G[m].at),
                        NEW o \in Ranks, Answers(Here(plan, G[m].at).after[G[m].at.index], o)
                 PROVE  m < f[o]
      OBVIOUS
    <2>1. m \in 1 .. N /\ G[m] = H[m] /\ (m + 1 < g[q] \/ (q = r /\ m < g[r]))
      BY <1>2, <1>4
    <2>2. m < g[o]
      <3>1. CASE m + 1 < g[q]
        BY <2>1, <3>1 DEF Sends
      <3>2. CASE q = r /\ m < g[r]
        BY <1>1, <2>1, <3>2, HasHeard
      <3>3. QED
        BY <2>1, <3>1, <3>2
    <2>3. QED
      BY <1>4, <2>2
  <1>9. Sends(M, G, f)'
    BY <1>1, <1>6, <1>7, <1>8 DEF Sends, Collects
  <1>10. SentInv'
    BY <1>5 DEF Adds
  <1>11. Path(plan, M, G)'
    BY <1>1, <1>2
  <1>12. QED
    BY <1>2, <1>3, <1>9, <1>10, <1>11 DEF DataInv

LEMMA DataInit == Init => DataInv
  <1> SUFFICES ASSUME Init PROVE DataInv
    OBVIOUS
  <1> DEFINE s == [at |-> Begin(plan, 1, 1), calls |-> <<>>]
             H == [i \in 1 .. 1 |-> s]
             g == [r \in Ranks |-> 1]
  <1>1. Path(plan, 1, H) /\ Walking(1, H, g) /\ AddedInv
    BY WalkStarts
  <1>2. \A m \in 1 .. 1 : H[m].at.phase # "collect"
    BY DEF Begin
  <1>3. \A r \in Ranks : g[r] = 1
    OBVIOUS
  <1> HIDE DEF H, g
  <1>4. Sends(1, H, g)
    <2>1. Collects(1, H)
      BY <1>2 DEF Collects
    <2>2. QED
      BY <1>3, <2>1 DEF Sends
  <1>5. SentInv
    BY DEF Init, SentInv
  <1>6. QED
    BY <1>1, <1>4, <1>5 DEF DataInv

LEMMA DataStays ==
  ASSUME DataInv, UNCHANGED vars
  PROVE  DataInv'
  <1>1. /\ plan' = plan /\ Ranks' = Ranks /\ exported' = exported /\ added' = added
        /\ sent' = sent /\ calls' = calls /\ \A r : Loc(r)' = Loc(r)
    BY DEF vars, Ranks, Loc
  <1>2. PICK N, H, g : Path(plan, N, H) /\ Walking(N, H, g) /\ Sends(N, H, g)
    BY DEF DataInv
  <1>3. Path(plan, N, H)'
    BY <1>1, <1>2
  <1>4. Walking(N, H, g)'
    BY <1>1, <1>2 DEF Walking
  <1>5. Sends(N, H, g)'
    BY <1>1, <1>2 DEF Sends
  <1>6. AddedInv' /\ SentInv'
    BY <1>1 DEF DataInv, AddedInv, SentInv, Buffers
  <1>7. QED
    BY <1>3, <1>4, <1>5, <1>6 DEF DataInv

\* What a rank takes for a cell is what the calls of the round stand for.
LEMMA TakesValues ==
  ASSUME LocalInv, DataInv, NEW r \in Ranks, Step(r), Taking(plan, at[r])
  PROVE  Taken(r).values = Values(Here(plan, at[r]))
  <1> PICK N, H, g : Path(plan, N, H) /\ Walking(N, H, g) /\ Sends(N, H, g)
    BY DEF DataInv
  <1> DEFINE x == at[r]
             d == Here(plan, x)
             L == Len(d.after)
             before == Len(calls[r]) - L
  <1>1. /\ plan \in Plans /\ GoodPosition(plan, x) /\ x.phase = "collect" /\ x.phase # "done"
        /\ SentInv
    BY DEF LocalInv, GoodLocal, Loc, Taking, DataInv
  <1>2. /\ L \in Nat /\ DOMAIN d.after = 1 .. L /\ x.index \in Nat /\ Len(calls[r]) \in Nat
        /\ x \in Position
    BY <1>1, HereGood, SMTT(30) DEF GoodRound, GoodPosition, Position, LocalInv
  <1>3. x.index = L + 1
    BY <1>1, <1>2 DEF Taking, GoodPosition, OnPlan, Fits
  <1>4. GoodAfter(plan, d)
    BY <1>1, HereAfter DEF Taking
  <1>5. /\ N \in Nat /\ g \in [Ranks -> 1 .. N] /\ g[r] \in 1 .. N /\ H[g[r]] = Loc(r)
        /\ Loc(r).at = x /\ Loc(r).calls = calls[r]
    BY DEF Path, Walking, Loc
  <1>6. ASSUME NEW i \in 1 .. L
        PROVE  Value(r, before + i) = Values(d)[i]
    <2> DEFINE j == (L + 1) - i
               m == g[r] - j
               s == H[m]
               n == before + i
    <2>1. j \in Nat \ {0} /\ j < x.index /\ j >= 1 /\ x.index - j = i /\ j <= L
      BY <1>2, <1>3
    <2>2. m \in 1 .. N /\ s.at = Move(x, i, x.sample, "collect") /\ Len(s.calls) = Len(calls[r]) - j
      <3> HIDE DEF j
      <3>1. /\ g[r] - j \in 1 .. N
            /\ H[g[r] - j].at = Move(x, x.index - j, x.sample, "collect")
            /\ Len(H[g[r] - j].calls) = Len(calls[r]) - j
        BY <1>1, <1>5, <2>1, ZenonT(40) DEF Sends, Collects
      <3>2. QED
        BY <2>1, <3>1
    <2>3. m < g[r] /\ m \in 1 .. N - 1 /\ m + 1 \in 1 .. N /\ m + 1 <= g[r]
      BY <1>5, <2>1, <2>2, SMTT(30)
    <2>4. n = Len(s.calls) + 1
      <3> HIDE DEF d, m, L
      <3>1. n = (Len(calls[r]) - L) + i /\ j = (L + 1) - i
        BY Zenon
      <3>2. (Len(calls[r]) - L) + i = (Len(calls[r]) - ((L + 1) - i)) + 1
        <4>1. \A a, b, c \in Nat : (a - b) + c = (a - ((b + 1) - c)) + 1
          OBVIOUS
        <4>2. Len(calls[r]) \in Nat /\ L \in Nat /\ i \in Nat
          BY <1>2
        <4>3. QED
          BY <4>1, <4>2, Zenon
      <3>3. QED
        BY <2>2, <3>1, <3>2
    <2> HIDE DEF j, m, n
    <2>5. /\ s.at.test = x.test /\ s.at.round = x.round /\ s.at.index = i
          /\ s.at.phase = "collect" /\ Here(plan, s.at) = d
      BY <2>2 DEF Move, Here
    <2>6. Asking(plan, s.at)
      BY <1>2, <2>5 DEF Asking
    <2>7. GoodLocal(plan, s) /\ H[m + 1] = After(plan, s, d.throws # {})
      BY <2>2, <2>3, <2>5 DEF Path, Following
    <2>8. /\ H[m + 1].calls[n] = d.after[i] /\ Len(H[m + 1].calls) = n /\ n \in Nat \ {0}
      <3>1. /\ Len(H[m + 1].calls) = Len(s.calls) + 1 /\ Len(s.calls) \in Nat
            /\ H[m + 1].calls[Len(s.calls) + 1] = Here(plan, s.at).after[s.at.index]
        BY <1>1, <2>6, <2>7, AskingCalls, SMTT(30)
      <3>2. QED
        BY <2>4, <2>5, <3>1
    <2>9. calls[r][n] = d.after[i]
      <3>1. Prefix(H[m + 1].calls, calls[r])
        BY <1>5, <2>3 DEF Path
      <3>2. H[m + 1].calls \in Seq(CallsOn(plan))
        BY <2>3 DEF Path, GoodLocal
      <3>3. n \in DOMAIN H[m + 1].calls
        BY <2>8, <3>2
      <3>4. QED
        BY <2>8, <3>1, <3>3 DEF Prefix
    <2>10. \A q \in Ranks : Answers(d.after[i], q) => sent[q][n] = Gives(d, q, i)
      <3> SUFFICES ASSUME NEW q \in Ranks, Answers(d.after[i], q)
                   PROVE  sent[q][n] = Gives(d, q, i)
        OBVIOUS
      <3>1. m < g[q]
        BY <1>1, <2>2, <2>3, <2>5, <2>6, HasHeard
      <3>2. QED
        BY <2>2, <2>4, <2>5, <2>6, <3>1 DEF Sends
    <2>11. RanksOf(plan) = Ranks
      BY DEF RanksOf, Ranks
    <2> HIDE DEF d
    <2>12. /\ d.after[i].op \in {"bcast", "allreduce"}
           /\ d.after[i].op = "bcast" =>
                d.after[i].root \in Ranks /\ Gives(d, d.after[i].root, i) = Values(d)[i]
           /\ d.after[i].op = "allreduce" =>
                UNION {Gives(d, q, i) : q \in Ranks} = Values(d)[i]
      <3>1. i \in DOMAIN d.after
        BY <1>2
      <3>2. QED
        BY <1>4, <2>11, <3>1, GivesValues
    <2>13. CASE d.after[i].op = "bcast"
      <3>1. Value(r, n) = sent[d.after[i].root][n]
        BY <2>9, <2>13 DEF Value
      <3>2. sent[d.after[i].root][n] = Gives(d, d.after[i].root, i)
        BY <2>10, <2>12, <2>13 DEF Answers
      <3>3. QED
        BY <2>12, <2>13, <3>1, <3>2 DEF n
    <2>14. CASE d.after[i].op = "allreduce"
      <3>1. Value(r, n) = UNION {sent[q][n] : q \in Ranks}
        BY <2>9, <2>14 DEF Value
      <3>2. \A q \in Ranks : sent[q][n] = Gives(d, q, i)
        BY <2>10, <2>14 DEF Answers
      <3>3. UNION {sent[q][n] : q \in Ranks} = UNION {Gives(d, q, i) : q \in Ranks}
        BY <3>2
      <3>4. Value(r, n) = Values(d)[i]
        BY <2>12, <2>14, <3>1, <3>3
      <3>5. QED
        BY <3>4 DEF n
    <2>15. QED
      BY <2>12, <2>13, <2>14
  <1>7. Taken(r).values = [i \in DOMAIN d.after |-> Value(r, before + i)]
    BY DEF Taken
  <1>8. Values(d) = [i \in DOMAIN d.after |-> Values(d)[i]]
    BY DEF Values
  <1> HIDE DEF before, d, L
  <1>9. QED
    BY <1>2, <1>6, <1>7, <1>8 DEF d

-------------------------------------------------------------------------------
(***************************************************************************)
(* 10. What a rank has of the matrix.                                      *)
(***************************************************************************)
CellOf(p, t, k) == [test |-> t, round |-> k, values |-> Values(Table[p][t][k])]
CellsOf(p) ==
  UNION {{CellOf(p, t, k) : k \in DOMAIN Table[p][t] \ {1}} : t \in DOMAIN p.keys}

Quietly(p, t) == \A k \in DOMAIN Table[p][t] : Table[p][t][k].throws = {}

\* The rounds of testcase t that a rank at x has a cell of, and those in cs.
Ending == {"destroy", "unmap"}
LastRound(x) == IF x.phase \in Ending THEN x.round ELSE x.round - 1
Filled(p, x, t) ==
  IF t < x.test THEN 2 .. Len(Table[p][t])
  ELSE IF t = x.test THEN 2 .. LastRound(x) ELSE {}
Seen(cs, t) == {cs[n].round : n \in {m \in DOMAIN cs : cs[m].test = t}}

FilledAt(p, x, cs) ==
  /\ cs \in Seq(CellsOf(p))
  /\ x.phase # "done" /\ x.sample = 0 => Here(p, x).throws # {}
  /\ \A t \in DOMAIN p.keys : Quietly(p, t) => Seen(cs, t) = Filled(p, x, t)

FilledInv ==
  /\ cells = [r \in Ranks |-> cells[r]]
  /\ \A r \in Ranks : FilledAt(plan, at[r], cells[r])

\* The steps of a rank, as far as the matrix is concerned.
LEMMA FillSteps ==
  ASSUME NEW p \in Plans, NEW s, NEW thrown, GoodLocal(p, s), s.at.phase # "done"
  PROVE  LET x == s.at
             y == After(p, s, thrown).at
         IN  \/ /\ y.test = x.test /\ y.round = x.round /\ y.phase # "done"
                /\ y.phase \in Ending <=> x.phase \in Ending
                /\ y.sample = 0 => x.sample = 0
                /\ x.phase = "collect" => x.index <= Len(Here(p, x).after)
             \/ /\ x.phase = "collect" /\ ~(x.index <= Len(Here(p, x).after))
                /\ y = Move(x, 1, x.sample, "destroy")
             \/ x.phase = "copy" /\ thrown /\ y = Move(x, 1, 0, "destroy")
             \/ x.phase = "destroy" /\ y = NextRound(p, x)
  <1> DEFINE x == s.at
             y == After(p, s, thrown).at
  <1>1. x.phase \in Phases /\ x.sample \in Nat
    BY DEF GoodLocal, GoodPosition, Position
  <1>2. CASE x.phase = "construct"
    BY <1>2, AfterPhase DEF AfterConstruct, Quiet, Calling, Move, Ending
  <1>3. CASE x.phase = "bcast"
    <2>1. \/ y = Move(x, x.index, x.sample, "mapped")
          \/ y = Move(x, x.index, x.sample, "added")
      BY <1>3, AfterPhase DEF AfterBcast, Calling
    <2>2. QED
      BY <1>3, <2>1 DEF Move, Ending
  <1>4. CASE x.phase \in {"added", "mapped", "entry", "exit"}
    BY <1>4, AfterPhase DEF Quiet, Calling, Move, Ending
  <1>5. CASE x.phase = "unmap"
    <2>1. y = Move(x, x.index + 1, x.sample, "destroy")
      BY <1>5, AfterPhase DEF Quiet
    <2>2. QED
      BY <1>5, <2>1 DEF Move, Ending
  <1>6. CASE x.phase = "copy"
    <2>1. After(p, s, thrown) = AfterCopy(s, thrown)
      BY <1>6, AfterPhase
    <2>2. CASE thrown
      BY <1>6, <2>1, <2>2 DEF AfterCopy, Quiet
    <2>3. CASE ~thrown
      BY <1>6, <2>1, <2>3 DEF AfterCopy, Calling, Move, Ending
    <2>4. QED
      BY <2>2, <2>3
  <1>7. CASE x.phase = "verify"
    <2>1. After(p, s, thrown) = AfterVerify(s)
      BY <1>7, AfterPhase
    <2>2. \/ y = Move(x, x.index, x.sample + 1, "entry")
          \/ y = Move(x, 1, x.sample, "collect")
      BY <2>1 DEF AfterVerify, Quiet, Calling
    <2>3. QED
      BY <1>1, <1>7, <2>2 DEF Move, Ending
  <1>8. CASE x.phase = "collect"
    <2>1. After(p, s, thrown) = AfterCollect(p, s)
      BY <1>8, AfterPhase
    <2>2. CASE x.index <= Len(Here(p, x).after)
      BY <1>8, <2>1, <2>2 DEF AfterCollect, Calling, Move, Ending
    <2>3. CASE ~(x.index <= Len(Here(p, x).after))
      BY <1>8, <2>1, <2>3 DEF AfterCollect, Quiet
    <2>4. QED
      BY <2>2, <2>3
  <1>9. CASE x.phase = "destroy"
    <2>1. After(p, s, thrown) = AfterDestroy(p, s)
      BY <1>9, AfterPhase
    <2>2. \/ y = Move(x, x.index + 1, x.sample, "destroy")
          \/ y = Move(x, x.index, x.sample, "unmap")
          \/ y = NextRound(p, x)
      BY <2>1 DEF AfterDestroy, Quiet, Calling
    <2>3. QED
      BY <1>9, <2>2 DEF Move, Ending
  <1>10. QED
    BY <1>1, <1>2, <1>3, <1>4, <1>5, <1>6, <1>7, <1>8, <1>9 DEF Phases, Operating

LEMMA SeenGrows ==
  ASSUME NEW S, NEW cs \in Seq(S), NEW c \in S, NEW t
  PROVE  Seen(Append(cs, c), t) = Seen(cs, t) \union (IF c.test = t THEN {c.round} ELSE {})
  <1> DEFINE ds == Append(cs, c)
             n == Len(cs)
  <1>1. /\ n \in Nat /\ DOMAIN cs = 1 .. n /\ DOMAIN ds = 1 .. n + 1
        /\ ds[n + 1] = c /\ \A m \in 1 .. n : ds[m] = cs[m]
    OBVIOUS
  <1> HIDE DEF ds, n
  <1>2. ASSUME NEW k \in Seen(ds, t) PROVE k \in Seen(cs, t) \/ (c.test = t /\ k = c.round)
    <2> PICK m \in 1 .. n + 1 : ds[m].test = t /\ k = ds[m].round
      BY <1>1 DEF Seen
    <2>1. CASE m = n + 1
      BY <1>1, <2>1
    <2>2. CASE m # n + 1
      <3>1. m \in 1 .. n
        BY <1>1, <2>2
      <3>2. QED
        BY <1>1, <3>1 DEF Seen
    <2>3. QED
      BY <2>1, <2>2
  <1>3. ASSUME NEW k \in Seen(cs, t) PROVE k \in Seen(ds, t)
    <2> PICK m \in 1 .. n : cs[m].test = t /\ k = cs[m].round
      BY <1>1 DEF Seen
    <2>1. m \in 1 .. n + 1
      BY <1>1
    <2>2. QED
      BY <1>1, <2>1 DEF Seen
  <1>4. c.test = t => c.round \in Seen(ds, t)
    <2>1. n + 1 \in 1 .. n + 1
      BY <1>1
    <2>2. QED
      BY <1>1, <2>1 DEF Seen
  <1>5. QED
    BY <1>2, <1>3, <1>4 DEF ds

\* The cells of a rank, as it goes on.
LEMMA FillsOn ==
  ASSUME NEW p \in Plans, NEW s, GoodLocal(p, s), s.at.phase # "done",
         NEW thrown, thrown => Here(p, s.at).throws # {},
         NEW cs, FilledAt(p, s.at, cs), NEW ds,
         ds = IF Taking(p, s.at) THEN Append(cs, CellOf(p, s.at.test, s.at.round)) ELSE cs,
         NEW y, y = After(p, s, thrown).at
  PROVE  FilledAt(p, y, ds)
  <1> DEFINE x == s.at
             cell == CellOf(p, x.test, x.round)
  <1>1. /\ GoodPosition(p, x) /\ x.test \in DOMAIN p.keys /\ x.round \in DOMAIN Table[p][x.test]
        /\ GoodRound(p, x.round, Here(p, x))
    BY HereGood DEF GoodLocal, GoodPosition, OnPlan
  <1>2. /\ x.test \in Nat /\ x.round \in 1 .. Len(Table[p][x.test]) /\ x.round \in Nat
        /\ Len(Table[p][x.test]) \in Nat /\ x.sample \in Nat
        /\ DOMAIN p.keys = 1 .. Len(p.keys) /\ Len(p.keys) \in Nat
    <2>1. x.test \in Nat /\ x.round \in Nat /\ x.sample \in Nat
      BY <1>1 DEF GoodPosition, Position
    <2>2. /\ Len(Table[p][x.test]) \in Nat
          /\ DOMAIN Table[p][x.test] = 1 .. Len(Table[p][x.test])
      BY <1>1, HereGood
    <2>3. DOMAIN p.keys = 1 .. Len(p.keys) /\ Len(p.keys) \in Nat
      BY PlanFacts
    <2>4. QED
      BY <1>1, <2>1, <2>2, <2>3
  <1>3. /\ cs \in Seq(CellsOf(p)) /\ (x.sample = 0 => Here(p, x).throws # {})
        /\ \A t \in DOMAIN p.keys : Quietly(p, t) => Seen(cs, t) = Filled(p, x, t)
    BY DEF FilledAt
  <1>4. Here(p, x).throws # {} => ~Quietly(p, x.test)
    BY <1>1 DEF Quietly, Here
  <1>5. CASE /\ y.test = x.test /\ y.round = x.round /\ y.phase # "done"
             /\ y.phase \in Ending <=> x.phase \in Ending
             /\ y.sample = 0 => x.sample = 0
             /\ x.phase = "collect" => x.index <= Len(Here(p, x).after)
    <2>1. ds = cs
      BY <1>5 DEF Taking
    <2>2. \A t : Filled(p, y, t) = Filled(p, x, t)
      BY <1>5, Zenon DEF Filled, LastRound
    <2>3. Here(p, y) = Here(p, x)
      BY <1>5 DEF Here
    <2>4. QED
      BY <1>3, <1>5, <2>1, <2>2, <2>3 DEF FilledAt
  <1>6. CASE /\ x.phase = "collect" /\ ~(x.index <= Len(Here(p, x).after))
             /\ y = Move(x, 1, x.sample, "destroy")
    <2>1. /\ y.test = x.test /\ y.round = x.round /\ y.sample = x.sample /\ Here(p, y) = Here(p, x)
          /\ LastRound(y) = x.round /\ LastRound(x) = x.round - 1 /\ y.phase # "done"
      BY <1>6, SMTT(30) DEF Move, Here, LastRound, Ending
    <2>2. \A t : t # x.test => Filled(p, y, t) = Filled(p, x, t)
      BY <2>1 DEF Filled
    <2>3. Filled(p, y, x.test) = 2 .. x.round /\ Filled(p, x, x.test) = 2 .. x.round - 1
      BY <1>2, <2>1 DEF Filled
    <2>4. CASE Here(p, x).copies = <<>>
      <3>1. x.round = 1 /\ ds = cs
        BY <1>1, <2>4 DEF GoodRound, Taking
      <3>2. 2 .. x.round = 2 .. x.round - 1
        BY <3>1
      <3>3. \A t : Filled(p, y, t) = Filled(p, x, t)
        BY <2>2, <2>3, <3>2
      <3>4. QED
        BY <1>3, <2>1, <3>1, <3>3 DEF FilledAt
    <2>5. CASE Here(p, x).copies # <<>>
      <3>1. x.round # 1 /\ ds = Append(cs, cell)
        BY <1>1, <1>6, <2>5 DEF GoodRound, Taking
      <3>2. cell \in CellsOf(p) /\ cell.test = x.test /\ cell.round = x.round
        BY <1>1, <3>1, SMTT(30) DEF CellsOf, CellOf
      <3> HIDE DEF cell
      <3>3. ds \in Seq(CellsOf(p))
        BY <1>3, <3>1, <3>2
      <3>4. \A t : Seen(ds, t) = Seen(cs, t) \union (IF x.test = t THEN {x.round} ELSE {})
        BY <1>3, <3>1, <3>2, SeenGrows
      <3>5. 2 .. x.round = (2 .. x.round - 1) \union {x.round}
        BY <1>2, <3>1, SMTT(30)
      <3>6. \A t \in DOMAIN p.keys : Quietly(p, t) => Seen(ds, t) = Filled(p, y, t)
        <4> TAKE t \in DOMAIN p.keys
        <4>1. CASE t = x.test
          BY <1>3, <2>3, <3>4, <3>5, <4>1
        <4>2. CASE t # x.test
          BY <1>3, <2>2, <3>4, <4>2
        <4>3. QED
          BY <4>1, <4>2
      <3>7. QED
        BY <1>3, <2>1, <3>3, <3>6 DEF FilledAt
    <2>6. QED
      BY <2>4, <2>5
  <1>7. CASE x.phase = "copy" /\ thrown /\ y = Move(x, 1, 0, "destroy")
    <2>1. y.test = x.test /\ Here(p, y) = Here(p, x)
      <3>1. y = Move(x, 1, 0, "destroy")
        BY <1>7
      <3>2. QED
        BY <3>1 DEF Move, Here
    <2>2. ds = cs /\ Here(p, x).throws # {}
      BY <1>7 DEF Taking
    <2>3. \A t : t # x.test => Filled(p, y, t) = Filled(p, x, t)
      BY <2>1 DEF Filled
    <2>4. QED
      BY <1>3, <1>4, <2>1, <2>2, <2>3 DEF FilledAt
  <1>8. CASE x.phase = "destroy" /\ y = NextRound(p, x)
    <2>1. ds = cs /\ LastRound(x) = x.round
      BY <1>8 DEF Taking, LastRound, Ending
    <2>2. y.phase \in {"construct", "done"}
      BY <1>1, <1>8, NextRoundGood
    <2>3. CASE x.sample # 0 /\ x.round < Len(Table[p][x.test])
      <3>1. /\ y.test = x.test /\ y.round = x.round + 1 /\ y.sample = 1
        BY <1>8, <2>3 DEF NextRound, Begin
      <3>2. LastRound(y) = x.round
        BY <1>2, <2>2, <3>1 DEF LastRound, Ending
      <3>3. \A t : Filled(p, y, t) = Filled(p, x, t)
        BY <2>1, <3>1, <3>2 DEF Filled
      <3>4. QED
        BY <1>3, <2>1, <3>1, <3>3 DEF FilledAt
    <2>4. CASE ~(x.sample # 0 /\ x.round < Len(Table[p][x.test]))
      <3>1. /\ y.test = x.test + 1 /\ y.round = 1 /\ y.sample = 1
        BY <1>8, <2>4 DEF NextRound, Begin
      <3>2. LastRound(y) = 0
        BY <2>2, <3>1 DEF LastRound, Ending
      <3>3. ASSUME NEW t \in DOMAIN p.keys, Quietly(p, t)
            PROVE  Seen(cs, t) = Filled(p, y, t)
        <4>1. t \in Nat /\ Seen(cs, t) = Filled(p, x, t)
          BY <1>2, <1>3, <3>3
        <4>2. CASE t < x.test
          <5>1. t < y.test
            BY <1>2, <3>1, <4>1, <4>2
          <5>2. QED
            BY <4>1, <4>2, <5>1 DEF Filled
        <4>3. CASE t = x.test
          <5>1. x.round = Len(Table[p][t])
            BY <1>2, <1>3, <1>4, <2>4, <3>3, <4>3
          <5>2. Filled(p, x, t) = 2 .. Len(Table[p][t])
            BY <1>2, <2>1, <4>3, <5>1 DEF Filled
          <5>3. t < y.test
            BY <1>2, <3>1, <4>3
          <5>4. QED
            BY <4>1, <5>2, <5>3 DEF Filled
        <4>4. CASE t > x.test
          <5>1. Filled(p, x, t) = {} /\ ~(t < y.test)
            BY <1>2, <3>1, <4>1, <4>4 DEF Filled
          <5>2. Filled(p, y, t) = {}
            BY <3>2, <5>1 DEF Filled
          <5>3. QED
            BY <4>1, <5>1, <5>2
        <4>5. QED
          BY <1>2, <4>1, <4>2, <4>3, <4>4
      <3>4. QED
        BY <1>3, <2>1, <3>1, <3>3 DEF FilledAt
    <2>5. QED
      BY <2>3, <2>4
  <1>9. QED
    BY <1>5, <1>6, <1>7, <1>8, FillSteps

LEMMA FilledStep ==
  ASSUME LocalInv, Together, DataInv, FilledInv, NEW r \in Ranks, Step(r)
  PROVE  FilledInv'
  <1> DEFINE x == at[r]
  <1>1. /\ plan' = plan /\ Ranks' = Ranks /\ plan \in Plans /\ x.phase # "done"
        /\ Loc(r)' = After(plan, Loc(r), Throws(r)) /\ OthersStay(r)
    BY StepWalks DEF Ranks, LocalInv
  <1>2. GoodLocal(plan, Loc(r)) /\ Loc(r).at = x /\ Loc(r)'.at = at'[r]
    BY DEF LocalInv, Loc
  <1>3. Throws(r) => Here(plan, x).throws # {}
    BY DEF Throws, RoundOf, Rounds, Here
  <1>4. /\ cells' = [q \in Ranks |-> cells'[q]]
        /\ cells'[r] = IF Taking(plan, x) THEN Append(cells[r], CellOf(plan, x.test, x.round))
                                          ELSE cells[r]
        /\ \A q \in Ranks \ {r} : cells'[q] = cells[q]
    <2>1. cells = [q \in Ranks |-> cells[q]]
      BY DEF FilledInv
    <2>2. CASE Taking(plan, x)
      <3>1. cells' = [cells EXCEPT ![r] = Append(cells[r], Taken(r))]
        BY <2>2, StepTakes
      <3>2. Taken(r) = CellOf(plan, x.test, x.round)
        BY <2>2, TakesValues DEF Taken, CellOf, Here
      <3>3. QED
        BY <2>1, <2>2, <3>1, <3>2
    <2>3. CASE ~Taking(plan, x)
      <3>1. cells' = cells
        BY <2>3, StepTakes
      <3>2. QED
        BY <2>1, <2>3, <3>1
    <2>4. QED
      BY <2>2, <2>3
  <1>5. FilledAt(plan, at'[r], cells'[r])
    <2>1. FilledAt(plan, Loc(r).at, cells[r])
      BY <1>2 DEF FilledInv
    <2>2. FilledAt(plan, After(plan, Loc(r), Throws(r)).at, cells'[r])
      BY <1>1, <1>2, <1>3, <1>4, <2>1, FillsOn
    <2>3. QED
      BY <1>1, <1>2, <2>2
  <1>6. ASSUME NEW q \in Ranks \ {r} PROVE FilledAt(plan, at'[q], cells'[q])
    <2>1. at'[q] = at[q]
      BY <1>1 DEF OthersStay, Loc
    <2>2. QED
      BY <1>4, <2>1 DEF FilledInv
  <1>7. QED
    BY <1>1, <1>4, <1>5, <1>6 DEF FilledInv

LEMMA FilledInit == Init => FilledInv
  <1> SUFFICES ASSUME Init PROVE FilledInv
    OBVIOUS
  <1>1. plan \in Plans /\ Len(plan.keys) \in Nat /\ DOMAIN plan.keys = 1 .. Len(plan.keys)
    BY PlanFacts DEF Init
  <1> DEFINE x == Begin(plan, 1, 1)
  <1>2. x.test = 1 /\ x.sample = 1 /\ LastRound(x) = 0
    BY DEF Begin, LastRound, Ending
  <1> HIDE DEF x
  <1>3. \A t \in DOMAIN plan.keys : Filled(plan, x, t) = {}
    <2> TAKE t \in DOMAIN plan.keys
    <2>1. ~(t < 1)
      BY <1>1
    <2>2. 2 .. 0 = {}
      OBVIOUS
    <2>3. QED
      BY <1>2, <2>1, <2>2 DEF Filled
  <1>4. \A t : Seen(<<>>, t) = {}
    BY DEF Seen
  <1>5. FilledAt(plan, x, <<>>)
    <2>1. <<>> \in Seq(CellsOf(plan)) /\ x.sample # 0
      BY <1>2
    <2>2. QED
      BY <1>3, <1>4, <2>1, Zenon DEF FilledAt
  <1>6. QED
    BY <1>5 DEF Init, FilledInv, x

LEMMA FilledStays ==
  ASSUME FilledInv, UNCHANGED vars
  PROVE  FilledInv'
  BY DEF FilledInv, vars, Ranks

LEMMA FilledInvariant == Spec => [](LocalInv /\ (Together => DataInv /\ FilledInv))
  <1>1. LocalInv /\ (Together => DataInv /\ FilledInv) /\ [Next]_vars
        => (Together => DataInv /\ FilledInv)'
    <2>1. ASSUME LocalInv, Together => DataInv /\ FilledInv, UNCHANGED vars
          PROVE  (Together => DataInv /\ FilledInv)'
      <3>1. Together' <=> Together
        BY <2>1, TogetherStays DEF vars
      <3>2. QED
        BY <2>1, <3>1, DataStays, FilledStays
    <2>2. ASSUME LocalInv, Together => DataInv /\ FilledInv, NEW r \in Ranks, Step(r)
          PROVE  (Together => DataInv /\ FilledInv)'
      <3>1. Together' <=> Together
        BY <2>2, StepWalks, TogetherStays
      <3>2. QED
        BY <2>2, <3>1, DataStep, FilledStep
    <2>3. QED
      BY <2>1, <2>2, NextSteps
  <1>2. Init => DataInv /\ FilledInv
    BY DataInit, FilledInit
  <1>3. QED
    BY <1>1, <1>2, PlacesInvariant, PTL DEF Spec

-------------------------------------------------------------------------------
(***************************************************************************)
(* 11. What the cells say, against what the descriptions promise.          *)
(***************************************************************************)
\* testcase.h and multinode_testcases.cpp, side by side.
Agrees(key, shape, prefer, value, promises) ==
  /\ Runs[key].shape = shape /\ Runs[key].prefer = prefer /\ Runs[key].value = value
  /\ Promises[key] \in promises

LEMMA PromiseTable ==
  ASSUME NEW key \in DOMAIN Runs
  PROVE  /\ Sampled(key) =>
              \/ Agrees(key, "read", "dst", "FIRST", {Promise("from_peer", "none", "reader")})
              \/ Agrees(key, "write", "src", "FIRST", {Promise("to_peer", "none", "writer")})
              \/ Agrees(key, "both_read", "dst", "VECTOR",
                        {Promise("from_peer", "to_peer", "reader"),
                         Promise("both_ways", "none", "reader")})
              \/ Agrees(key, "both_write", "src", "VECTOR",
                        {Promise("to_peer", "from_peer", "writer"),
                         Promise("both_ways", "none", "writer")})
         /\ ~Sampled(key) =>
              \/ Agrees(key, "to_one", "src", "SUM", {Promise("inbound", "none", "writer")})
              \/ Agrees(key, "from_one", "dst", "SUM", {Promise("outbound", "none", "reader")})
              \/ Agrees(key, "broadcast_one", "dst", "SUM", {Promise("to_all", "none", "writer")})
              \/ Agrees(key, "broadcast_all", "dst", "SUM",
                        {Promise("all_to_all", "none", "writer")})
              \/ Agrees(key, "bisect", "src", "VECTOR", {Promise("bisection", "none", "writer")})
  <1>1. /\ DOMAIN PairRuns = DOMAIN PairPromises
        /\ DOMAIN CollectiveRuns = DOMAIN CollectivePromises
        /\ DOMAIN CollectiveRuns \intersect DOMAIN PairRuns = {}
    BY DEF PairRuns, PairPromises, CollectiveRuns, CollectivePromises
  <1>2. CASE Sampled(key)
    <2>1. Runs[key] = PairRuns[key] /\ Promises[key] = PairPromises[key]
      BY <1>1, <1>2 DEF Runs, Promises, Sampled
    <2>2. QED
      BY <1>2, <2>1 DEF Sampled, PairRuns, PairPromises, Run, Agrees
  <1>3. CASE ~Sampled(key)
    <2>1. /\ Runs[key] = CollectiveRuns[key] /\ Promises[key] = CollectivePromises[key]
          /\ key \in DOMAIN CollectiveRuns
      BY <1>1, <1>3 DEF Runs, Promises, Sampled
    <2>2. QED
      BY <1>3, <2>1 DEF CollectiveRuns, CollectivePromises, Run, Agrees
  <1>4. QED
    BY <1>2, <1>3

\* A measured round: its copies and who executes them, and the sets of copies
\* that the calls after it report.
LEMMA MeasuredIs ==
  ASSUME NEW p, NEW key, NEW s, NEW n \in Nat \ {0}, DOMAIN s.copies = 1 .. n,
         NEW d, d = MeasuredRound(p, key, s)
  PROVE  /\ d.cell = s.cell /\ d.buffers = s.buffers /\ d.copies = s.copies
         /\ \A i \in 1 .. n : d.executors[i] = Executor(key, s.buffers, s.copies[i])
         /\ Runs[key].value = "FIRST" => DOMAIN Values(d) = {1} /\ Values(d)[1] = {1}
         /\ Runs[key].value = "SUM" => DOMAIN Values(d) = {1} /\ Values(d)[1] = 1 .. n
         /\ Runs[key].value = "VECTOR" =>
              DOMAIN Values(d) = 1 .. n /\ \A i \in 1 .. n : Values(d)[i] = {i}
  <1> DEFINE x == Executors(key, s)
  <1>1. /\ d.cell = s.cell /\ d.buffers = s.buffers /\ d.copies = s.copies
        /\ d.executors = x /\ d.after = Results(key, x)
    BY DEF MeasuredRound, Round
  <1>2. DOMAIN x = 1 .. n /\ \A i \in 1 .. n : x[i] = Executor(key, s.buffers, s.copies[i])
    BY DEF Executors
  <1> HIDE DEF x
  <1>3. Runs[key].value = "FIRST" => DOMAIN Values(d) = {1} /\ Values(d)[1] = {1}
    <2> SUFFICES ASSUME Runs[key].value = "FIRST"
                 PROVE  DOMAIN Values(d) = {1} /\ Values(d)[1] = {1}
      OBVIOUS
    <2>1. d.after = <<Bcast(x[1])>>
      BY <1>1 DEF Results
    <2>2. DOMAIN d.after = {1} /\ d.after[1].op # "allreduce"
      BY <2>1 DEF Bcast
    <2>3. QED
      BY <2>2 DEF Values
  <1>4. Runs[key].value = "SUM" => DOMAIN Values(d) = {1} /\ Values(d)[1] = 1 .. n
    <2> SUFFICES ASSUME Runs[key].value = "SUM"
                 PROVE  DOMAIN Values(d) = {1} /\ Values(d)[1] = 1 .. n
      OBVIOUS
    <2>1. d.after = <<Allreduce>>
      BY <1>1 DEF Results
    <2>2. DOMAIN d.after = {1} /\ d.after[1].op = "allreduce"
      BY <2>1 DEF Allreduce
    <2>3. QED
      BY <1>1, <2>2 DEF Values
  <1>5. Runs[key].value = "VECTOR" =>
          DOMAIN Values(d) = 1 .. n /\ \A i \in 1 .. n : Values(d)[i] = {i}
    <2> SUFFICES ASSUME Runs[key].value = "VECTOR"
                 PROVE  DOMAIN Values(d) = 1 .. n /\ \A i \in 1 .. n : Values(d)[i] = {i}
      OBVIOUS
    <2>1. d.after = [i \in 1 .. n |-> Bcast(x[i])]
      BY <1>1, <1>2 DEF Results
    <2>2. DOMAIN d.after = 1 .. n /\ \A i \in 1 .. n : d.after[i].op # "allreduce"
      BY <2>1 DEF Bcast
    <2>3. QED
      BY <2>2 DEF Values
  <1>6. QED
    BY <1>1, <1>2, <1>3, <1>4, <1>5

\* What is left to show of a round with n copies: that the first of them, or all
\* of them, are the promised traffic.
From(d, i) == d.buffers[d.copies[i][1]]
To(d, i) == d.buffers[d.copies[i][2]]

Delivers(promise, key, d, n) ==
  /\ \A i \in 1 .. n :
       IF promise.launches = "writer"
       THEN Runs[key].prefer = "src" \/ From(d, i).owner = To(d, i).owner
       ELSE Runs[key].prefer = "dst"
  /\ \/ /\ Runs[key].value \in {"FIRST", "VECTOR"}
        /\ Promised(promise.reports, d.cell[1], d.cell[2]) = Flows(d, 1)
     \/ /\ Runs[key].value \in {"SUM", "VECTOR"}
        /\ Promised(promise.reports, d.cell[1], d.cell[2]) = FlowsOf(d, 1 .. n)
  /\ Promised(promise.load, d.cell[1], d.cell[2]) \subseteq FlowsOf(d, 1 .. n)

LEMMA Keeping ==
  ASSUME NEW p, NEW key, NEW s, NEW n \in Nat \ {0}, DOMAIN s.copies = 1 .. n,
         NEW d, d = MeasuredRound(p, key, s), NEW promise, Delivers(promise, key, d, n)
  PROVE  KeepsPromise(promise, d, Values(d))
  <1> DEFINE values == Values(d)
             reported == {FlowsOf(d, values[i]) : i \in DOMAIN values}
             W == Promised(promise.reports, d.cell[1], d.cell[2])
  <1>1. /\ d.cell = s.cell /\ d.buffers = s.buffers /\ d.copies = s.copies
        /\ \A i \in 1 .. n : d.executors[i] = Executor(key, s.buffers, s.copies[i])
        /\ Runs[key].value = "FIRST" => DOMAIN values = {1} /\ values[1] = {1}
        /\ Runs[key].value = "SUM" => DOMAIN values = {1} /\ values[1] = 1 .. n
        /\ Runs[key].value = "VECTOR" =>
             DOMAIN values = 1 .. n /\ \A i \in 1 .. n : values[i] = {i}
    BY MeasuredIs
  <1> HIDE DEF values
  <1>2. 1 \in 1 .. n
    OBVIOUS
  <1>3. \A i : FlowsOf(d, {i}) = Flows(d, i)
    BY DEF FlowsOf
  <1>4. W \in reported \union {UNION reported}
    <2>1. CASE Runs[key].value \in {"FIRST", "VECTOR"} /\ W = Flows(d, 1)
      <3>1. 1 \in DOMAIN values /\ values[1] = {1}
        BY <1>1, <1>2, <2>1
      <3>2. W = FlowsOf(d, values[1])
        BY <1>3, <2>1, <3>1
      <3>3. QED
        BY <3>1, <3>2
    <2>2. CASE Runs[key].value = "SUM" /\ W = FlowsOf(d, 1 .. n)
      BY <1>1, <2>2
    <2>3. CASE Runs[key].value = "VECTOR" /\ W = FlowsOf(d, 1 .. n)
      <3>1. reported = {Flows(d, i) : i \in 1 .. n}
        <4>1. DOMAIN values = 1 .. n /\ \A i \in 1 .. n : FlowsOf(d, values[i]) = Flows(d, i)
          BY <1>1, <1>3, <2>3
        <4>2. QED
          BY <4>1
      <3>2. UNION reported = FlowsOf(d, 1 .. n)
        BY <3>1 DEF FlowsOf
      <3>3. QED
        BY <2>3, <3>2
    <2>4. QED
      BY <2>1, <2>2, <2>3 DEF Delivers
  <1>5. \A i \in 1 .. n :
          LET flow == IF promise.launches = "writer" THEN 1 ELSE 2
          IN  d.executors[i] = d.buffers[d.copies[i][flow]].owner
    <2> TAKE i \in 1 .. n
    <2>1. d.executors[i] = IF Runs[key].prefer = "src" THEN From(d, i).owner ELSE To(d, i).owner
      BY <1>1 DEF Executor, From, To
    <2>2. CASE promise.launches = "writer"
      <3>1. d.executors[i] = From(d, i).owner
        BY <2>1, <2>2 DEF Delivers
      <3>2. QED
        BY <2>2, <3>1 DEF From
    <2>3. CASE promise.launches # "writer"
      <3>1. d.executors[i] = To(d, i).owner
        BY <2>1, <2>3 DEF Delivers
      <3>2. QED
        BY <2>3, <3>1 DEF To
    <2>4. QED
      BY <2>2, <2>3
  <1>6. DOMAIN d.copies = 1 .. n
    BY <1>1
  <1>7. QED
    BY <1>4, <1>5, <1>6 DEF KeepsPromise, Delivers, values

LEMMA FlowsAre ==
  ASSUME NEW d, NEW i, NEW b
  PROVE  /\ To(d, i) = Local(b) \/ To(d, i) = Unicast(b) => Flows(d, i) = {<<From(d, i).owner, b>>}
         /\ To(d, i) = Multicast(b) => Flows(d, i) = {From(d, i).owner} \X Ranks
  BY SMTT(30) DEF Flows, From, To, Local, Unicast, Multicast

LEMMA PairCopies ==
  ASSUME NEW pair, NEW shape \in {"read", "write", "both_read", "both_write"},
         NEW s, s = PairShape(shape, pair), NEW d, d.buffers = s.buffers, d.copies = s.copies,
         NEW src, src = Unicast(pair[1]), NEW peer, peer = Unicast(pair[2])
  PROVE  /\ s.cell = pair
         /\ shape = "read" => DOMAIN s.copies = 1 .. 1 /\ From(d, 1) = peer /\ To(d, 1) = src
         /\ shape = "write" => DOMAIN s.copies = 1 .. 1 /\ From(d, 1) = src /\ To(d, 1) = peer
         /\ shape = "both_read" =>
              /\ DOMAIN s.copies = 1 .. 2 /\ From(d, 1) = peer /\ To(d, 1) = src
              /\ From(d, 2) = src /\ To(d, 2) = peer
         /\ shape = "both_write" =>
              /\ DOMAIN s.copies = 1 .. 2 /\ From(d, 1) = src /\ To(d, 1) = peer
              /\ From(d, 2) = peer /\ To(d, 2) = src
  <1>1. CASE shape = "read"
    <2>1. s = Shape(pair, <<src, peer>>, <<<<2, 1>>>>, Backwards(2))
      BY <1>1 DEF PairShape
    <2>2. s.cell = pair /\ s.buffers = <<src, peer>> /\ s.copies = <<<<2, 1>>>>
      BY <2>1 DEF Shape
    <2>3. DOMAIN s.copies = 1 .. 1
      BY <2>2
    <2>4. QED
      BY <1>1, <2>2, <2>3 DEF From, To
  <1>2. CASE shape = "write"
    <2>1. s = Shape(pair, <<src, peer>>, <<<<1, 2>>>>, Backwards(2))
      BY <1>2 DEF PairShape
    <2>2. s.cell = pair /\ s.buffers = <<src, peer>> /\ s.copies = <<<<1, 2>>>>
      BY <2>1 DEF Shape
    <2>3. DOMAIN s.copies = 1 .. 1
      BY <2>2
    <2>4. QED
      BY <1>2, <2>2, <2>3 DEF From, To
  <1>3. CASE shape = "both_read"
    <2>1. s = Shape(pair, <<src, src, peer, peer>>, <<<<3, 1>>, <<2, 4>>>>, Backwards(4))
      BY <1>3 DEF PairShape
    <2>2. s.cell = pair /\ s.buffers = <<src, src, peer, peer>> /\ s.copies = <<<<3, 1>>, <<2, 4>>>>
      BY <2>1 DEF Shape
    <2>3. DOMAIN s.copies = 1 .. 2
      BY <2>2
    <2>4. QED
      BY <1>3, <2>2, <2>3 DEF From, To
  <1>4. CASE shape = "both_write"
    <2>1. s = Shape(pair, <<src, src, peer, peer>>, <<<<1, 3>>, <<4, 2>>>>, Backwards(4))
      BY <1>4 DEF PairShape
    <2>2. s.cell = pair /\ s.buffers = <<src, src, peer, peer>> /\ s.copies = <<<<1, 3>>, <<4, 2>>>>
      BY <2>1 DEF Shape
    <2>3. DOMAIN s.copies = 1 .. 2
      BY <2>2
    <2>4. QED
      BY <1>4, <2>2, <2>3 DEF From, To
  <1>5. QED
    BY <1>1, <1>2, <1>3, <1>4

LEMMA PairKeeps ==
  ASSUME NEW p, NEW key \in DOMAIN Runs, Sampled(key), NEW A, NEW pair \in A \X A,
         NEW s, s = PairShape(Runs[key].shape, pair), NEW d, d = MeasuredRound(p, key, s),
         NEW promise, promise = Promises[key]
  PROVE  KeepsPromise(promise, d, Values(d))
  <1> DEFINE a == pair[1]
             b == pair[2]
             forth == {<<a, b>>}
             back == {<<b, a>>}
  <1>1. d.cell = s.cell /\ d.buffers = s.buffers /\ d.copies = s.copies
    BY DEF MeasuredRound, Round
  <1>2. d.cell[1] = a /\ d.cell[2] = b
    BY <1>1, RunTable, PairCopies, SMTT(30)
  <1>3. Unicast(a).owner = a /\ Unicast(b).owner = b
    BY DEF Unicast
  <1>4. /\ Promised("none", a, b) = {} /\ Promised("from_peer", a, b) = back
        /\ Promised("to_peer", a, b) = forth /\ Promised("both_ways", a, b) = forth \union back
    BY DEF Promised
  <1>5. \A i : /\ From(d, i) = Unicast(a) /\ To(d, i) = Unicast(b) => Flows(d, i) = forth
               /\ From(d, i) = Unicast(b) /\ To(d, i) = Unicast(a) => Flows(d, i) = back
    BY <1>3, FlowsAre
  <1>6. /\ FlowsOf(d, 1 .. 1) = Flows(d, 1)
        /\ FlowsOf(d, 1 .. 2) = Flows(d, 1) \union Flows(d, 2)
    <2>1. 1 .. 1 = {1} /\ 1 .. 2 = {1, 2}
      OBVIOUS
    <2>2. QED
      BY <2>1 DEF FlowsOf
  <1> HIDE DEF forth, back
  <1>7. 1 \in Nat \ {0} /\ 2 \in Nat \ {0}
    OBVIOUS
  <1>8. CASE Agrees(key, "read", "dst", "FIRST", {Promise("from_peer", "none", "reader")})
    <2>1. DOMAIN s.copies = 1 .. 1 /\ Flows(d, 1) = back
      BY <1>1, <1>5, <1>8, PairCopies DEF Agrees
    <2>2. /\ promise.reports = "from_peer" /\ promise.load = "none" /\ promise.launches = "reader"
          /\ Runs[key].prefer = "dst" /\ Runs[key].value = "FIRST"
      BY <1>8 DEF Agrees, Promise
    <2>3. \A i \in 1 .. 1 :
            IF promise.launches = "writer"
            THEN Runs[key].prefer = "src" \/ From(d, i).owner = To(d, i).owner
            ELSE Runs[key].prefer = "dst"
      BY <2>2
    <2>4. /\ \/ Promised(promise.reports, a, b) = Flows(d, 1)
             \/ Runs[key].value = "VECTOR" /\ Promised(promise.reports, a, b) = FlowsOf(d, 1 .. 1)
          /\ Promised(promise.load, a, b) \subseteq FlowsOf(d, 1 .. 1)
      BY <1>4, <2>1, <2>2
    <2>5. Delivers(promise, key, d, 1)
      BY <1>2, <2>2, <2>3, <2>4 DEF Delivers
    <2>6. QED
      BY <1>7, <2>1, <2>5, Keeping
  <1>9. CASE Agrees(key, "write", "src", "FIRST", {Promise("to_peer", "none", "writer")})
    <2>1. DOMAIN s.copies = 1 .. 1 /\ Flows(d, 1) = forth
      BY <1>1, <1>5, <1>9, PairCopies DEF Agrees
    <2>2. /\ promise.reports = "to_peer" /\ promise.load = "none" /\ promise.launches = "writer"
          /\ Runs[key].prefer = "src" /\ Runs[key].value = "FIRST"
      BY <1>9 DEF Agrees, Promise
    <2>3. \A i \in 1 .. 1 :
            IF promise.launches = "writer"
            THEN Runs[key].prefer = "src" \/ From(d, i).owner = To(d, i).owner
            ELSE Runs[key].prefer = "dst"
      BY <2>2
    <2>4. /\ \/ Promised(promise.reports, a, b) = Flows(d, 1)
             \/ Runs[key].value = "VECTOR" /\ Promised(promise.reports, a, b) = FlowsOf(d, 1 .. 1)
          /\ Promised(promise.load, a, b) \subseteq FlowsOf(d, 1 .. 1)
      BY <1>4, <2>1, <2>2
    <2>5. Delivers(promise, key, d, 1)
      BY <1>2, <2>2, <2>3, <2>4 DEF Delivers
    <2>6. QED
      BY <1>7, <2>1, <2>5, Keeping
  <1>10. CASE Agrees(key, "both_read", "dst", "VECTOR",
                    {Promise("from_peer", "to_peer", "reader"),
                     Promise("both_ways", "none", "reader")})
    <2>1. /\ DOMAIN s.copies = 1 .. 2 /\ Flows(d, 1) = back
          /\ FlowsOf(d, 1 .. 2) = forth \union back
      BY <1>1, <1>5, <1>6, <1>10, PairCopies DEF Agrees
    <2>2. /\ promise.launches = "reader" /\ Runs[key].prefer = "dst" /\ Runs[key].value = "VECTOR"
          /\ \/ promise.reports = "from_peer" /\ promise.load = "to_peer"
             \/ promise.reports = "both_ways" /\ promise.load = "none"
      BY <1>10 DEF Agrees, Promise
    <2>3. \A i \in 1 .. 2 :
            IF promise.launches = "writer"
            THEN Runs[key].prefer = "src" \/ From(d, i).owner = To(d, i).owner
            ELSE Runs[key].prefer = "dst"
      BY <2>2
    <2>4. /\ \/ Promised(promise.reports, a, b) = Flows(d, 1)
             \/ Runs[key].value = "VECTOR" /\ Promised(promise.reports, a, b) = FlowsOf(d, 1 .. 2)
          /\ Promised(promise.load, a, b) \subseteq FlowsOf(d, 1 .. 2)
      BY <1>4, <2>1, <2>2
    <2>5. Delivers(promise, key, d, 2)
      BY <1>2, <2>2, <2>3, <2>4 DEF Delivers
    <2>6. QED
      BY <1>7, <2>1, <2>5, Keeping
  <1>11. CASE Agrees(key, "both_write", "src", "VECTOR",
                     {Promise("to_peer", "from_peer", "writer"),
                      Promise("both_ways", "none", "writer")})
    <2>1. /\ DOMAIN s.copies = 1 .. 2 /\ Flows(d, 1) = forth
          /\ FlowsOf(d, 1 .. 2) = forth \union back
      BY <1>1, <1>5, <1>6, <1>11, PairCopies DEF Agrees
    <2>2. /\ promise.launches = "writer" /\ Runs[key].prefer = "src" /\ Runs[key].value = "VECTOR"
          /\ \/ promise.reports = "to_peer" /\ promise.load = "from_peer"
             \/ promise.reports = "both_ways" /\ promise.load = "none"
      BY <1>11 DEF Agrees, Promise
    <2>3. \A i \in 1 .. 2 :
            IF promise.launches = "writer"
            THEN Runs[key].prefer = "src" \/ From(d, i).owner = To(d, i).owner
            ELSE Runs[key].prefer = "dst"
      BY <2>2
    <2>4. /\ \/ Promised(promise.reports, a, b) = Flows(d, 1)
             \/ Runs[key].value = "VECTOR" /\ Promised(promise.reports, a, b) = FlowsOf(d, 1 .. 2)
          /\ Promised(promise.load, a, b) \subseteq FlowsOf(d, 1 .. 2)
      BY <1>4, <2>1, <2>2
    <2>5. Delivers(promise, key, d, 2)
      BY <1>2, <2>2, <2>3, <2>4 DEF Delivers
    <2>6. QED
      BY <1>7, <2>1, <2>5, Keeping
  <1>12. QED
    BY <1>8, <1>9, <1>10, <1>11, PromiseTable

\* The n copies of a shape are from src to dst.
Copying(s, n, src, dst) ==
  /\ DOMAIN s.copies = 1 .. n
  /\ \A i \in 1 .. n :
       s.buffers[s.copies[i][1]] = src[i] /\ s.buffers[s.copies[i][2]] = dst[i]

LEMMA VectorCopies ==
  ASSUME NEW cell, NEW src, NEW dst, Len(src) \in Nat
  PROVE  /\ Vectors(cell, src, dst).cell = cell
         /\ Copying(Vectors(cell, src, dst), Len(src), src, dst)
  <1> DEFINE n == Len(src)
             s == Vectors(cell, src, dst)
  <1>1. /\ s.cell = cell
        /\ s.buffers = [i \in 1 .. 2 * n |-> IF i % 2 = 1 THEN src[(i + 1) \div 2] ELSE dst[i \div 2]]
        /\ s.copies = [i \in 1 .. n |-> <<2 * i - 1, 2 * i>>]
    BY DEF Vectors, Shape
  <1> HIDE DEF s, n
  <1>2. n \in Nat
    BY DEF n
  <1>3. ASSUME NEW c \in 1 .. n
        PROVE  /\ s.copies[c][1] = 2 * c - 1 /\ s.copies[c][2] = 2 * c
               /\ s.buffers[2 * c - 1] = src[c] /\ s.buffers[2 * c] = dst[c]
    <2>1. (2 * c - 1) % 2 = 1 /\ (2 * c) % 2 = 0 /\ (2 * c - 1 + 1) \div 2 = c /\ (2 * c) \div 2 = c
      BY <1>2
    <2>2. 2 * c - 1 \in 1 .. 2 * n /\ 2 * c \in 1 .. 2 * n
      BY <1>2
    <2>3. QED
      BY <1>1, <2>1, <2>2
  <1>4. DOMAIN s.copies = 1 .. n
    BY <1>1
  <1>5. Copying(s, n, src, dst)
    BY <1>3, <1>4 DEF Copying
  <1>6. QED
    BY <1>1, <1>5 DEF s, n

LEMMA CopyingRound ==
  ASSUME NEW p, NEW key, NEW s, NEW n, NEW src, NEW dst, Copying(s, n, src, dst),
         NEW d, d = MeasuredRound(p, key, s)
  PROVE  /\ d.cell = s.cell /\ DOMAIN s.copies = 1 .. n
         /\ \A i \in 1 .. n : From(d, i) = src[i] /\ To(d, i) = dst[i]
  <1>1. d.cell = s.cell /\ d.buffers = s.buffers /\ d.copies = s.copies
    BY DEF MeasuredRound, Round
  <1>2. QED
    BY <1>1 DEF Copying, From, To

LEMMA OthersAreAll ==
  ASSUME NEW size \in Nat, NEW d \in 0 .. size - 1
  PROVE  {Others(size, d)[i] : i \in 1 .. size - 1} = (0 .. size - 1) \ {d}
  <1>1. ASSUME NEW i \in 1 .. size - 1 PROVE Others(size, d)[i] \in (0 .. size - 1) \ {d}
    BY DEF Others
  <1>2. ASSUME NEW r \in (0 .. size - 1) \ {d}
        PROVE  \E i \in 1 .. size - 1 : Others(size, d)[i] = r
    <2>1. CASE r < d
      <3>1. r + 1 \in 1 .. size - 1 /\ r + 1 <= d /\ (r + 1) - 1 = r
        BY <2>1
      <3>2. Others(size, d)[r + 1] = r
        BY <3>1 DEF Others
      <3>3. QED
        BY <3>1, <3>2
    <2>2. CASE ~(r < d)
      <3>1. r \in 1 .. size - 1 /\ ~(r <= d)
        BY <2>2
      <3>2. Others(size, d)[r] = r
        BY <3>1 DEF Others
      <3>3. QED
        BY <3>1, <3>2
    <2>3. QED
      BY <2>1, <2>2
  <1>3. QED
    BY <1>1, <1>2

LEMMA ToOneKeeps ==
  ASSUME plan \in Plans, NEW key, NEW o \in Ranks,
         Agrees(key, "to_one", "src", "SUM", {Promise("inbound", "none", "writer")}),
         NEW s, s = ToOne(plan.size, o), NEW d, d = MeasuredRound(plan, key, s)
  PROVE  KeepsPromise(Promises[key], d, Values(d))
  <1> DEFINE n == plan.size - 1
             src == [i \in 1 .. n |-> Local(Others(plan.size, o)[i])]
             dst == [i \in 1 .. n |-> Unicast(o)]
             promise == Promises[key]
  <1>1. n \in Nat \ {0} /\ plan.size \in Nat
    <2>1. plan.size \in Nat /\ plan.size >= 2
      BY PlanFacts
    <2>2. QED
      BY <2>1
  <1>2. s = Vectors(<<0, o>>, src, dst)
    BY DEF ToOne
  <1>3. Len(src) = n
    <2>1. n \in Nat
      BY <1>1
    <2> HIDE DEF n
    <2>2. QED
      BY <2>1
  <1>4. \A i \in 1 .. n : src[i] = Local(Others(plan.size, o)[i]) /\ dst[i] = Unicast(o)
    OBVIOUS
  <1> HIDE DEF n, src, dst, promise
  <1>5. /\ d.cell = <<0, o>> /\ DOMAIN s.copies = 1 .. n
        /\ \A i \in 1 .. n : From(d, i) = src[i] /\ To(d, i) = dst[i]
    <2>1. Copying(s, n, src, dst) /\ s.cell = <<0, o>>
      BY <1>1, <1>2, <1>3, VectorCopies
    <2>2. QED
      BY <2>1, CopyingRound
  <1>6. \A i \in 1 .. n : Flows(d, i) = {<<Others(plan.size, o)[i], o>>}
    <2> TAKE i \in 1 .. n
    <2>1. From(d, i) = Local(Others(plan.size, o)[i]) /\ To(d, i) = Unicast(o)
      BY <1>4, <1>5
    <2>2. From(d, i).owner = Others(plan.size, o)[i]
      BY <2>1 DEF Local
    <2>3. QED
      BY <2>1, <2>2, FlowsAre
  <1>7. FlowsOf(d, 1 .. n) = (Ranks \ {o}) \X {o}
    <2>1. {Others(plan.size, o)[i] : i \in 1 .. n} = Ranks \ {o}
      BY <1>1, OthersAreAll DEF n, Ranks
    <2>2. FlowsOf(d, 1 .. n) = {<<Others(plan.size, o)[i], o>> : i \in 1 .. n}
      BY <1>6 DEF FlowsOf
    <2>3. QED
      BY <2>1, <2>2
  <1>8. /\ promise.reports = "inbound" /\ promise.load = "none" /\ promise.launches = "writer"
        /\ Runs[key].prefer = "src" /\ Runs[key].value = "SUM"
    BY DEF Agrees, Promise, promise
  <1>9. d.cell[2] = o
    BY <1>5
  <1>10. Delivers(promise, key, d, n)
    BY <1>7, <1>8, <1>9 DEF Delivers, Promised
  <1>11. QED
    BY <1>1, <1>5, <1>10, Keeping DEF promise

LEMMA FromOneKeeps ==
  ASSUME plan \in Plans, NEW key, NEW o \in Ranks,
         Agrees(key, "from_one", "dst", "SUM", {Promise("outbound", "none", "reader")}),
         NEW s, s = FromOne(plan.size, o), NEW d, d = MeasuredRound(plan, key, s)
  PROVE  KeepsPromise(Promises[key], d, Values(d))
  <1> DEFINE n == plan.size - 1
             src == [i \in 1 .. n |-> Unicast(o)]
             dst == [i \in 1 .. n |-> Local(Others(plan.size, o)[i])]
             promise == Promises[key]
  <1>1. n \in Nat \ {0} /\ plan.size \in Nat
    <2>1. plan.size \in Nat /\ plan.size >= 2
      BY PlanFacts
    <2>2. QED
      BY <2>1
  <1>2. s = Vectors(<<0, o>>, src, dst)
    BY DEF FromOne
  <1>3. Len(src) = n
    <2>1. n \in Nat
      BY <1>1
    <2> HIDE DEF n
    <2>2. QED
      BY <2>1
  <1>4. \A i \in 1 .. n : src[i] = Unicast(o) /\ dst[i] = Local(Others(plan.size, o)[i])
    OBVIOUS
  <1> HIDE DEF n, src, dst, promise
  <1>5. /\ d.cell = <<0, o>> /\ DOMAIN s.copies = 1 .. n
        /\ \A i \in 1 .. n : From(d, i) = src[i] /\ To(d, i) = dst[i]
    <2>1. Copying(s, n, src, dst) /\ s.cell = <<0, o>>
      BY <1>1, <1>2, <1>3, VectorCopies
    <2>2. QED
      BY <2>1, CopyingRound
  <1>6. \A i \in 1 .. n : Flows(d, i) = {<<o, Others(plan.size, o)[i]>>}
    <2> TAKE i \in 1 .. n
    <2>1. From(d, i).owner = o /\ To(d, i) = Local(Others(plan.size, o)[i])
      BY <1>4, <1>5 DEF Unicast
    <2>2. QED
      BY <2>1, FlowsAre
  <1>7. FlowsOf(d, 1 .. n) = {o} \X (Ranks \ {o})
    <2>1. {Others(plan.size, o)[i] : i \in 1 .. n} = Ranks \ {o}
      BY <1>1, OthersAreAll DEF n, Ranks
    <2>2. FlowsOf(d, 1 .. n) = {<<o, Others(plan.size, o)[i]>> : i \in 1 .. n}
      BY <1>6 DEF FlowsOf
    <2>3. QED
      BY <2>1, <2>2
  <1>8. /\ promise.reports = "outbound" /\ promise.load = "none" /\ promise.launches = "reader"
        /\ Runs[key].prefer = "dst" /\ Runs[key].value = "SUM"
    BY DEF Agrees, Promise, promise
  <1>9. d.cell[2] = o
    BY <1>5
  <1>10. Delivers(promise, key, d, n)
    BY <1>7, <1>8, <1>9 DEF Delivers, Promised
  <1>11. QED
    BY <1>1, <1>5, <1>10, Keeping DEF promise

LEMMA BroadcastOneKeeps ==
  ASSUME NEW p, NEW key, NEW o,
         Agrees(key, "broadcast_one", "dst", "SUM", {Promise("to_all", "none", "writer")}),
         NEW s, s = BroadcastOne(o), NEW d, d = MeasuredRound(p, key, s)
  PROVE  KeepsPromise(Promises[key], d, Values(d))
  <1> DEFINE promise == Promises[key]
  <1>1. 1 \in Nat \ {0} /\ 1 .. 1 = {1}
    OBVIOUS
  <1>2. s = Vectors(<<0, o>>, <<Local(o)>>, <<Multicast(o)>>)
    BY DEF BroadcastOne
  <1>3. Len(<<Local(o)>>) = 1
    OBVIOUS
  <1>4. <<Local(o)>>[1] = Local(o) /\ <<Multicast(o)>>[1] = Multicast(o)
    OBVIOUS
  <1> HIDE DEF promise
  <1>5. /\ d.cell = <<0, o>> /\ DOMAIN s.copies = 1 .. 1
        /\ From(d, 1) = Local(o) /\ To(d, 1) = Multicast(o)
    <2>1. Copying(s, 1, <<Local(o)>>, <<Multicast(o)>>) /\ s.cell = <<0, o>>
      BY <1>1, <1>2, <1>3, VectorCopies
    <2>2. /\ d.cell = s.cell /\ DOMAIN s.copies = 1 .. 1
          /\ \A i \in 1 .. 1 : From(d, i) = <<Local(o)>>[i] /\ To(d, i) = <<Multicast(o)>>[i]
      BY <2>1, CopyingRound
    <2>3. QED
      BY <1>1, <1>4, <2>1, <2>2
  <1>6. From(d, 1).owner = o /\ To(d, 1).owner = o
    BY <1>5 DEF Local, Multicast
  <1>7. FlowsOf(d, 1 .. 1) = {o} \X Ranks
    <2>1. Flows(d, 1) = {o} \X Ranks
      BY <1>5, <1>6, FlowsAre
    <2>2. QED
      BY <1>1, <2>1 DEF FlowsOf
  <1>8. /\ promise.reports = "to_all" /\ promise.load = "none" /\ promise.launches = "writer"
        /\ Runs[key].prefer = "dst" /\ Runs[key].value = "SUM"
    BY DEF Agrees, Promise, promise
  <1>9. d.cell[2] = o
    BY <1>5
  <1>10. Delivers(promise, key, d, 1)
    BY <1>1, <1>6, <1>7, <1>8, <1>9 DEF Delivers, Promised
  <1>11. QED
    BY <1>1, <1>5, <1>10, Keeping DEF promise

LEMMA BroadcastAllKeeps ==
  ASSUME plan \in Plans, NEW key,
         Agrees(key, "broadcast_all", "dst", "SUM", {Promise("all_to_all", "none", "writer")}),
         NEW s, s = BroadcastAll(plan.size), NEW d, d = MeasuredRound(plan, key, s)
  PROVE  KeepsPromise(Promises[key], d, Values(d))
  <1> DEFINE n == plan.size
             src == [i \in 1 .. n |-> Local(i - 1)]
             dst == [i \in 1 .. n |-> Multicast(i - 1)]
             promise == Promises[key]
  <1>1. n \in Nat \ {0}
    <2>1. plan.size \in Nat /\ plan.size >= 2
      BY PlanFacts
    <2>2. QED
      BY <2>1
  <1>2. s = Vectors(<<0, 0>>, src, dst)
    BY DEF BroadcastAll
  <1>3. Len(src) = n
    <2>1. n \in Nat
      BY <1>1
    <2> HIDE DEF n
    <2>2. QED
      BY <2>1
  <1>4. \A i \in 1 .. n : src[i] = Local(i - 1) /\ dst[i] = Multicast(i - 1)
    OBVIOUS
  <1> HIDE DEF n, src, dst, promise
  <1>5. /\ DOMAIN s.copies = 1 .. n
        /\ \A i \in 1 .. n : From(d, i) = src[i] /\ To(d, i) = dst[i]
    <2>1. Copying(s, n, src, dst) /\ s.cell = <<0, 0>>
      BY <1>1, <1>2, <1>3, VectorCopies
    <2>2. QED
      BY <2>1, CopyingRound
  <1>6. \A i \in 1 .. n : From(d, i).owner = i - 1 /\ To(d, i).owner = i - 1
    <2>1. \A i \in 1 .. n : From(d, i) = Local(i - 1) /\ To(d, i) = Multicast(i - 1)
      BY <1>4, <1>5
    <2>2. \A b : Local(b).owner = b /\ Multicast(b).owner = b
      BY DEF Local, Multicast
    <2>3. QED
      BY <2>1, <2>2
  <1>7. FlowsOf(d, 1 .. n) = Ranks \X Ranks
    <2>1. \A i \in 1 .. n : Flows(d, i) = {i - 1} \X Ranks
      BY <1>4, <1>5, <1>6, FlowsAre
    <2>2. FlowsOf(d, 1 .. n) = UNION {{i - 1} \X Ranks : i \in 1 .. n}
      BY <2>1 DEF FlowsOf
    <2>3. \A r \in Ranks : r + 1 \in 1 .. n /\ (r + 1) - 1 = r
      BY <1>1 DEF n, Ranks
    <2>4. \A i \in 1 .. n : i - 1 \in Ranks
      BY <1>1 DEF n, Ranks
    <2>5. QED
      BY <2>2, <2>3, <2>4
  <1>8. /\ promise.reports = "all_to_all" /\ promise.load = "none" /\ promise.launches = "writer"
        /\ Runs[key].prefer = "dst" /\ Runs[key].value = "SUM"
    BY DEF Agrees, Promise, promise
  <1>9. Delivers(promise, key, d, n)
    BY <1>6, <1>7, <1>8 DEF Delivers, Promised
  <1>10. QED
    BY <1>1, <1>5, <1>9, Keeping DEF promise

LEMMA Remainders ==
  ASSUME NEW n \in Nat \ {0}, NEW x \in 0 .. 2 * n - 1
  PROVE  (x < n => x % n = x) /\ (~(x < n) => x % n = x - n)
  <1>1. CASE x < n
    <2>1. x \in 0 .. n - 1
      BY <1>1
    <2>2. QED
      BY <2>1
  <1>2. CASE ~(x < n)
    <2>1. x \in n .. 2 * n - 1
      BY <1>2
    <2>2. x % n = x - n
      BY <2>1
    <2>3. QED
      BY <1>2, <2>2
  <1>3. QED
    BY <1>1, <1>2

\* Half way round an even ring, twice, is home.
LEMMA HalfTurns ==
  ASSUME NEW n \in Nat \ {0}, n % 2 = 0, NEW a \in 0 .. n - 1
  PROVE  /\ (a + n \div 2) % n \in 0 .. n - 1
         /\ (((a + n \div 2) % n) + n \div 2) % n = a
  <1> DEFINE h == n \div 2
             b == IF a < h THEN a + h ELSE a - h
  <1>1. h \in Nat /\ n = h + h
    OBVIOUS
  <1> HIDE DEF h
  <1>2. b \in 0 .. n - 1 /\ (a < h => b = a + h) /\ (~(a < h) => b = a - h)
    BY <1>1
  <1> HIDE DEF b
  <1>3. (a + h) % n = b
    <2>1. a + h \in 0 .. 2 * n - 1
      BY <1>1
    <2> DEFINE x == a + h
    <2> HIDE DEF x
    <2>2. (x < n => x % n = x) /\ (~(x < n) => x % n = x - n)
      BY <2>1, Remainders DEF x
    <2>3. QED
      BY <1>1, <1>2, <2>2 DEF x
  <1>4. (b + h) % n = a
    <2>1. b + h \in 0 .. 2 * n - 1
      BY <1>1, <1>2
    <2> DEFINE x == b + h
    <2> HIDE DEF x
    <2>2. (x < n => x % n = x) /\ (~(x < n) => x % n = x - n)
      BY <2>1, Remainders DEF x
    <2>3. QED
      BY <1>1, <1>2, <2>2 DEF x
  <1>5. QED
    BY <1>2, <1>3, <1>4 DEF h

LEMMA BisectKeeps ==
  ASSUME plan \in Plans, plan.size % 2 = 0, NEW key,
         Agrees(key, "bisect", "src", "VECTOR", {Promise("bisection", "none", "writer")}),
         NEW s, s = Bisect(plan.size), NEW d, d = MeasuredRound(plan, key, s)
  PROVE  KeepsPromise(Promises[key], d, Values(d))
  <1> DEFINE n == plan.size
             Over(a) == (a + n \div 2) % n
             src == [i \in 1 .. n |-> Unicast(i - 1)]
             dst == [i \in 1 .. n |-> Unicast((i - 1 + n \div 2) % n)]
             there == Vectors(<<0, 0>>, src, dst)
             promise == Promises[key]
  <1>1. n \in Nat \ {0} /\ Ranks = 0 .. n - 1
    <2>1. plan.size \in Nat /\ plan.size >= 2
      BY PlanFacts
    <2>2. QED
      BY <2>1 DEF Ranks
  <1>2. \A i \in 1 .. n : src[i] = Unicast(i - 1) /\ dst[i] = Unicast(Over(i - 1))
    OBVIOUS
  <1>3. s = [there EXCEPT !.copies = [i \in 1 .. n |-> <<2 * i, 2 * i - 1>>]]
    BY DEF Bisect
  <1>4. Len(src) = n
    <2>1. n \in Nat
      BY <1>1
    <2> HIDE DEF n
    <2>2. QED
      BY <2>1
  <1>5. \A a \in Ranks : Over(a) \in Ranks /\ Over(Over(a)) = a
    BY <1>1, HalfTurns
  <1> HIDE DEF n, Over, src, dst, promise
  <1>6. Copying(s, n, dst, src)
    <2>1. Copying(there, n, src, dst)
      BY <1>1, <1>4, VectorCopies
    <2>2. there.copies = [i \in 1 .. n |-> <<2 * i - 1, 2 * i>>]
      BY <1>4 DEF Vectors, Shape
    <2>3. s.buffers = there.buffers /\ s.copies = [i \in 1 .. n |-> <<2 * i, 2 * i - 1>>]
      BY <1>3 DEF Vectors, Shape
    <2> HIDE DEF there
    <2>4. \A i \in 1 .. n :
            s.copies[i][1] = there.copies[i][2] /\ s.copies[i][2] = there.copies[i][1]
      BY <2>2, <2>3
    <2>5. DOMAIN s.copies = 1 .. n
      BY <2>3
    <2>6. QED
      BY <2>1, <2>3, <2>4, <2>5 DEF Copying
  <1>7. /\ DOMAIN s.copies = 1 .. n
        /\ \A i \in 1 .. n : From(d, i) = Unicast(Over(i - 1)) /\ To(d, i) = Unicast(i - 1)
    BY <1>2, <1>6, CopyingRound
  <1>8. \A i \in 1 .. n : Flows(d, i) = {<<Over(i - 1), i - 1>>}
    <2> TAKE i \in 1 .. n
    <2>1. Unicast(Over(i - 1)).owner = Over(i - 1)
      BY DEF Unicast
    <2>2. QED
      BY <1>7, <2>1, FlowsAre
  <1>9. FlowsOf(d, 1 .. n) = {<<a, Over(a)>> : a \in Ranks}
    <2>1. FlowsOf(d, 1 .. n) = {<<Over(i - 1), i - 1>> : i \in 1 .. n}
      BY <1>8 DEF FlowsOf
    <2>2. ASSUME NEW i \in 1 .. n
          PROVE  <<Over(i - 1), i - 1>> \in {<<a, Over(a)>> : a \in Ranks}
      <3>1. i - 1 \in Ranks
        BY <1>1
      <3>2. Over(i - 1) \in Ranks /\ Over(Over(i - 1)) = i - 1
        BY <1>5, <3>1
      <3>3. QED
        BY <3>2
    <2>3. ASSUME NEW a \in Ranks
          PROVE  <<a, Over(a)>> \in {<<Over(i - 1), i - 1>> : i \in 1 .. n}
      <3>1. Over(a) + 1 \in 1 .. n /\ (Over(a) + 1) - 1 = Over(a) /\ Over(Over(a)) = a
        BY <1>1, <1>5, SMTT(30)
      <3> DEFINE j == Over(a) + 1
      <3>2. <<a, Over(a)>> = <<Over(j - 1), j - 1>> /\ j \in 1 .. n
        BY <3>1
      <3>3. QED
        BY <3>2
    <2>4. QED
      BY <2>1, <2>2, <2>3
  <1>10. /\ promise.reports = "bisection" /\ promise.load = "none" /\ promise.launches = "writer"
         /\ Runs[key].prefer = "src" /\ Runs[key].value = "VECTOR"
    BY DEF Agrees, Promise, promise
  <1>11. Delivers(promise, key, d, n)
    <2>1. Promised("bisection", d.cell[1], d.cell[2]) = {<<a, Over(a)>> : a \in Ranks}
      BY DEF Promised, Over, n
    <2>2. Promised("none", d.cell[1], d.cell[2]) = {}
      BY DEF Promised
    <2>3. QED
      BY <1>9, <1>10, <2>1, <2>2 DEF Delivers
  <1>12. QED
    BY <1>1, <1>7, <1>11, Keeping DEF promise

\* Every round keeps the promise of its testcase, but the bisection of an odd
\* number of ranks.
LEMMA RoundKeeps ==
  ASSUME plan \in Plans, NEW t \in DOMAIN plan.keys,
         Runs[plan.keys[t]].shape = "bisect" => plan.size % 2 = 0,
         NEW k \in DOMAIN Table[plan][t], k # 1
  PROVE  KeepsPromise(Promises[plan.keys[t]], Table[plan][t][k], Values(Table[plan][t][k]))
  <1> DEFINE key == plan.keys[t]
             n == plan.size
             i == k - 1
             s == Shapes(plan, key)[i]
             d == Table[plan][t][k]
  <1>1. key \in DOMAIN Runs /\ i \in DOMAIN Shapes(plan, key) /\ d = MeasuredRound(plan, key, s)
    BY RoundIs
  <1>2. n \in Nat /\ plan.pairs \in Seq({ab \in RanksOf(plan) \X RanksOf(plan) : ab[1] # ab[2]})
    BY PlanFacts
  <1>3. \A j \in 1 .. n : j - 1 \in Ranks
    BY <1>2 DEF Ranks
  <1> HIDE DEF key, n, d, i
  <1>4. CASE Sampled(key)
    <2>1. Runs[key].shape \in {"read", "write", "both_read", "both_write"}
      BY <1>1, <1>4, RunTable
    <2>2. Shapes(plan, key) = [j \in DOMAIN plan.pairs |-> PairShape(Runs[key].shape, plan.pairs[j])]
      BY <1>4, <2>1 DEF Shapes
    <2>3. /\ i \in DOMAIN plan.pairs /\ s = PairShape(Runs[key].shape, plan.pairs[i])
      BY <1>1, <2>2
    <2>4. plan.pairs[i] \in RanksOf(plan) \X RanksOf(plan)
      BY <1>2, <2>3
    <2> HIDE DEF s
    <2>5. KeepsPromise(Promises[key], d, Values(d))
      BY <1>1, <1>4, <2>3, <2>4, PairKeeps
    <2>6. QED
      BY <2>5 DEF key, d
  <1>5. CASE ~Sampled(key)
    <2>1. \/ Agrees(key, "to_one", "src", "SUM", {Promise("inbound", "none", "writer")})
          \/ Agrees(key, "from_one", "dst", "SUM", {Promise("outbound", "none", "reader")})
          \/ Agrees(key, "broadcast_one", "dst", "SUM", {Promise("to_all", "none", "writer")})
          \/ Agrees(key, "broadcast_all", "dst", "SUM", {Promise("all_to_all", "none", "writer")})
          \/ Agrees(key, "bisect", "src", "VECTOR", {Promise("bisection", "none", "writer")})
      BY <1>1, <1>5, PromiseTable
    <2>2. CASE Agrees(key, "to_one", "src", "SUM", {Promise("inbound", "none", "writer")})
      <3>1. Shapes(plan, key) = [j \in 1 .. n |-> ToOne(n, j - 1)]
        BY <1>5, <2>2 DEF Agrees, Shapes, n
      <3>2. i - 1 \in Ranks /\ s = ToOne(n, i - 1)
        BY <1>1, <1>3, <3>1
      <3> HIDE DEF s
      <3>3. QED
        BY <1>1, <2>2, <3>2, ToOneKeeps DEF n, d, key
    <2>3. CASE Agrees(key, "from_one", "dst", "SUM", {Promise("outbound", "none", "reader")})
      <3>1. Shapes(plan, key) = [j \in 1 .. n |-> FromOne(n, j - 1)]
        BY <1>5, <2>3 DEF Agrees, Shapes, n
      <3>2. i - 1 \in Ranks /\ s = FromOne(n, i - 1)
        BY <1>1, <1>3, <3>1
      <3> HIDE DEF s
      <3>3. QED
        BY <1>1, <2>3, <3>2, FromOneKeeps DEF n, d, key
    <2>4. CASE Agrees(key, "broadcast_one", "dst", "SUM", {Promise("to_all", "none", "writer")})
      <3>1. Shapes(plan, key) = [j \in 1 .. n |-> BroadcastOne(j - 1)]
        BY <1>5, <2>4 DEF Agrees, Shapes, n
      <3>2. s = BroadcastOne(i - 1)
        BY <1>1, <3>1
      <3> HIDE DEF s
      <3>3. QED
        BY <1>1, <2>4, <3>2, BroadcastOneKeeps DEF d, key
    <2>5. CASE Agrees(key, "broadcast_all", "dst", "SUM", {Promise("all_to_all", "none", "writer")})
      <3>1. Shapes(plan, key) = <<BroadcastAll(n)>>
        BY <1>5, <2>5 DEF Agrees, Shapes, n
      <3>2. s = BroadcastAll(n)
        BY <1>1, <3>1
      <3> HIDE DEF s
      <3>3. QED
        BY <1>1, <2>5, <3>2, BroadcastAllKeeps DEF n, d, key
    <2>6. CASE Agrees(key, "bisect", "src", "VECTOR", {Promise("bisection", "none", "writer")})
      <3>1. Shapes(plan, key) = <<Bisect(n)>> /\ n % 2 = 0
        BY <1>5, <2>6 DEF Agrees, Shapes, n, key
      <3>2. s = Bisect(n)
        BY <1>1, <3>1
      <3> HIDE DEF s
      <3>3. QED
        BY <1>1, <2>6, <3>1, <3>2, BisectKeeps DEF n, d, key
    <2>7. QED
      BY <2>1, <2>2, <2>3, <2>4, <2>5, <2>6
  <1>6. QED
    BY <1>4, <1>5

\* A system that runs the bisection has an even number of ranks.  (Twice half way
\* round an odd ring does not lead home: the copies, which go backwards, are then
\* not those that the description of the testcase names.)
EvenBisections ==
  \A t \in DOMAIN plan.keys : Runs[plan.keys[t]].shape = "bisect" => plan.size % 2 = 0

\* If a round throws on all ranks or on none, then every rank ends every testcase
\* that did not throw with a cell for each of its rounds, and the values in it
\* are those of the traffic that the description of the testcase names, measured
\* where it says: whichever rank executed the copies, and however far behind it
\* the others are.
THEOREM MatrixKeeps == Spec => [](Together /\ EvenBisections => MatrixKeepsItsPromise)
  <1>1. LocalInv /\ FilledInv /\ EvenBisections => MatrixKeepsItsPromise
    <2> SUFFICES ASSUME LocalInv, FilledInv, EvenBisections, NEW r \in Ranks, NEW t \in Through(r)
                 PROVE  /\ Seen(cells[r], t) = 2 .. Len(Rounds(t))
                        /\ \A n \in DOMAIN cells[r] :
                             cells[r][n].test = t =>
                               KeepsPromise(Promises[plan.keys[t]],
                                            Rounds(t)[cells[r][n].round], cells[r][n].values)
      BY DEF MatrixKeepsItsPromise, Seen
    <2>1. /\ plan \in Plans /\ t \in DOMAIN plan.keys /\ t < at[r].test /\ Quietly(plan, t)
          /\ Rounds(t) = Table[plan][t]
      BY DEF Through, Quietly, Rounds, LocalInv
    <2>2. /\ cells[r] \in Seq(CellsOf(plan))
          /\ Seen(cells[r], t) = Filled(plan, at[r], t)
      BY <2>1 DEF FilledInv, FilledAt
    <2>3. Filled(plan, at[r], t) = 2 .. Len(Rounds(t))
      BY <2>1 DEF Filled
    <2>4. ASSUME NEW n \in DOMAIN cells[r], cells[r][n].test = t
          PROVE  KeepsPromise(Promises[plan.keys[t]],
                              Rounds(t)[cells[r][n].round], cells[r][n].values)
      <3>1. cells[r][n] \in CellsOf(plan)
        BY <2>2, <2>4
      <3>2. PICK u \in DOMAIN plan.keys : \E k \in DOMAIN Table[plan][u] \ {1} :
              cells[r][n] = CellOf(plan, u, k)
        BY <3>1 DEF CellsOf
      <3>3. PICK k \in DOMAIN Table[plan][u] \ {1} : cells[r][n] = CellOf(plan, u, k)
        BY <3>2
      <3>4. /\ u = t /\ cells[r][n].round = k
            /\ cells[r][n].values = Values(Table[plan][t][k])
        BY <2>4, <3>3 DEF CellOf
      <3>5. KeepsPromise(Promises[plan.keys[t]], Table[plan][t][k], Values(Table[plan][t][k]))
        BY <2>1, <3>3, <3>4, RoundKeeps DEF EvenBisections
      <3>6. QED
        BY <2>1, <3>4, <3>5
    <2>5. QED
      BY <2>2, <2>3, <2>4
  <1>2. QED
    BY <1>1, FilledInvariant, PTL
===============================================================================
