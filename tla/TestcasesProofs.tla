---------------------------- MODULE TestcasesProofs ----------------------------
(***************************************************************************)
(* Theorems about Testcases: for every machine, number of GPUs and command *)
(* line, a testcase frees what it allocates, its copies reach the memory   *)
(* they copy, and its matrix is what testcase.h says of it.                *)
(*                                                                         *)
(* The inductive invariant says where the loops of run() are, which pairs  *)
(* of buffers they have prepared, which buffers are allocated, and which   *)
(* cells of the matrix are filled.                                         *)
(***************************************************************************)
EXTENDS Testcases, SequenceTheorems, TLAPS

(***************************************************************************)
(* The tables of the testcases.                                            *)
(***************************************************************************)
Entry(k, loop, copies, engines, prefers, value) ==
  /\ Tests[k].loop = loop /\ Tests[k].copies = copies /\ Tests[k].engine \in engines
  /\ Tests[k].prefer \in prefers /\ Tests[k].value = value

Says(k, reports, load, launches) ==
  Declared[k].reports = reports /\ Declared[k].load = load /\ Declared[k].launches = launches

RowEntry(k) ==
  \/ /\ Entry(k, "row", "H2D", {"CE", "SM"}, {"src"}, "FIRST")
     /\ Says(k, "to_device", "none", "any")
  \/ /\ Entry(k, "row", "D2H", {"CE", "SM"}, {"src"}, "FIRST")
     /\ Says(k, "to_host", "none", "any")
  \/ /\ Entry(k, "row", "H2D_D2H", {"CE"}, {"src"}, "FIRST")
     /\ Says(k, "to_device", "to_host", "any")
  \/ /\ Entry(k, "row", "D2H_H2D", {"CE"}, {"src"}, "FIRST")
     /\ Says(k, "to_host", "to_device", "any")
  \/ /\ Entry(k, "row", "H2D", {"split"}, {"src"}, "FIRST")
     /\ Says(k, "to_device", "to_host", "any") \/ Says(k, "to_host", "to_device", "any")
  \/ Entry(k, "row", "local", {"CE"}, {"src"}, "FIRST") /\ Says(k, "local", "none", "any")
  \/ /\ Entry(k, "row", "chase", {"latency", "bandwidth"}, {"src"}, "FIRST")
     /\ Says(k, "to_device", "none", "any")

AllRowEntry(k) ==
  \/ /\ Entry(k, "row", "all_H2D", {"CE", "SM"}, {"src"}, "FIRST")
     /\ Says(k, "to_device", "host_to_others", "any")
  \/ /\ Entry(k, "row", "all_D2H", {"CE", "SM"}, {"src"}, "FIRST")
     /\ Says(k, "to_host", "others_to_host", "any")
  \/ /\ Entry(k, "row", "all_H2D_D2H", {"CE"}, {"src"}, "FIRST")
     /\ Says(k, "to_device", "all_both_ways", "any")
  \/ /\ Entry(k, "row", "all_D2H_H2D", {"CE"}, {"src"}, "FIRST")
     /\ Says(k, "to_host", "all_both_ways", "any")
  \/ /\ Entry(k, "row", "all_H2D_split", {"split"}, {"src"}, "FIRST")
     /\ Says(k, "to_device", "all_both_ways", "any")
  \/ /\ Entry(k, "row", "all_D2H_split", {"split"}, {"src"}, "FIRST")
     /\ Says(k, "to_host", "all_both_ways", "any")

PairEntry(k) ==
  \/ /\ Entry(k, "pair", "read", {"CE", "SM"}, {"dst"}, "FIRST")
     /\ Says(k, "from_peer", "none", "reader")
  \/ /\ Entry(k, "pair", "write", {"CE", "SM"}, {"src"}, "FIRST")
     /\ Says(k, "to_peer", "none", "writer")
  \/ /\ Entry(k, "pair", "both", {"CE", "SM"}, {"dst"}, "VECTOR")
     /\ Says(k, "from_peer", "to_peer", "reader") \/ Says(k, "both_ways", "none", "reader")
  \/ /\ Entry(k, "pair", "both", {"CE", "SM"}, {"src"}, "VECTOR")
     /\ Says(k, "to_peer", "from_peer", "writer") \/ Says(k, "both_ways", "none", "writer")

PeerEntry(k) ==
  /\ Entry(k, "peer", "chase", {"latency"}, {"dst"}, "FIRST")
  /\ Says(k, "from_peer", "none", "reader")

ReadsBy(k) == IF k \in SourceContextReads THEN {"src"} ELSE {"dst"}

GatherEntry(k) ==
  \/ /\ Entry(k, "to_one", "write", {"CE", "SM"}, {"src"}, "TOTAL")
     /\ Says(k, "inbound", "none", "writer")
  \/ /\ Entry(k, "to_one", "read", {"CE", "SM"}, ReadsBy(k), "TOTAL")
     /\ Says(k, "outbound", "none", "reader")
  \/ /\ Entry(k, "to_all", "write", {"CE", "SM"}, {"src"}, "TOTAL")
     /\ Says(k, "outbound", "none", "writer")
  \/ /\ Entry(k, "to_all", "read", {"CE", "SM"}, ReadsBy(k), "TOTAL")
     /\ Says(k, "inbound", "none", "reader")

LEMMA TestsOf ==
  /\ \A k \in DOMAIN HostTestsCE : Tests[k] = HostTestsCE[k]
  /\ \A k \in DOMAIN PairTestsCE : Tests[k] = PairTestsCE[k]
  /\ \A k \in DOMAIN AllTestsCE : Tests[k] = AllTestsCE[k]
  /\ \A k \in DOMAIN HostTestsSM : Tests[k] = HostTestsSM[k]
  /\ \A k \in DOMAIN PairTestsSM : Tests[k] = PairTestsSM[k]
  /\ \A k \in DOMAIN AllTestsSM : Tests[k] = AllTestsSM[k]
  <1>1. \A k \in DOMAIN PairTestsCE : k \notin DOMAIN HostTestsCE
    BY DEF PairTestsCE, HostTestsCE
  <1>2. \A k \in DOMAIN AllTestsCE : k \notin DOMAIN HostTestsCE \union DOMAIN PairTestsCE
    BY DEF PairTestsCE, HostTestsCE, AllTestsCE
  <1>3. \A k \in DOMAIN HostTestsSM :
          k \notin DOMAIN HostTestsCE \union DOMAIN PairTestsCE \union DOMAIN AllTestsCE
    BY DEF PairTestsCE, HostTestsCE, AllTestsCE, HostTestsSM
  <1>4. \A k \in DOMAIN PairTestsSM :
          k \notin DOMAIN HostTestsCE \union DOMAIN PairTestsCE \union DOMAIN AllTestsCE
                   \union DOMAIN HostTestsSM
    BY DEF PairTestsCE, HostTestsCE, AllTestsCE, HostTestsSM, PairTestsSM
  <1>5. \A k \in DOMAIN AllTestsSM :
          k \notin DOMAIN HostTestsCE \union DOMAIN PairTestsCE \union DOMAIN AllTestsCE
                   \union DOMAIN HostTestsSM \union DOMAIN PairTestsSM
    BY DEF PairTestsCE, HostTestsCE, AllTestsCE, HostTestsSM, PairTestsSM, AllTestsSM
  <1>6. QED
    BY <1>1, <1>2, <1>3, <1>4, <1>5 DEF Tests, ++

LEMMA DeclaredOf ==
  /\ \A k \in DOMAIN HostCopies : Declared[k] = HostCopies[k]
  /\ \A k \in DOMAIN PairsCE : Declared[k] = PairsCE[k]
  /\ \A k \in DOMAIN LocalAndAllCE : Declared[k] = LocalAndAllCE[k]
  /\ \A k \in DOMAIN OneAndAllCE : Declared[k] = OneAndAllCE[k]
  /\ \A k \in DOMAIN HostAccessSM : Declared[k] = HostAccessSM[k]
  /\ \A k \in DOMAIN PairsSM : Declared[k] = PairsSM[k]
  /\ \A k \in DOMAIN AllHostSM : Declared[k] = AllHostSM[k]
  /\ \A k \in DOMAIN OneAndAllSM : Declared[k] = OneAndAllSM[k]
  <1>1. \A k \in DOMAIN PairsCE :
          k \notin DOMAIN HostCopies
    BY DEF HostCopies, PairsCE
  <1>2. \A k \in DOMAIN LocalAndAllCE :
          k \notin DOMAIN HostCopies \union DOMAIN PairsCE
    BY DEF HostCopies, PairsCE, LocalAndAllCE
  <1>3. \A k \in DOMAIN OneAndAllCE :
          k \notin DOMAIN HostCopies \union DOMAIN PairsCE \union DOMAIN LocalAndAllCE
    BY DEF HostCopies, PairsCE, LocalAndAllCE, OneAndAllCE
  <1>4. \A k \in DOMAIN HostAccessSM :
          k \notin DOMAIN HostCopies \union DOMAIN PairsCE \union DOMAIN LocalAndAllCE
                   \union DOMAIN OneAndAllCE
    BY DEF HostCopies, PairsCE, LocalAndAllCE, OneAndAllCE, HostAccessSM
  <1>5. \A k \in DOMAIN PairsSM :
          k \notin DOMAIN HostCopies \union DOMAIN PairsCE \union DOMAIN LocalAndAllCE
                   \union DOMAIN OneAndAllCE \union DOMAIN HostAccessSM
    BY DEF HostCopies, PairsCE, LocalAndAllCE, OneAndAllCE, HostAccessSM, PairsSM
  <1>6. \A k \in DOMAIN AllHostSM :
          k \notin DOMAIN HostCopies \union DOMAIN PairsCE \union DOMAIN LocalAndAllCE
                   \union DOMAIN OneAndAllCE \union DOMAIN HostAccessSM \union DOMAIN PairsSM
    BY DEF HostCopies, PairsCE, LocalAndAllCE, OneAndAllCE, HostAccessSM, PairsSM, AllHostSM
  <1>7. \A k \in DOMAIN OneAndAllSM :
          k \notin DOMAIN HostCopies \union DOMAIN PairsCE \union DOMAIN LocalAndAllCE
                   \union DOMAIN OneAndAllCE \union DOMAIN HostAccessSM \union DOMAIN PairsSM
                   \union DOMAIN AllHostSM
    BY DEF HostCopies, PairsCE, LocalAndAllCE, OneAndAllCE, HostAccessSM, PairsSM, AllHostSM,
        OneAndAllSM
  <1> DEFINE E(f, g) == \A k \in DOMAIN g : f[k] = g[k]
             F4 == HostCopies ++ PairsCE ++ LocalAndAllCE ++ OneAndAllCE
             F6 == F4 ++ HostAccessSM ++ PairsSM
  <1>8. /\ DOMAIN F4 = DOMAIN HostCopies \union DOMAIN PairsCE \union DOMAIN LocalAndAllCE
                       \union DOMAIN OneAndAllCE
        /\ E(F4, HostCopies) /\ E(F4, PairsCE) /\ E(F4, LocalAndAllCE) /\ E(F4, OneAndAllCE)
    BY <1>1, <1>2, <1>3 DEF ++
  <1> HIDE DEF F4
  <1>9. /\ DOMAIN F6 = DOMAIN F4 \union DOMAIN HostAccessSM \union DOMAIN PairsSM
        /\ E(F6, F4) /\ E(F6, HostAccessSM) /\ E(F6, PairsSM)
    BY <1>4, <1>5, <1>8 DEF ++
  <1>10. Declared = F6 ++ AllHostSM ++ OneAndAllSM
    BY DEF Declared, F4
  <1> HIDE DEF F6
  <1>11. E(Declared, F6) /\ E(Declared, AllHostSM) /\ E(Declared, OneAndAllSM)
    BY <1>6, <1>7, <1>8, <1>9, <1>10 DEF ++
  <1>12. QED
    BY <1>8, <1>9, <1>11

LEMMA KeysAre ==
  Keys = DOMAIN HostCopies \union DOMAIN PairsCE \union DOMAIN LocalAndAllCE
         \union DOMAIN OneAndAllCE \union DOMAIN HostAccessSM \union DOMAIN PairsSM
         \union DOMAIN AllHostSM \union DOMAIN OneAndAllSM
  BY DEF Keys, Declared, ++

LEMMA Catalogue ==
  \A k \in Keys :
    RowEntry(k) \/ AllRowEntry(k) \/ PairEntry(k) \/ PeerEntry(k) \/ GatherEntry(k)
  <1>1. \A k \in DOMAIN HostCopies : RowEntry(k)
    BY TestsOf, DeclaredOf
    DEF HostCopies, HostTestsCE, HostTestsSM, Run, Declare, RowEntry, Entry, Says
  <1>2. \A k \in DOMAIN PairsCE : PairEntry(k)
    BY TestsOf, DeclaredOf
    DEF PairsCE, PairTestsCE, Run, Declare, PairEntry, Entry, Says
  <1>3. \A k \in DOMAIN LocalAndAllCE : RowEntry(k) \/ AllRowEntry(k)
    BY TestsOf, DeclaredOf
    DEF LocalAndAllCE, AllTestsCE, Run, Declare, RowEntry, AllRowEntry, Entry, Says
  <1>4. \A k \in DOMAIN OneAndAllCE : GatherEntry(k)
    BY TestsOf, DeclaredOf
    DEF OneAndAllCE, AllTestsCE, Run, Declare, GatherEntry, ReadsBy, SourceContextReads,
        Entry, Says
  <1>5. \A k \in DOMAIN HostAccessSM : RowEntry(k)
    BY TestsOf, DeclaredOf
    DEF HostAccessSM, HostTestsSM, Run, Declare, RowEntry, Entry, Says
  <1>6. \A k \in DOMAIN PairsSM : PairEntry(k) \/ PeerEntry(k)
    BY TestsOf, DeclaredOf
    DEF PairsSM, PairTestsSM, Run, Declare, PairEntry, PeerEntry, Entry, Says
  <1>7. \A k \in DOMAIN AllHostSM : AllRowEntry(k)
    BY TestsOf, DeclaredOf
    DEF AllHostSM, AllTestsSM, Run, Declare, AllRowEntry, Entry, Says
  <1>8. \A k \in DOMAIN OneAndAllSM : GatherEntry(k)
    BY TestsOf, DeclaredOf
    DEF OneAndAllSM, AllTestsSM, Run, Declare, GatherEntry, ReadsBy, SourceContextReads,
        Entry, Says
  <1>9. QED
    BY KeysAre, <1>1, <1>2, <1>3, <1>4, <1>5, <1>6, <1>7, <1>8

\* What the two lists of exceptions have in them.
LEMMA Exceptions ==
  /\ \A k \in SourceContextReads : Declared[k].launches = "reader" /\ Tests[k].value = "TOTAL"
  /\ \A k \in EqualInterference :
       \/ Tests[k].value = "VECTOR"
       \/ Tests[k].copies \in {"all_H2D_split", "all_D2H_split"}
  /\ \A k \in Keys :
       Declared[k].load # "none"
         /\ \/ Tests[k].value = "VECTOR"
            \/ Tests[k].copies \in {"all_H2D_split", "all_D2H_split"}
       => k \in EqualInterference
  <1>1. \A k \in SourceContextReads :
          Declared[k].launches = "reader" /\ Tests[k].value = "TOTAL"
    BY TestsOf, DeclaredOf
    DEF SourceContextReads, OneAndAllSM, AllTestsSM, Run, Declare
  <1>2. \A k \in EqualInterference :
          \/ Tests[k].value = "VECTOR"
          \/ Tests[k].copies \in {"all_H2D_split", "all_D2H_split"}
    BY TestsOf DEF EqualInterference, PairTestsCE, AllTestsSM, Run
  <1> DEFINE Single(k) == /\ Tests[k].value # "VECTOR"
                          /\ Tests[k].copies \notin {"all_H2D_split", "all_D2H_split"}
             Fits(k) == Declared[k].load = "none" \/ Single(k) \/ k \in EqualInterference
  <1>3. \A k \in DOMAIN HostCopies : Fits(k)
    BY TestsOf DEF HostCopies, HostTestsCE, HostTestsSM, Run
  <1>4. \A k \in DOMAIN PairsCE : Fits(k)
    BY DeclaredOf DEF PairsCE, Declare, EqualInterference
  <1>5. \A k \in DOMAIN LocalAndAllCE : Fits(k)
    BY TestsOf DEF LocalAndAllCE, AllTestsCE, Run
  <1>6. \A k \in DOMAIN OneAndAllCE : Fits(k)
    BY DeclaredOf DEF OneAndAllCE, Declare
  <1>7. \A k \in DOMAIN HostAccessSM : Fits(k)
    BY DeclaredOf DEF HostAccessSM, Declare
  <1>8. \A k \in DOMAIN PairsSM : Fits(k)
    BY DeclaredOf DEF PairsSM, Declare
  <1>9. \A k \in DOMAIN AllHostSM : Fits(k)
    BY TestsOf DEF AllHostSM, AllTestsSM, Run, EqualInterference
  <1>10. \A k \in DOMAIN OneAndAllSM : Fits(k)
    BY DeclaredOf DEF OneAndAllSM, Declare
  <1>11. \A k \in Keys : Fits(k)
    BY KeysAre, <1>3, <1>4, <1>5, <1>6, <1>7, <1>8, <1>9, <1>10
  <1>12. QED
    BY <1>1, <1>2, <1>11

(***************************************************************************)
(* The inductive invariant: where the loops are, what the pairs of buffers *)
(* are, which buffers are allocated.                                       *)
(***************************************************************************)
Running == pc \in {"outer", "inner", "measure", "release"}

IsSeq(s) == \E S : s \in Seq(S)

TypeInv ==
  /\ machine \in Machines
  /\ plan \in Seq(Keys)
  /\ IsSeq(results)
  /\ pc \in {"next", "outer", "inner", "measure", "release", "exited", "done"}
  /\ outer \in 0 .. DeviceCount /\ inner \in 0 .. DeviceCount
  /\ Running => key \in Keys
  /\ pc \in {"inner", "measure", "release"} => outer < DeviceCount
  /\ pc = "inner" => Test.loop # "row"
  /\ pc \in {"measure", "release"} /\ Test.loop \in {"pair", "peer"} =>
       inner < DeviceCount /\ inner # outer

\* The pair of buffers that a testcase which gathers peers makes of a GPU and
\* one of its peers.
PairOf(d, p) ==
  IF Test.loop = "to_one" THEN <<Upfront(p), Mine(d, p)>> ELSE <<Mine(d, p), Upfront(p)>>

Mutual(d, p) ==
  /\ <<d, p>> \in machine.peers /\ <<p, d>> \in machine.peers
  /\ <<d, p>> \in enabled /\ <<p, d>> \in enabled

\* The vectors hold a pair for every peer below n, and none for anything else.
Gathered(n) ==
  /\ IsSeq(vectors)
  /\ \A k \in DOMAIN vectors : \E p \in Gpus :
       p < n /\ p # outer /\ Mutual(outer, p) /\ vectors[k] = PairOf(outer, p)
  /\ \A p \in Gpus : p < n /\ p # outer /\ <<outer, p>> \in machine.peers =>
       \E k \in DOMAIN vectors : vectors[k] = PairOf(outer, p)

VectorsInv ==
  /\ pc \in {"next", "outer"} => vectors = <<>>
  /\ pc = "inner" => IF GathersPeers THEN Gathered(inner) ELSE vectors = <<>>
  /\ pc \in {"measure", "release"} =>
       /\ Test.loop = "row" => vectors = RowVectors(outer)
       /\ Test.loop = "pair" => vectors = PairVectors(outer, inner)
       /\ Test.loop = "peer" => vectors = <<<<ChasedBuffer, DeviceBuffer(inner, 1, 2)>>>>
       /\ Test.loop \in {"pair", "peer"} => Mutual(Self, Peer)
       /\ GathersPeers => Gathered(DeviceCount) /\ vectors # <<>>
       /\ Test.engine = "latency" => ctx = IF Test.loop = "row" THEN outer ELSE Self

Leaked(b) == b.no \in 0 .. Len(results) - 1 /\ results[b.no + 1].status = "Error"

\* What a testcase that runs has to free.
Held(b) ==
  \/ GathersPeers /\ \E d \in Gpus : b = Upfront(d)
  \/ Test.loop = "peer" /\ pc # "outer" /\ b = ChasedBuffer
  \/ b \in BuffersOf(vectors)

LiveInv ==
  /\ Running => BuffersOf(vectors) \subseteq live
  /\ Running /\ GathersPeers => \A d \in Gpus : Upfront(d) \in live
  /\ pc \in {"inner", "measure", "release"} /\ Test.loop = "peer" => ChasedBuffer \in live
  /\ pc \notin {"exited", "done"} => \A b \in live : Leaked(b) \/ (Running /\ Held(b))

IInv == TypeInv /\ VectorsInv /\ LiveInv

-------------------------------------------------------------------------------
(***************************************************************************)
(* The pairs of buffers of a row.                                          *)
(***************************************************************************)
LEMMA OtherIs ==
  ASSUME NEW d \in Gpus
  PROVE  /\ \A k \in 1 .. DeviceCount - 1 : Other(d, k) \in Gpus \ {d}
         /\ \A g \in Gpus \ {d} : \E k \in 1 .. DeviceCount - 1 : Other(d, k) = g
  <1>1. DeviceCount \in Nat \ {0} /\ d \in Int /\ 0 <= d /\ d < DeviceCount
    BY DeviceAssumption DEF Gpus
  <1>2. ASSUME NEW g \in Gpus \ {d} PROVE \E k \in 1 .. DeviceCount - 1 : Other(d, k) = g
    <2>1. g \in Int /\ 0 <= g /\ g < DeviceCount /\ g # d
      BY <1>1 DEF Gpus
    <2>2. CASE g < d
      <3>1. g + 1 \in 1 .. DeviceCount - 1 /\ Other(d, g + 1) = g
        BY <1>1, <2>1, <2>2 DEF Other
      <3>2. QED
        BY <3>1
    <2>3. CASE g > d
      <3>1. g \in 1 .. DeviceCount - 1 /\ Other(d, g) = g
        BY <1>1, <2>1, <2>3 DEF Other
      <3>2. QED
        BY <3>1
    <2>4. QED
      BY <1>1, <2>1, <2>2, <2>3
  <1>3. QED
    BY <1>1, <1>2 DEF Other, Gpus

AllHostAt(s, d, k) == IF k = 1 THEN Way(s, d, 1) ELSE Way(s, Other(d, k - 1), 2)
SplitAt(s, d, k) == IF k = 1 THEN Way(s, d, 1) ELSE D2H(Other(d, k - 1), 1, 1)
BidirAt(s, d, k) ==
  IF k = 1 THEN Way(s, d, 1)
  ELSE IF k = 2 THEN Way(~s, d, 2)
  ELSE IF k % 2 = 1 THEN D2H(Other(d, (k - 1) \div 2), 2, 1)
                    ELSE H2D(Other(d, (k - 1) \div 2), 2, 2)

\* A list that is put together from a beginning and a function.
LEMMA Prefixed ==
  ASSUME NEW n \in Nat, NEW a, NEW F, DOMAIN F = 1 .. n, F = [k \in 1 .. n |-> F[k]]
  PROVE  /\ IsSeq(<<a>> \o F)
         /\ DOMAIN (<<a>> \o F) = 1 .. n + 1
         /\ (<<a>> \o F)[1] = a
         /\ \A k \in 2 .. n + 1 : (<<a>> \o F)[k] = F[k - 1]
  <1> DEFINE S == {a} \union {F[k] : k \in 1 .. n}
  <1>1. F \in Seq(S) /\ <<a>> \in Seq(S) /\ Len(F) = n /\ Len(<<a>>) = 1
    OBVIOUS
  <1> DEFINE s == <<a>> \o F
  <1>2. s \in Seq(S) /\ Len(s) = n + 1
    BY <1>1, ConcatProperties
  <1>3. \A k \in 1 .. n + 1 : s[k] = IF k = 1 THEN a ELSE F[k - 1]
    BY <1>1, ConcatProperties
  <1> HIDE DEF s
  <1>4. DOMAIN s = 1 .. n + 1
    BY <1>2
  <1>5. IsSeq(s)
    BY <1>2 DEF IsSeq
  <1>6. QED
    BY <1>3, <1>4, <1>5 DEF s

LEMMA AllHostIs ==
  ASSUME NEW s, NEW d \in Gpus
  PROVE  /\ IsSeq(AllHost(s, d)) /\ DOMAIN AllHost(s, d) = 1 .. DeviceCount
         /\ \A k \in 1 .. DeviceCount : AllHost(s, d)[k] = AllHostAt(s, d, k)
  <1> DEFINE F == [k \in 1 .. DeviceCount - 1 |-> Way(s, Other(d, k), 2)]
             n == DeviceCount - 1
  <1>1. n \in Nat /\ DOMAIN F = 1 .. n /\ F = [k \in 1 .. n |-> F[k]]
    BY DeviceAssumption
  <1>2. AllHost(s, d) = <<Way(s, d, 1)>> \o F
    BY DEF AllHost
  <1>3. \A k \in 1 .. n : F[k] = Way(s, Other(d, k), 2)
    OBVIOUS
  <1> HIDE DEF F
  <1>4. n + 1 = DeviceCount /\ \A k \in 2 .. n + 1 : k - 1 \in 1 .. n
    BY DeviceAssumption
  <1>5. QED
    BY <1>1, <1>2, <1>3, <1>4, Prefixed DEF AllHostAt

LEMMA AllHostSplitIs ==
  ASSUME NEW s, NEW d \in Gpus
  PROVE  /\ IsSeq(AllHostSplit(s, d)) /\ DOMAIN AllHostSplit(s, d) = 1 .. DeviceCount
         /\ \A k \in 1 .. DeviceCount : AllHostSplit(s, d)[k] = SplitAt(s, d, k)
  <1> DEFINE F == [k \in 1 .. DeviceCount - 1 |-> D2H(Other(d, k), 1, 1)]
             n == DeviceCount - 1
  <1>1. n \in Nat /\ DOMAIN F = 1 .. n /\ F = [k \in 1 .. n |-> F[k]]
    BY DeviceAssumption
  <1>2. AllHostSplit(s, d) = <<Way(s, d, 1)>> \o F
    BY DEF AllHostSplit
  <1>3. \A k \in 1 .. n : F[k] = D2H(Other(d, k), 1, 1)
    OBVIOUS
  <1> HIDE DEF F
  <1>4. n + 1 = DeviceCount /\ \A k \in 2 .. n + 1 : k - 1 \in 1 .. n
    BY DeviceAssumption
  <1>5. QED
    BY <1>1, <1>2, <1>3, <1>4, Prefixed DEF SplitAt

LEMMA AllHostBidirIs ==
  ASSUME NEW s, NEW d \in Gpus
  PROVE  /\ IsSeq(AllHostBidir(s, d)) /\ DOMAIN AllHostBidir(s, d) = 1 .. 2 * DeviceCount
         /\ \A k \in 1 .. 2 * DeviceCount : AllHostBidir(s, d)[k] = BidirAt(s, d, k)
  <1> DEFINE E(k) == LET other == Other(d, (k + 1) \div 2)
                     IN  IF k % 2 = 1 THEN D2H(other, 2, 1) ELSE H2D(other, 2, 2)
             F == [k \in 1 .. 2 * (DeviceCount - 1) |-> E(k)]
             n == 2 * (DeviceCount - 1)
             a == <<Way(s, d, 1), Way(~s, d, 2)>>
             S == {a[1], a[2]} \union {F[k] : k \in 1 .. n}
  <1>1. n \in Nat /\ n + 2 = 2 * DeviceCount
    BY DeviceAssumption
  <1>2. AllHostBidir(s, d) = a \o F
    BY DEF AllHostBidir
  <1>3. DOMAIN F = 1 .. n /\ F \in Seq(S) /\ Len(F) = n /\ \A k \in 1 .. n : F[k] = E(k)
    BY <1>1
  <1>4. a \in Seq(S) /\ Len(a) = 2 /\ a[1] = Way(s, d, 1) /\ a[2] = Way(~s, d, 2)
    OBVIOUS
  <1> HIDE DEF F, E, a, S, n
  <1>5. /\ a \o F \in Seq(S) /\ DOMAIN (a \o F) = 1 .. n + 2
        /\ (a \o F)[1] = a[1] /\ (a \o F)[2] = a[2]
        /\ \A k \in 3 .. n + 2 : (a \o F)[k] = F[k - 2]
    <2> DEFINE all == a \o F
    <2>0. /\ all \in Seq(S) /\ Len(all) = Len(a) + Len(F)
          /\ \A k \in 1 .. Len(a) + Len(F) :
               all[k] = IF k <= Len(a) THEN a[k] ELSE F[k - Len(a)]
      BY <1>3, <1>4, ConcatProperties
    <2>1. all \in Seq(S) /\ Len(all) = n + 2
      BY <1>1, <1>3, <1>4, <2>0
    <2>2. \A k \in 1 .. n + 2 : all[k] = IF k <= 2 THEN a[k] ELSE F[k - 2]
      BY <1>1, <1>3, <1>4, <2>0
    <2> HIDE DEF all
    <2>3. DOMAIN all = 1 .. n + 2
      BY <2>1
    <2>4. QED
      BY <1>1, <2>1, <2>2, <2>3 DEF all
  <1>6. ASSUME NEW k \in 3 .. n + 2 PROVE F[k - 2] = BidirAt(s, d, k)
    <2> DEFINE h == (k - 1) \div 2
               m == k % 2
    <2>1. k \in Int /\ k >= 3 /\ k - 2 \in 1 .. n
      BY <1>1
    <2>2. (k - 2 + 1) \div 2 = h /\ (k - 2) % 2 = m
      BY <2>1
    <2>3. E(k - 2) = IF m = 1 THEN D2H(Other(d, h), 2, 1) ELSE H2D(Other(d, h), 2, 2)
      BY <2>2 DEF E
    <2>4. BidirAt(s, d, k) = IF m = 1 THEN D2H(Other(d, h), 2, 1) ELSE H2D(Other(d, h), 2, 2)
      BY <2>1 DEF BidirAt
    <2>5. QED
      BY <1>3, <2>1, <2>3, <2>4
  <1>7. \A k \in 1 .. n + 2 : (a \o F)[k] = BidirAt(s, d, k)
    <2>1. \A k \in 1 .. n + 2 : k = 1 \/ k = 2 \/ k \in 3 .. n + 2
      BY <1>1
    <2>2. QED
      BY <1>4, <1>5, <1>6, <2>1 DEF BidirAt
  <1>8. QED
    BY <1>1, <1>2, <1>5, <1>7 DEF IsSeq

LEMMA Kinds ==
  ASSUME NEW k \in Keys
  PROVE  LET t == Tests[k] IN
    /\ t.loop \in {"row", "pair", "peer", "to_one", "to_all"}
    /\ t.prefer \in {"src", "dst"}
    /\ t.loop = "row" => t.prefer = "src" /\ t.copies \in
         {"H2D", "D2H", "H2D_D2H", "D2H_H2D", "local", "chase", "all_H2D", "all_D2H",
          "all_H2D_D2H", "all_D2H_H2D", "all_H2D_split", "all_D2H_split"}
    /\ t.loop = "pair" => t.copies \in {"read", "write", "both"}
    /\ t.loop = "peer" => t.copies = "chase" /\ t.engine = "latency"
    /\ t.loop \in {"to_one", "to_all"} => t.copies \in {"read", "write"}
    /\ t.engine = "latency" => t.copies = "chase" /\ t.loop \in {"row", "peer"}
  BY Catalogue
  DEF RowEntry, AllRowEntry, PairEntry, PeerEntry, GatherEntry, Entry, Says, ReadsBy

RowPair(v) ==
  \E g \in Gpus, size \in {1, 2}, tag \in {1, 2} :
    v = H2D(g, size, tag) \/ v = D2H(g, size, tag)

LEMMA RowIs ==
  ASSUME key \in Keys, Test.loop = "row", NEW d \in Gpus
  PROVE  LET vs == RowVectors(d) IN
    /\ IsSeq(vs) /\ 1 \in DOMAIN vs
    /\ Test.copies \notin {"local", "chase"} => \A k \in DOMAIN vs : RowPair(vs[k])
    /\ Test.copies = "local" => vs = <<<<DeviceBuffer(d, 1, 2), DeviceBuffer(d, 1, 1)>>>>
    /\ Test.copies = "chase" => vs = <<<<HostBuffer(d, 1, 1), HostBuffer(d, 1, 1)>>>>
  <1> DEFINE vs == RowVectors(d)
  <1>1. \A v : IsSeq(<<v>>) /\ DOMAIN <<v>> = {1} /\ <<v>>[1] = v
    <2>1. ASSUME NEW v PROVE <<v>> \in Seq({v}) /\ DOMAIN <<v>> = {1} /\ <<v>>[1] = v
      OBVIOUS
    <2>2. QED
      BY <2>1 DEF IsSeq
  <1>2. \A v, w : 
          /\ IsSeq(<<v, w>>) /\ DOMAIN <<v, w>> = {1, 2}
          /\ <<v, w>>[1] = v /\ <<v, w>>[2] = w
    <2> SUFFICES ASSUME NEW v, NEW w
                 PROVE  /\ IsSeq(<<v, w>>) /\ DOMAIN <<v, w>> = {1, 2}
                        /\ <<v, w>>[1] = v /\ <<v, w>>[2] = w
      OBVIOUS
    <2>1. <<v, w>> \in Seq({v, w})
      OBVIOUS
    <2>2. IsSeq(<<v, w>>)
      BY <2>1 DEF IsSeq
    <2>3. QED
      BY <2>2
  <1>3. \A g \in Gpus, size \in {1, 2}, tag \in {1, 2} :
          RowPair(H2D(g, size, tag)) /\ RowPair(D2H(g, size, tag))
    BY DEF RowPair
  <1>4. \A s \in BOOLEAN, g \in Gpus, size \in {1, 2} : RowPair(Way(s, g, size))
    BY <1>3 DEF Way
  <1>5. 1 \in 1 .. DeviceCount /\ 1 \in 1 .. 2 * DeviceCount
    BY DeviceAssumption
  <1>6. ASSUME NEW s \in BOOLEAN, NEW k \in 1 .. DeviceCount
        PROVE  RowPair(AllHostAt(s, d, k)) /\ RowPair(SplitAt(s, d, k))
    <2>1. k = 1 \/ k - 1 \in 1 .. DeviceCount - 1
      BY DeviceAssumption
    <2>2. k # 1 => Other(d, k - 1) \in Gpus
      BY <2>1, OtherIs
    <2>3. QED
      BY <1>3, <1>4, <2>2 DEF AllHostAt, SplitAt
  <1>7. ASSUME NEW s \in BOOLEAN, NEW k \in 1 .. 2 * DeviceCount PROVE RowPair(BidirAt(s, d, k))
    <2>1. k \in {1, 2} \/ (k - 1) \div 2 \in 1 .. DeviceCount - 1
      BY DeviceAssumption
    <2>2. k \notin {1, 2} => Other(d, (k - 1) \div 2) \in Gpus
      BY <2>1, OtherIs
    <2>3. QED
      BY <1>3, <1>4, <2>2 DEF BidirAt
  <1>8. Test.copies \in
         {"H2D", "D2H", "H2D_D2H", "D2H_H2D", "local", "chase", "all_H2D", "all_D2H",
          "all_H2D_D2H", "all_D2H_H2D", "all_H2D_split", "all_D2H_split"}
    BY Kinds DEF Test
  <1>9. CASE Test.copies \in {"H2D", "D2H", "H2D_D2H", "D2H_H2D", "local", "chase"}
    <2>1. CASE Test.copies \in {"H2D", "D2H"}
      <3>1. \E v : RowPair(v) /\ vs = <<v>>
        BY <1>3, <2>1 DEF RowVectors
      <3>2. QED
        BY <1>1, <2>1, <3>1
    <2>2. CASE Test.copies \in {"H2D_D2H", "D2H_H2D"}
      <3>1. \E v, w : RowPair(v) /\ RowPair(w) /\ vs = <<v, w>>
        BY <1>3, <2>2 DEF RowVectors
      <3>2. QED
        BY <1>2, <2>2, <3>1
    <2>3. CASE Test.copies = "local"
      BY <1>1, <2>3 DEF RowVectors
    <2>4. CASE Test.copies = "chase"
      BY <1>1, <2>4 DEF RowVectors
    <2>5. QED
      BY <1>9, <2>1, <2>2, <2>3, <2>4
  <1>10. CASE Test.copies \in {"all_H2D", "all_D2H"}
    <2>1. PICK s \in BOOLEAN : vs = AllHost(s, d)
      BY <1>10 DEF RowVectors
    <2> HIDE DEF vs
    <2>2. /\ IsSeq(vs) /\ DOMAIN vs = 1 .. DeviceCount
          /\ \A k \in 1 .. DeviceCount : vs[k] = AllHostAt(s, d, k)
      BY <2>1, AllHostIs
    <2>3. \A k \in DOMAIN vs : RowPair(vs[k])
      BY <1>6, <2>2
    <2>4. QED
      BY <1>5, <1>10, <2>2, <2>3 DEF vs
  <1>11. CASE Test.copies \in {"all_H2D_D2H", "all_D2H_H2D"}
    <2>1. PICK s \in BOOLEAN : vs = AllHostBidir(s, d)
      BY <1>11 DEF RowVectors
    <2> HIDE DEF vs
    <2>2. /\ IsSeq(vs) /\ DOMAIN vs = 1 .. 2 * DeviceCount
          /\ \A k \in 1 .. 2 * DeviceCount : vs[k] = BidirAt(s, d, k)
      BY <2>1, AllHostBidirIs
    <2>3. \A k \in DOMAIN vs : RowPair(vs[k])
      BY <1>7, <2>2
    <2>4. QED
      BY <1>5, <1>11, <2>2, <2>3 DEF vs
  <1>12. CASE Test.copies \in {"all_H2D_split", "all_D2H_split"}
    <2>1. PICK s \in BOOLEAN : vs = AllHostSplit(s, d)
      BY <1>12 DEF RowVectors
    <2> HIDE DEF vs
    <2>2. /\ IsSeq(vs) /\ DOMAIN vs = 1 .. DeviceCount
          /\ \A k \in 1 .. DeviceCount : vs[k] = SplitAt(s, d, k)
      BY <2>1, AllHostSplitIs
    <2>3. \A k \in DOMAIN vs : RowPair(vs[k])
      BY <1>6, <2>2
    <2>4. QED
      BY <1>5, <1>12, <2>2, <2>3 DEF vs
  <1>13. QED
    BY <1>8, <1>9, <1>10, <1>11, <1>12

-------------------------------------------------------------------------------
(***************************************************************************)
(* Types and loops.                                                        *)
(***************************************************************************)
LEMMA AppendIsSeq ==
  ASSUME NEW s, NEW e, IsSeq(s)
  PROVE  /\ IsSeq(Append(s, e)) /\ Len(s) \in Nat /\ Len(Append(s, e)) = Len(s) + 1
         /\ DOMAIN Append(s, e) = 1 .. Len(s) + 1 /\ DOMAIN s = 1 .. Len(s)
         /\ \A n \in 1 .. Len(s) : Append(s, e)[n] = s[n]
         /\ Append(s, e)[Len(s) + 1] = e
  <1>1. PICK S : s \in Seq(S)
    BY DEF IsSeq
  <1> DEFINE T == S \union {e}
  <1>2. s \in Seq(T) /\ e \in T
    BY <1>1
  <1>3. /\ Append(s, e) \in Seq(T) /\ Len(s) \in Nat /\ Len(Append(s, e)) = Len(s) + 1
        /\ \A n \in 1 .. Len(s) : Append(s, e)[n] = s[n]
        /\ Append(s, e)[Len(s) + 1] = e
    BY <1>2, AppendProperties
  <1> HIDE DEF T
  <1>4. DOMAIN Append(s, e) = 1 .. Len(s) + 1 /\ DOMAIN s = 1 .. Len(s)
    BY <1>1, <1>3
  <1>5. QED
    BY <1>3, <1>4 DEF IsSeq

LEMMA InitTypeInv == Init => TypeInv
  <1> SUFFICES ASSUME Init PROVE TypeInv
    OBVIOUS
  <1>1. results \in Seq({})
    BY DEF Init
  <1>2. QED
    BY <1>1, InputsAssumption, DeviceAssumption DEF Init, TypeInv, IsSeq, Running

LEMMA StepTypeInv == TypeInv /\ [Next]_vars => TypeInv'
  <1> SUFFICES ASSUME TypeInv, [Next]_vars PROVE TypeInv'
    OBVIOUS
  <1> USE DeviceAssumption
  <1>1. key \in Keys => Test.loop \in {"row", "pair", "peer", "to_one", "to_all"}
    BY Kinds DEF Test
  <1>2. /\ machine \in Machines /\ plan \in Seq(Keys) /\ IsSeq(results)
        /\ outer \in 0 .. DeviceCount /\ inner \in 0 .. DeviceCount
    BY DEF TypeInv
  <1>3. \A e : IsSeq(Append(results, e))
    BY <1>2, AppendIsSeq
  <1>4. plan # <<>> => Head(plan) \in Keys /\ Tail(plan) \in Seq(Keys)
    BY <1>2
  <1>5. CASE Waive
    <2>1. IsSeq(results')
      BY <1>3, <1>5 DEF Waive
    <2>2. QED
      BY <1>2, <1>4, <1>5, <2>1 DEF Waive, TypeInv, Running, loops, Test
  <1>6. CASE StartTest
    BY <1>2, <1>4, <1>6 DEF StartTest, TypeInv, Running, Goto, Test
  <1>7. CASE PrepareRow
    BY <1>2, <1>7 DEF PrepareRow, TypeInv, Running, Goto, loops, Test
  <1>8. CASE OpenLoop
    BY <1>2, <1>8 DEF OpenLoop, TypeInv, Running, Goto, Test
  <1>9. CASE SkipPeer
    BY <1>2, <1>9 DEF SkipPeer, TypeInv, Running, Test
  <1>10. CASE PreparePeer
    BY <1>2, <1>10 DEF PreparePeer, TypeInv, Running, Goto, Test, GathersPeers
  <1>11. CASE EnableFails \/ AssertionFails \/ Done
    BY <1>2, <1>11 DEF EnableFails, AssertionFails, Done, TypeInv, Running, Goto, loops, Test
  <1>12. CASE CloseLoop
    <2>1. CASE vectors # <<>> /\ GathersPeers
      BY <1>2, <1>12, <2>1 DEF CloseLoop, TypeInv, Running, Goto, Test, GathersPeers
    <2>2. CASE ~(vectors # <<>> /\ GathersPeers)
      BY <1>2, <1>12, <2>2 DEF CloseLoop, TypeInv, Running, Goto, Test
    <2>3. QED
      BY <2>1, <2>2
  <1>13. CASE Measure
    BY <1>2, <1>13 DEF Measure, TypeInv, Running, Goto, loops, Test
  <1>14. CASE Release
    BY <1>1, <1>2, <1>14 DEF Release, TypeInv, Running, Goto, Test
  <1>15. CASE FinishTest
    <2>1. IsSeq(results')
      BY <1>3, <1>15 DEF FinishTest, End
    <2>2. QED
      BY <1>2, <1>15, <2>1 DEF FinishTest, End, TypeInv, Running, Goto, Test
  <1>16. CASE Throw
    <2>1. IsSeq(results')
      BY <1>3, <1>16 DEF Throw, End
    <2>2. QED
      BY <1>2, <1>16, <2>1 DEF Throw, End, TypeInv, Running, Goto, Test
  <1>17. CASE UNCHANGED vars
    BY <1>2, <1>17 DEF vars, loops, TypeInv, Running, Test
  <1>18. QED
    BY <1>5, <1>6, <1>7, <1>8, <1>9, <1>10, <1>11, <1>12, <1>13, <1>14, <1>15, <1>16, <1>17
    DEF Next, Step, Ended

-------------------------------------------------------------------------------
(***************************************************************************)
(* The pairs of buffers between two measurements.                          *)
(***************************************************************************)
LEMMA InitVectorsInv == Init => VectorsInv
  BY DEF Init, VectorsInv

LEMMA TestIs == key \in Keys =>
  /\ Test.loop \in {"row", "pair", "peer", "to_one", "to_all"}
  /\ Test.prefer \in {"src", "dst"}
  /\ Test.loop = "row" => Test.prefer = "src"
  /\ Test.loop = "pair" => Test.copies \in {"read", "write", "both"}
  /\ Test.loop = "peer" => Test.copies = "chase" /\ Test.engine = "latency"
  /\ GathersPeers => Test.copies \in {"read", "write"}
  /\ Test.engine = "latency" => Test.copies = "chase" /\ Test.loop \in {"row", "peer"}
  BY Kinds DEF Test, GathersPeers

\* One more peer.
LEMMA GatherOne ==
  ASSUME TypeInv, pc = "inner", inner < DeviceCount, GathersPeers, Gathered(inner), PreparePeer
  PROVE  Gathered(inner)'
  <1>1. /\ key \in Keys /\ inner \in Nat /\ inner \in Gpus /\ inner # outer
        /\ Test.loop \in {"to_one", "to_all"}
    BY DeviceAssumption DEF TypeInv, Running, Gpus, PreparePeer, GathersPeers
  <1>2. Self = outer /\ Peer = inner
    BY <1>1 DEF Self, Peer
  <1>3. vectors' = Append(vectors, PairOf(outer, inner))
    BY <1>1, <1>2 DEF PreparePeer, WithPeer, PairOf
  <1>4. /\ inner' = inner + 1 /\ outer' = outer /\ machine' = machine /\ key' = key
        /\ results' = results /\ enabled \subseteq enabled'
    BY DEF PreparePeer
  <1> PICK i : i = inner
    OBVIOUS
  <1>5. Mutual(outer, i)'
    BY <1>2, <1>4 DEF PreparePeer, Mutual, EnabledPairs
  <1>6. \A p : PairOf(outer, p)' = PairOf(outer, p)
    BY <1>4 DEF PairOf, Test, Upfront, Mine, DeviceBuffer, Buffer
  <1> DEFINE n == Len(vectors)
  <1>7. /\ IsSeq(vectors') /\ DOMAIN vectors' = 1 .. n + 1
        /\ DOMAIN vectors = 1 .. n /\ n \in Nat
        /\ \A k \in 1 .. n : vectors'[k] = vectors[k]
        /\ vectors'[n + 1] = PairOf(outer, inner)
    <2>1. IsSeq(vectors)
      BY DEF Gathered
    <2>2. QED
      BY <1>3, <2>1, AppendIsSeq
  <1> HIDE DEF n
  <1>8. ASSUME NEW k \in DOMAIN vectors'
        PROVE  \E p \in Gpus : /\ p < inner' /\ p # outer /\ Mutual(outer, p)'
                               /\ vectors'[k] = PairOf(outer, p)
    <2>1. CASE k \in 1 .. n
      <3>1. PICK p \in Gpus : /\ p < inner /\ p # outer /\ Mutual(outer, p)
                              /\ vectors[k] = PairOf(outer, p)
        BY <1>7, <2>1 DEF Gathered
      <3>2. p < inner' /\ Mutual(outer, p)'
        BY <1>1, <1>4, <3>1 DEF Mutual, Gpus
      <3>3. QED
        BY <1>7, <2>1, <3>1, <3>2
    <2>2. CASE k = n + 1
      BY <1>1, <1>4, <1>5, <1>7, <2>2
    <2>3. QED
      BY <1>7, <2>1, <2>2
  <1>9. ASSUME NEW p \in Gpus, p < inner', p # outer, <<outer, p>> \in machine.peers
        PROVE  \E k \in DOMAIN vectors' : vectors'[k] = PairOf(outer, p)
    <2>1. CASE p = inner
      BY <1>7, <2>1
    <2>2. CASE p < inner
      <3>1. PICK k \in DOMAIN vectors : vectors[k] = PairOf(outer, p)
        BY <1>9, <2>2 DEF Gathered
      <3>2. QED
        BY <1>7, <3>1
    <2>3. QED
      BY <1>1, <1>4, <1>9, <2>1, <2>2 DEF Gpus
  <1>10. QED
    BY <1>4, <1>6, <1>7, <1>8, <1>9 DEF Gathered

LEMMA StepVectorsInv == TypeInv /\ VectorsInv /\ [Next]_vars => VectorsInv'
  <1> SUFFICES ASSUME TypeInv, VectorsInv, [Next]_vars PROVE VectorsInv'
    OBVIOUS
  <1>1. CASE Waive
    BY <1>1 DEF Waive, VectorsInv
  <1>2. CASE StartTest
    BY <1>2 DEF StartTest, VectorsInv, Goto
  <1>3. CASE PrepareRow
    <2>1. /\ key \in Keys /\ Test.loop = "row" /\ outer \in Gpus /\ key' = key /\ outer' = outer
          /\ results' = results /\ pc' = "measure" /\ vectors' = RowVectors(outer)
      BY <1>3, DeviceAssumption DEF PrepareRow, TypeInv, Running, Gpus, Goto, loops
    <2>2. Test' = Test
      BY <2>1 DEF Test
    <2>3. RowVectors(outer)' = RowVectors(outer)
      BY <2>1 DEF RowVectors, H2D, D2H, HostBuffer, DeviceBuffer, Buffer, AllHost, AllHostBidir,
        AllHostSplit, Way, Test
    <2>4. Test.engine = "latency" => ctx' = outer
      <3>1. SUFFICES ASSUME Test.engine = "latency" PROVE ctx' = outer
        OBVIOUS
      <3>2. vectors' = <<<<HostBuffer(outer, 1, 1), HostBuffer(outer, 1, 1)>>>>
        BY <2>1, <3>1, RowIs, TestIs
      <3>3. Len(vectors') = 1 /\ vectors'[1][2].near = outer
        BY <3>2 DEF HostBuffer, Buffer
      <3>4. QED
        BY <1>3, <3>3 DEF PrepareRow
    <2>5. QED
      BY <2>1, <2>2, <2>3, <2>4 DEF VectorsInv, GathersPeers
  <1>4. CASE OpenLoop
    <2>1. /\ pc' = "inner" /\ vectors' = <<>> /\ inner' = 0
      BY <1>4 DEF OpenLoop, Goto
    <2>2. Gathered(inner)'
      <3>1. vectors' \in Seq({}) /\ DOMAIN vectors' = {}
        BY <2>1
      <3>2. \A p \in Gpus : ~(p < 0)
        BY DeviceAssumption DEF Gpus
      <3>3. QED
        BY <2>1, <3>1, <3>2 DEF Gathered, IsSeq
    <2>3. QED
      BY <2>1, <2>2 DEF VectorsInv
  <1>5. CASE SkipPeer
    <2>1. /\ key \in Keys /\ pc = "inner" /\ pc' = pc /\ vectors' = vectors /\ key' = key
          /\ outer' = outer /\ inner' = inner + 1 /\ machine' = machine /\ results' = results
          /\ enabled' = enabled /\ inner \in Nat
      BY <1>5, DeviceAssumption DEF SkipPeer, TypeInv, Running
    <2>2. Test' = Test /\ GathersPeers' = GathersPeers
      BY <2>1 DEF Test, GathersPeers
    <2>3. ASSUME GathersPeers PROVE Gathered(inner)'
      <3>1. Gathered(inner)
        BY <2>1, <2>3 DEF VectorsInv
      <3>2. inner = outer \/ <<outer, inner>> \notin machine.peers
        BY <1>5, <2>3 DEF SkipPeer, Self, Peer, GathersPeers
      <3>3. \A p \in Gpus : p < inner + 1 <=> p < inner \/ p = inner
        BY <2>1, DeviceAssumption DEF Gpus
      <3>4. \A p : PairOf(outer, p)' = PairOf(outer, p) /\ Mutual(outer, p)' = Mutual(outer, p)
        BY <2>1 DEF PairOf, Test, Upfront, Mine, DeviceBuffer, Buffer, Mutual
      <3>5. QED
        BY <2>1, <3>1, <3>2, <3>3, <3>4 DEF Gathered
    <2>4. QED
      BY <2>1, <2>2, <2>3 DEF VectorsInv
  <1>6. CASE PreparePeer
    <2>1. /\ key \in Keys /\ pc = "inner" /\ inner < DeviceCount /\ key' = key /\ outer' = outer
          /\ machine' = machine /\ results' = results /\ Test.loop # "row"
      BY <1>6 DEF PreparePeer, TypeInv, Running
    <2>2. Test' = Test /\ GathersPeers' = GathersPeers
      BY <2>1 DEF Test, GathersPeers
    <2>3. CASE GathersPeers
      <3>1. Gathered(inner)'
        BY <1>6, <2>1, <2>3, GatherOne DEF VectorsInv
      <3>2. pc' = "inner"
        BY <1>6, <2>1, <2>3 DEF PreparePeer
      <3>3. QED
        BY <2>2, <2>3, <3>1, <3>2 DEF VectorsInv
    <2>4. CASE ~GathersPeers
      <3>1. /\ pc' = "measure" /\ inner' = inner /\ Test.loop \in {"pair", "peer"}
            /\ ctx' = Self /\ vectors' = WithPeer
        BY <1>6, <2>1, <2>4, TestIs DEF PreparePeer, Goto, GathersPeers, LeftCurrent
      <3>2. Self' = Self /\ Peer' = Peer
        BY <2>1, <2>2, <3>1 DEF Self, Peer
      <3>3. Mutual(Self, Peer)'
        BY <1>6, <3>2 DEF PreparePeer, Mutual, EnabledPairs
      <3>4. Test.loop = "pair" => vectors' = PairVectors(outer, inner)'
        <4>1. SUFFICES ASSUME Test.loop = "pair" PROVE vectors' = PairVectors(outer, inner)'
          OBVIOUS
        <4>2. vectors' = PairVectors(outer, inner)
          BY <3>1, <4>1 DEF WithPeer, Self, Peer
        <4>3. PairVectors(outer, inner)' = PairVectors(outer, inner)
          BY <2>1, <3>1 DEF PairVectors, DeviceBuffer, Buffer, Test
        <4>4. QED
          BY <4>2, <4>3
      <3>5. Test.loop = "peer" =>
              vectors' = <<<<ChasedBuffer, DeviceBuffer(inner, 1, 2)>>>>'
        BY <2>1, <3>1 DEF WithPeer, Self, ChasedBuffer, DeviceBuffer, Buffer
      <3>6. QED
        BY <2>2, <2>4, <3>1, <3>2, <3>3, <3>4, <3>5 DEF VectorsInv
    <2>5. QED
      BY <2>3, <2>4
  <1>7. CASE EnableFails \/ AssertionFails \/ Done
    BY <1>7 DEF EnableFails, AssertionFails, Done, VectorsInv, Goto
  <1>8. CASE CloseLoop
    <2>1. /\ key \in Keys /\ pc = "inner" /\ inner = DeviceCount /\ vectors' = vectors
          /\ key' = key /\ machine' = machine /\ results' = results /\ enabled' = enabled
          /\ Test.loop # "row"
      BY <1>8 DEF CloseLoop, TypeInv, Running
    <2>2. Test' = Test /\ GathersPeers' = GathersPeers
      BY <2>1 DEF Test, GathersPeers
    <2>3. CASE vectors # <<>> /\ GathersPeers
      <3>1. pc' = "measure" /\ outer' = outer
        BY <1>8, <2>3 DEF CloseLoop, Goto
      <3>2. Gathered(DeviceCount)
        BY <2>1, <2>3 DEF VectorsInv
      <3>3. \A p : PairOf(outer, p)' = PairOf(outer, p) /\ Mutual(outer, p)' = Mutual(outer, p)
        BY <2>1, <3>1 DEF PairOf, Test, Upfront, Mine, DeviceBuffer, Buffer, Mutual
      <3>4. Gathered(DeviceCount)'
        BY <2>1, <3>1, <3>2, <3>3 DEF Gathered
      <3>5. Test.engine # "latency" /\ Test.loop \notin {"row", "pair", "peer"}
        BY <2>1, <2>3, TestIs DEF GathersPeers
      <3>6. QED
        BY <2>1, <2>2, <2>3, <3>1, <3>4, <3>5 DEF VectorsInv
    <2>4. CASE ~(vectors # <<>> /\ GathersPeers)
      BY <1>8, <2>1, <2>4 DEF CloseLoop, VectorsInv, Goto
    <2>5. QED
      BY <2>3, <2>4
  <1>9. CASE Measure \/ UNCHANGED vars
    <2>1. /\ vectors' = vectors /\ key' = key /\ machine' = machine /\ results' = results
          /\ enabled' = enabled /\ outer' = outer /\ inner' = inner /\ ctx' = ctx
          /\ \/ pc' = pc
             \/ pc = "measure" /\ pc' = "release"
      BY <1>9 DEF Measure, Goto, vars, loops
    <2>2. Test' = Test /\ GathersPeers' = GathersPeers /\ Self' = Self /\ Peer' = Peer
      BY <2>1 DEF Test, GathersPeers, Self, Peer
    <2>3. \A p : PairOf(outer, p)' = PairOf(outer, p) /\ Mutual(outer, p)' = Mutual(outer, p)
      BY <2>1 DEF PairOf, Test, Upfront, Mine, DeviceBuffer, Buffer, Mutual
    <2>4. Gathered(DeviceCount)' = Gathered(DeviceCount) /\ Gathered(inner)' = Gathered(inner)
      BY <2>1, <2>3 DEF Gathered
    <2>5. Mutual(Self, Peer)' = Mutual(Self, Peer)
      BY <2>1, <2>2 DEF Mutual
    <2>6. RowVectors(outer)' = RowVectors(outer)
      BY <2>1 DEF RowVectors, H2D, D2H, HostBuffer, DeviceBuffer, Buffer, AllHost, AllHostBidir,
        AllHostSplit, Way, Test
    <2>7. PairVectors(outer, inner)' = PairVectors(outer, inner)
      BY <2>1 DEF PairVectors, DeviceBuffer, Buffer, Test
    <2>8. <<<<ChasedBuffer, DeviceBuffer(inner, 1, 2)>>>>' =
            <<<<ChasedBuffer, DeviceBuffer(inner, 1, 2)>>>>
      BY <2>1 DEF ChasedBuffer, DeviceBuffer, Buffer
    <2>9. QED
      BY <2>1, <2>2, <2>4, <2>5, <2>6, <2>7, <2>8 DEF VectorsInv
  <1>10. CASE Release
    <2>1. key' = key /\ vectors' = <<>>
      BY <1>10 DEF Release
    <2>2. \/ pc' = "outer"
          \/ pc' = "inner" /\ Test.loop \in {"pair", "peer"}
      BY <1>10 DEF Release, Goto
    <2>3. QED
      BY <2>1, <2>2 DEF VectorsInv, GathersPeers, Test
  <1>11. CASE FinishTest \/ Throw
    BY <1>11 DEF FinishTest, Throw, End, VectorsInv, Goto
  <1>12. QED
    BY <1>1, <1>2, <1>3, <1>4, <1>5, <1>6, <1>7, <1>8, <1>9, <1>10, <1>11
    DEF Next, Step, Ended

-------------------------------------------------------------------------------
(***************************************************************************)
(* Buffers in memory.                                                      *)
(***************************************************************************)
LEMMA InitLiveInv == Init => LiveInv
  BY DEF Init, LiveInv, Running

NoOf(b) == b.no = Len(results)

LEMMA MadeHere ==
  \A at, near, size, tag : NoOf(Buffer(at, near, size, tag))
  BY DEF NoOf, Buffer

\* A testcase holds only buffers it has made.
LEMMA HeldIsOwn ==
  ASSUME TypeInv, VectorsInv, Running
  PROVE  /\ \A b \in BuffersOf(vectors) : NoOf(b)
         /\ \A b : Held(b) => NoOf(b)
  <1> USE MadeHere
  <1>1. key \in Keys /\ Test.loop \in {"row", "pair", "peer", "to_one", "to_all"}
    BY TestIs DEF TypeInv
  <1>2. \A k \in DOMAIN vectors : NoOf(vectors[k][1]) /\ NoOf(vectors[k][2])
    <2>1. CASE vectors = <<>>
      BY <2>1
    <2>2. CASE \E n : Gathered(n)
      BY <2>2 DEF Gathered, PairOf, Upfront, Mine, DeviceBuffer
    <2>3. CASE pc \in {"measure", "release"} /\ Test.loop = "row"
      <3>1. vectors = RowVectors(outer) /\ outer \in Gpus
        BY <2>3, DeviceAssumption DEF VectorsInv, TypeInv, Gpus
      <3>2. ASSUME NEW v, RowPair(v) PROVE NoOf(v[1]) /\ NoOf(v[2])
        BY <3>2 DEF RowPair, H2D, D2H, HostBuffer, DeviceBuffer
      <3>3. CASE Test.copies \notin {"local", "chase"}
        BY <1>1, <2>3, <3>1, <3>2, <3>3, RowIs
      <3>4. CASE Test.copies = "local"
        <4>1. vectors = <<<<DeviceBuffer(outer, 1, 2), DeviceBuffer(outer, 1, 1)>>>>
          BY <1>1, <2>3, <3>1, <3>4, RowIs
        <4>2. QED
          BY <4>1 DEF DeviceBuffer
      <3>5. CASE Test.copies = "chase"
        <4>1. vectors = <<<<HostBuffer(outer, 1, 1), HostBuffer(outer, 1, 1)>>>>
          BY <1>1, <2>3, <3>1, <3>5, RowIs
        <4>2. QED
          BY <4>1 DEF HostBuffer
      <3>6. QED
        BY <3>3, <3>4, <3>5
    <2>4. CASE pc \in {"measure", "release"} /\ Test.loop = "pair"
      <3>1. vectors = PairVectors(outer, inner) /\ Test.copies \in {"read", "write", "both"}
        BY <1>1, <2>4, TestIs DEF VectorsInv
      <3>2. QED
        BY <3>1 DEF PairVectors, DeviceBuffer
    <2>5. CASE pc \in {"measure", "release"} /\ Test.loop = "peer"
      <3>1. vectors = <<<<ChasedBuffer, DeviceBuffer(inner, 1, 2)>>>>
        BY <2>5 DEF VectorsInv
      <3>2. QED
        BY <3>1 DEF ChasedBuffer, DeviceBuffer
    <2>6. QED
      BY <1>1, <2>1, <2>2, <2>3, <2>4, <2>5 DEF VectorsInv, Running, GathersPeers
  <1>3. \A b \in BuffersOf(vectors) : NoOf(b)
    BY <1>2 DEF BuffersOf
  <1>4. QED
    BY <1>3 DEF Held, Upfront, ChasedBuffer, DeviceBuffer

\* Buffers stay leaked.
LEMMA LeakedStays ==
  ASSUME IsSeq(results), results' = results \/ \E e : results' = Append(results, e),
         NEW b, Leaked(b)
  PROVE  Leaked(b)'
  <1>1. /\ Len(results) \in Nat /\ Len(results') >= Len(results) /\ Len(results') \in Nat
        /\ \A n \in 1 .. Len(results) : results'[n] = results[n]
    BY AppendIsSeq
  <1>2. QED
    BY <1>1 DEF Leaked

LEMMA StepLiveInv == TypeInv /\ VectorsInv /\ LiveInv /\ [Next]_vars => LiveInv'
  <1> SUFFICES ASSUME TypeInv, VectorsInv, LiveInv, [Next]_vars PROVE LiveInv'
    OBVIOUS
  <1>1. IsSeq(results) /\ (Running => key \in Keys)
    BY DEF TypeInv
  <1>2. CASE Waive
    <2>1. pc = "next" /\ pc' = pc /\ live' = live /\ \E e : results' = Append(results, e)
      BY <1>2 DEF Waive
    <2>2. \A b \in live : Leaked(b)
      BY <2>1 DEF LiveInv, Running
    <2>3. \A b \in live : Leaked(b)'
      BY <1>1, <2>1, <2>2, LeakedStays
    <2>4. QED
      BY <2>1, <2>3 DEF LiveInv, Running
  <1>3. CASE StartTest
    <2>1. /\ pc = "next" /\ pc' = "outer" /\ results' = results /\ vectors' = vectors
          /\ vectors = <<>> /\ key' = Head(plan)
      BY <1>3 DEF StartTest, Goto, VectorsInv
    <2>2. live' = live \union (IF GathersPeers' THEN {Upfront(d) : d \in Gpus} ELSE {})
      BY <1>3, <2>1 DEF StartTest, GathersPeers, Test
    <2>3. \A d : Upfront(d)' = Upfront(d)
      BY <2>1 DEF Upfront, DeviceBuffer, Buffer
    <2>4. \A b \in live : Leaked(b)'
      BY <1>1, <2>1, LeakedStays DEF LiveInv, Running
    <2>5. BuffersOf(vectors)' = {}
      BY <2>1 DEF BuffersOf
    <2>6. QED
      BY <2>1, <2>2, <2>3, <2>4, <2>5 DEF LiveInv, Running, Held
  <1>4. CASE PrepareRow
    <2>1. /\ Running /\ Test.loop = "row" /\ pc' = "measure" /\ pc = "outer"
          /\ results' = results /\ key' = key /\ live' = live \union BuffersOf(vectors)'
          /\ vectors = <<>>
      BY <1>4 DEF PrepareRow, Running, Goto, loops, VectorsInv, BuffersOf
    <2>2. Test' = Test /\ GathersPeers' = GathersPeers /\ ~GathersPeers
      BY <2>1 DEF Test, GathersPeers
    <2>3. BuffersOf(vectors) = {}
      BY <2>1 DEF BuffersOf
    <2>4. \A b \in live : Leaked(b)'
      BY <1>1, <2>1, <2>2, <2>3, LeakedStays DEF LiveInv, Held
    <2>5. QED
      BY <2>1, <2>2, <2>4 DEF LiveInv, Held, Running
  <1>5. CASE OpenLoop
    <2>1. /\ Running /\ pc' = "inner" /\ pc = "outer" /\ results' = results /\ Test.loop # "row"
          /\ key' = key /\ outer' = outer /\ vectors = <<>> /\ vectors' = <<>>
          /\ live' = live \union (IF Test.loop = "peer" THEN {ChasedBuffer} ELSE {})
      BY <1>5 DEF OpenLoop, Running, Goto, VectorsInv
    <2>2. Test' = Test /\ GathersPeers' = GathersPeers /\ ChasedBuffer' = ChasedBuffer
      BY <2>1 DEF Test, GathersPeers, ChasedBuffer, DeviceBuffer, Buffer
    <2>3. \A d : Upfront(d)' = Upfront(d)
      BY <2>1 DEF Upfront, DeviceBuffer, Buffer
    <2>4. BuffersOf(vectors) = {} /\ BuffersOf(vectors)' = {}
      BY <2>1 DEF BuffersOf
    <2>5. \A b \in live : Leaked(b)' \/ (GathersPeers /\ \E d \in Gpus : b = Upfront(d))
      BY <1>1, <2>1, <2>4, LeakedStays DEF LiveInv, Held
    <2>6. QED
      BY <2>1, <2>2, <2>3, <2>4, <2>5 DEF LiveInv, Held, Running, GathersPeers
  <1>6. CASE SkipPeer
    <2>1. /\ Running /\ pc' = pc /\ results' = results /\ key' = key /\ outer' = outer
          /\ vectors' = vectors /\ live' = live
      BY <1>6 DEF SkipPeer, Running
    <2>2. Test' = Test /\ GathersPeers' = GathersPeers /\ ChasedBuffer' = ChasedBuffer
      BY <2>1 DEF Test, GathersPeers, ChasedBuffer, DeviceBuffer, Buffer
    <2>3. \A d : Upfront(d)' = Upfront(d)
      BY <2>1 DEF Upfront, DeviceBuffer, Buffer
    <2>4. BuffersOf(vectors)' = BuffersOf(vectors)
      BY <2>1 DEF BuffersOf
    <2>5. \A b : (Held(b)' <=> Held(b)) /\ (Leaked(b) => Leaked(b)')
      BY <1>1, <2>1, <2>2, <2>3, <2>4, LeakedStays DEF Held
    <2>6. QED
      BY <2>1, <2>2, <2>3, <2>4, <2>5 DEF LiveInv, Running
  <1>7. CASE PreparePeer
    <2>1. /\ Running /\ pc = "inner" /\ pc' \in {"inner", "measure"} /\ results' = results
          /\ key' = key /\ outer' = outer /\ live' = live \union BuffersOf(vectors)'
          /\ (~GathersPeers => vectors = <<>>) /\ (GathersPeers => vectors' = WithPeer)
      BY <1>7 DEF PreparePeer, Running, Goto, VectorsInv, BuffersOf
    <2>2. Test' = Test /\ GathersPeers' = GathersPeers /\ ChasedBuffer' = ChasedBuffer
      BY <2>1 DEF Test, GathersPeers, ChasedBuffer, DeviceBuffer, Buffer
    <2>3. \A d : Upfront(d)' = Upfront(d)
      BY <2>1 DEF Upfront, DeviceBuffer, Buffer
    <2>4. BuffersOf(vectors) \subseteq BuffersOf(vectors)'
      <3>1. CASE GathersPeers
        <4>1. IsSeq(vectors)
          BY <2>1, <3>1 DEF VectorsInv, Gathered
        <4>2. \E e : vectors' = Append(vectors, e)
          BY <2>1, <3>1 DEF WithPeer, GathersPeers
        <4>3. \A k \in DOMAIN vectors : k \in DOMAIN vectors' /\ vectors'[k] = vectors[k]
          BY <4>1, <4>2, AppendIsSeq
        <4>4. QED
          BY <4>3 DEF BuffersOf
      <3>2. CASE ~GathersPeers
        BY <2>1, <3>2 DEF BuffersOf
      <3>3. QED
        BY <3>1, <3>2
    <2>5. \A b : (Held(b) => Held(b)') /\ (b \in BuffersOf(vectors)' => Held(b)')
                 /\ (Leaked(b) => Leaked(b)')
      BY <1>1, <2>1, <2>2, <2>3, <2>4, LeakedStays DEF Held
    <2>6. QED
      BY <2>1, <2>2, <2>3, <2>5 DEF LiveInv, Running
  <1>8. CASE EnableFails \/ AssertionFails
    BY <1>8 DEF EnableFails, AssertionFails, LiveInv, Goto, Running
  <1>9. CASE Done
    BY <1>9 DEF Done, LiveInv, Goto, Running
  <1>10. CASE CloseLoop
    <2>1. /\ Running /\ pc = "inner" /\ results' = results /\ key' = key /\ vectors' = vectors
      BY <1>10 DEF CloseLoop, Running
    <2>2. /\ Test' = Test /\ GathersPeers' = GathersPeers
          /\ BuffersOf(vectors)' = BuffersOf(vectors)
      BY <2>1 DEF Test, GathersPeers, BuffersOf
    <2>3. \A d : Upfront(d)' = Upfront(d)
      BY <2>1 DEF Upfront, DeviceBuffer, Buffer
    <2>4. CASE vectors # <<>> /\ GathersPeers
      <3>1. pc' = "measure" /\ outer' = outer /\ live' = live
        BY <1>10, <2>4 DEF CloseLoop, Goto
      <3>2. ChasedBuffer' = ChasedBuffer
        BY <2>1, <3>1 DEF ChasedBuffer, DeviceBuffer, Buffer
      <3>3. \A b : (Held(b) => Held(b)') /\ (Leaked(b) => Leaked(b)')
        BY <1>1, <2>1, <2>2, <2>3, <3>1, <3>2, LeakedStays DEF Held
      <3>4. QED
        BY <2>1, <2>2, <2>3, <3>1, <3>2, <3>3 DEF LiveInv, Running
    <2>5. CASE ~(vectors # <<>> /\ GathersPeers)
      <3>1. pc' = "outer" /\ live' = IF Test.loop = "peer" THEN live \ {ChasedBuffer} ELSE live
        BY <1>10, <2>5 DEF CloseLoop, Goto
      <3>2. vectors = <<>>
        BY <2>1, <2>5 DEF VectorsInv
      <3>3. BuffersOf(vectors) = {}
        BY <3>2 DEF BuffersOf
      <3>4. \A b \in live' : Held(b) => Held(b)'
        BY <2>1, <2>2, <2>3, <3>1, <3>3 DEF Held
      <3>5. GathersPeers => Test.loop # "peer"
        BY DEF GathersPeers
      <3>6. \A b : Leaked(b) => Leaked(b)'
        BY <1>1, <2>1, LeakedStays
      <3>7. QED
        BY <2>1, <2>2, <2>3, <3>1, <3>3, <3>4, <3>5, <3>6 DEF LiveInv, Running
    <2>6. QED
      BY <2>4, <2>5
  <1>11. CASE Measure \/ UNCHANGED vars
    <2>1. /\ results' = results /\ key' = key /\ outer' = outer /\ vectors' = vectors
          /\ live' = live /\ (pc' = pc \/ (pc = "measure" /\ pc' = "release"))
      BY <1>11 DEF Measure, vars, loops, Goto
    <2>2. Test' = Test /\ GathersPeers' = GathersPeers /\ ChasedBuffer' = ChasedBuffer
      BY <2>1 DEF Test, GathersPeers, ChasedBuffer, DeviceBuffer, Buffer
    <2>3. \A d : Upfront(d)' = Upfront(d)
      BY <2>1 DEF Upfront, DeviceBuffer, Buffer
    <2>4. BuffersOf(vectors)' = BuffersOf(vectors)
      BY <2>1 DEF BuffersOf
    <2>5. \A b : (Held(b) => Held(b)') /\ (Leaked(b) => Leaked(b)')
      BY <1>1, <2>1, <2>2, <2>3, <2>4, LeakedStays DEF Held
    <2>6. QED
      BY <2>1, <2>2, <2>3, <2>4, <2>5 DEF LiveInv, Running
  <1>12. CASE Release
    <2>1. /\ Running /\ pc = "release" /\ results' = results /\ key' = key /\ vectors' = <<>>
          /\ live' = live \ Deleted
          /\ IF Test.loop \in {"pair", "peer"}
             THEN pc' = "inner" /\ outer' = outer ELSE pc' = "outer"
      BY <1>12 DEF Release, Running, Goto
    <2>2. Test' = Test /\ GathersPeers' = GathersPeers /\ BuffersOf(vectors)' = {}
      BY <2>1 DEF Test, GathersPeers, BuffersOf
    <2>3. \A d : Upfront(d)' = Upfront(d)
      BY <2>1 DEF Upfront, DeviceBuffer, Buffer
    <2>4. Test.loop = "peer" => ChasedBuffer' = ChasedBuffer
      BY <2>1 DEF ChasedBuffer, DeviceBuffer, Buffer
    <2>5. \A b : Leaked(b) => Leaked(b)'
      BY <1>1, <2>1, LeakedStays
    <2>6. \A b : Held(b) /\ b \notin Deleted => Held(b)'
      <3>1. SUFFICES ASSUME NEW b \in BuffersOf(vectors), b \notin Deleted
                     PROVE  \/ GathersPeers /\ \E d \in Gpus : b = Upfront(d)
                            \/ Test.loop = "peer" /\ b = ChasedBuffer
        BY <2>1, <2>2, <2>3, <2>4 DEF Held
      <3>2. CASE GathersPeers
        <4>1. Gathered(DeviceCount)
          BY <2>1, <3>2 DEF VectorsInv
        <4>2. PICK k \in DOMAIN vectors : b = vectors[k][1] \/ b = vectors[k][2]
          BY <3>1 DEF BuffersOf
        <4>3. PICK p \in Gpus : vectors[k] = PairOf(outer, p)
          BY <4>1, <4>2 DEF Gathered
        <4>4. QED
          BY <3>1, <3>2, <4>2, <4>3 DEF PairOf, Deleted, GathersPeers
      <3>3. CASE Test.loop = "peer"
        <4>1. vectors = <<<<ChasedBuffer, DeviceBuffer(inner, 1, 2)>>>>
          BY <2>1, <3>3 DEF VectorsInv
        <4>2. BuffersOf(vectors) = {ChasedBuffer, DeviceBuffer(inner, 1, 2)}
              /\ Deleted = {DeviceBuffer(inner, 1, 2)}
          BY <3>3, <4>1 DEF BuffersOf, Deleted
        <4>3. QED
          BY <3>1, <3>3, <4>2
      <3>4. CASE ~GathersPeers /\ Test.loop # "peer"
        BY <3>1, <3>4 DEF Deleted, GathersPeers
      <3>5. QED
        BY <3>2, <3>3, <3>4
    <2>7. GathersPeers => \A d \in Gpus : Upfront(d) \notin Deleted
      <3>1. SUFFICES ASSUME GathersPeers, NEW d \in Gpus, Upfront(d) \in Deleted PROVE FALSE
        OBVIOUS
      <3>2. Gathered(DeviceCount)
        BY <2>1, <3>1 DEF VectorsInv
      <3>3. PICK k \in DOMAIN vectors :
              \/ Test.loop = "to_one" /\ Upfront(d) = vectors[k][2]
              \/ Test.loop = "to_all" /\ Upfront(d) = vectors[k][1]
        BY <3>1 DEF Deleted, GathersPeers
      <3>4. PICK p \in Gpus : vectors[k] = PairOf(outer, p)
        BY <3>2, <3>3 DEF Gathered
      <3>5. Upfront(d) = Mine(outer, p)
        BY <3>3, <3>4 DEF PairOf
      <3>6. Upfront(d).tag = 0 /\ Mine(outer, p).tag = 1 + p
        BY DEF Upfront, Mine, DeviceBuffer, Buffer
      <3>7. QED
        BY <3>5, <3>6, DeviceAssumption DEF Gpus
    <2>8. Test.loop = "peer" => ChasedBuffer \notin Deleted
      <3>1. SUFFICES ASSUME Test.loop = "peer" PROVE ChasedBuffer \notin Deleted
        OBVIOUS
      <3>2. vectors = <<<<ChasedBuffer, DeviceBuffer(inner, 1, 2)>>>>
        BY <2>1, <3>1 DEF VectorsInv
      <3>3. Deleted = {DeviceBuffer(inner, 1, 2)}
        BY <3>1, <3>2 DEF Deleted
      <3>4. ChasedBuffer.tag = 1 /\ DeviceBuffer(inner, 1, 2).tag = 2
        BY DEF ChasedBuffer, DeviceBuffer, Buffer
      <3>5. QED
        BY <3>3, <3>4
    <2>9. ~(Test.loop = "peer" /\ GathersPeers)
      BY DEF GathersPeers
    <2>10. QED
      BY <2>1, <2>2, <2>3, <2>4, <2>5, <2>6, <2>7, <2>8, <2>9 DEF LiveInv, Running
  <1>13. CASE FinishTest
    <2>1. /\ Running /\ pc = "outer" /\ pc' = "next" /\ \E e : results' = Append(results, e)
          /\ live' = live \ {Upfront(d) : d \in Gpus} /\ vectors = <<>>
      BY <1>13 DEF FinishTest, End, Goto, Running, VectorsInv
    <2>2. BuffersOf(vectors) = {}
      BY <2>1 DEF BuffersOf
    <2>3. \A b \in live' : Leaked(b)
      BY <2>1, <2>2 DEF LiveInv, Held
    <2>4. \A b \in live' : Leaked(b)'
      BY <1>1, <2>1, <2>3, LeakedStays
    <2>5. QED
      BY <2>1, <2>4 DEF LiveInv, Running
  <1>14. CASE Throw
    <2>1. /\ Running /\ pc' = "next" /\ live' \subseteq live
          /\ \E e : results' = Append(results, e) /\ e.status = "Error"
      BY <1>14 DEF Throw, End, Goto, Running
    <2>2. \A b \in live' : Leaked(b) \/ NoOf(b)
      BY <2>1, HeldIsOwn DEF LiveInv, Running
    <2>3. \A b : NoOf(b) => Leaked(b)'
      BY <1>1, <2>1, AppendIsSeq DEF NoOf, Leaked
    <2>4. \A b \in live' : Leaked(b)'
      BY <1>1, <2>1, <2>2, <2>3, LeakedStays
    <2>5. QED
      BY <2>1, <2>4 DEF LiveInv, Running
  <1>15. QED
    BY <1>2, <1>3, <1>4, <1>5, <1>6, <1>7, <1>8, <1>9, <1>10, <1>11, <1>12, <1>13, <1>14
    DEF Next, Step, Ended

-------------------------------------------------------------------------------
\* The loops, the pairs of buffers and the buffers in memory, in every state.
THEOREM InvHolds == Spec => []IInv
  <1>1. Init => IInv
    BY InitTypeInv, InitVectorsInv, InitLiveInv DEF IInv
  <1>2. IInv /\ [Next]_vars => IInv'
    BY StepTypeInv, StepVectorsInv, StepLiveInv DEF IInv
  <1>3. QED
    BY <1>1, <1>2, PTL DEF Spec

(***************************************************************************)
(* A testcase that passes frees all it allocated, on every path through    *)
(* its loops and whatever peers it skips: what is left between testcases   *)
(* was allocated by a testcase that ended with an exception.               *)
(***************************************************************************)
THEOREM LeaksAreThrown == Spec => []OnlyThrowsLeak
  <1>1. IInv => OnlyThrowsLeak
    BY DEF IInv, LiveInv, Running, Leaked, OnlyThrowsLeak
  <1>2. QED
    BY <1>1, InvHolds, PTL

-------------------------------------------------------------------------------
(***************************************************************************)
(* Contexts.                                                               *)
(***************************************************************************)
LEMMA TransferFields ==
  ASSUME NEW v
  PROVE  LET src == IF Swapped THEN v[2] ELSE v[1]
             dst == IF Swapped THEN v[1] ELSE v[2]
             t == Transfer(v)
         IN  IF Test.copies = "chase"
             THEN /\ t.from = v[1].at /\ t.to = v[2].near /\ t.ctx = v[2].near
                  /\ t.size = v[1].size
             ELSE /\ t.from = src.at /\ t.to = dst.at /\ t.size = src.size
                  /\ t.ctx = IF Test.prefer = "src" /\ src.at # Host THEN src.at ELSE dst.at
  BY DEF Transfer, Chase, Context

LEMMA BufferFields ==
  \A d, size, tag :
    /\ HostBuffer(d, size, tag).at = Host /\ HostBuffer(d, size, tag).near = d
    /\ HostBuffer(d, size, tag).size = size
    /\ DeviceBuffer(d, size, tag).at = d /\ DeviceBuffer(d, size, tag).near = d
    /\ DeviceBuffer(d, size, tag).size = size
  BY DEF HostBuffer, DeviceBuffer, Buffer

LEMMA HostIsNoGpu == Host \notin Gpus
  BY DeviceAssumption DEF Host, Gpus

\* The copies of a row are between the host and a GPU, or on one GPU.
LEMMA RowTransfer ==
  ASSUME key \in Keys, Test.loop = "row", NEW d \in Gpus, NEW k \in DOMAIN RowVectors(d)
  PROVE  LET t == Transfer(RowVectors(d)[k])
         IN  /\ t.ctx \in Gpus /\ {t.from, t.to} \subseteq {Host, t.ctx}
             /\ Test.engine = "latency" => t.ctx = d
  <1> DEFINE v == RowVectors(d)[k]
  <1>1. ~Swapped /\ Test.prefer = "src" /\ (Test.engine = "latency" => Test.copies = "chase")
    BY TestIs DEF Swapped, GathersPeers
  <1>2. CASE Test.copies \notin {"local", "chase"}
    <2>1. RowPair(v)
      BY <1>2, RowIs
    <2> HIDE DEF v
    <2>2. PICK g \in Gpus, size \in {1, 2}, tag \in {1, 2} :
               v = H2D(g, size, tag) \/ v = D2H(g, size, tag)
      BY <2>1 DEF RowPair
    <2>3. CASE v = H2D(g, size, tag)
      <3>1. v[1].at = Host /\ v[2].at = g
        BY <2>3, BufferFields DEF H2D
      <3>2. QED
        BY <1>1, <1>2, <3>1, TransferFields DEF v
    <2>4. CASE v = D2H(g, size, tag)
      <3>1. v[1].at = g /\ v[2].at = Host /\ g # Host
        BY <2>4, BufferFields, HostIsNoGpu DEF D2H
      <3>2. QED
        BY <1>1, <1>2, <3>1, TransferFields DEF v
    <2>5. QED
      BY <2>2, <2>3, <2>4
  <1>3. CASE Test.copies = "local"
    <2>1. v = <<DeviceBuffer(d, 1, 2), DeviceBuffer(d, 1, 1)>>
      BY <1>3, RowIs
    <2> HIDE DEF v
    <2>2. v[1].at = d /\ v[2].at = d
      BY <2>1, BufferFields
    <2>3. QED
      BY <1>1, <1>3, <2>2, TransferFields DEF v
  <1>4. CASE Test.copies = "chase"
    <2>1. v = <<HostBuffer(d, 1, 1), HostBuffer(d, 1, 1)>>
      BY <1>4, RowIs
    <2> HIDE DEF v
    <2>2. v[1].at = Host /\ v[2].near = d
      BY <2>1, BufferFields
    <2>3. QED
      BY <1>1, <1>4, <2>2, TransferFields DEF v
  <1>5. QED
    BY <1>2, <1>3, <1>4

(***************************************************************************)
(* Every measurement finds its buffers allocated, and every copy of it     *)
(* runs in the context of a GPU which is at one end of the copy and has    *)
(* been given access to the other; the latency of a GPU is measured with   *)
(* its context current.                                                    *)
(***************************************************************************)
THEOREM CopiesReach == Spec => []CopiesReachTheirMemory
  <1>1. IInv => CopiesReachTheirMemory
    <2>1. SUFFICES ASSUME IInv, pc = "measure"
                   PROVE  /\ vectors # <<>>
                          /\ \A k \in DOMAIN vectors :
                               LET t == Transfer(vectors[k])
                               IN  /\ t.ctx \in Gpus
                                   /\ \A g \in {t.from, t.to} \ {Host, t.ctx} :
                                        <<t.ctx, g>> \in enabled
                                   /\ Test.engine = "latency" => ctx = t.ctx
      BY DEF IInv, LiveInv, Running, CopiesReachTheirMemory, Transfers
    <2>2. /\ key \in Keys /\ outer \in Gpus
          /\ Test.loop \in {"row", "pair", "peer", "to_one", "to_all"}
          /\ Test.loop \in {"pair", "peer"} => inner \in Gpus
      BY <2>1, TestIs, DeviceAssumption DEF IInv, TypeInv, Running, Gpus
    <2>3. CASE Test.loop = "row"
      <3>1. vectors = RowVectors(outer) /\ (Test.engine = "latency" => ctx = outer)
        BY <2>1, <2>3 DEF IInv, VectorsInv
      <3>2. 1 \in DOMAIN vectors
        BY <2>2, <2>3, <3>1, RowIs
      <3>3. vectors # <<>>
        BY <3>2
      <3>4. QED
        BY <2>2, <2>3, <3>1, <3>3, RowTransfer
    <2>4. ASSUME NEW s \in Gpus, NEW p \in Gpus, Mutual(s, p), Test.loop # "row", NEW v,
                 {v[1].at, v[2].at} = {s, p}, Test.copies = "chase" => v[2].near = v[2].at
          PROVE  LET t == Transfer(v)
                 IN  /\ t.ctx \in Gpus
                     /\ \A g \in {t.from, t.to} \ {Host, t.ctx} : <<t.ctx, g>> \in enabled
      <3> DEFINE t == Transfer(v)
      <3>1. {t.from, t.to} = {s, p} /\ t.ctx \in {s, p}
        BY <2>4, TransferFields, HostIsNoGpu
      <3> HIDE DEF t
      <3>2. <<s, p>> \in enabled /\ <<p, s>> \in enabled
        BY <2>4 DEF Mutual
      <3>3. \A g \in {t.from, t.to} : g = t.ctx \/ <<t.ctx, g>> \in enabled
        BY <3>1, <3>2
      <3>4. t.ctx \in Gpus
        BY <3>1
      <3>5. QED
        BY <3>3, <3>4 DEF t
    <2>5. CASE Test.loop = "pair"
      <3>1. /\ vectors = PairVectors(outer, inner) /\ Mutual(outer, inner)
            /\ Test.copies \in {"read", "write", "both"} /\ Test.engine # "latency"
        BY <2>1, <2>2, <2>5, TestIs DEF IInv, VectorsInv, Self, Peer
      <3>2. vectors # <<>> /\ \A k \in DOMAIN vectors :
              {vectors[k][1].at, vectors[k][2].at} = {outer, inner}
        BY <3>1, BufferFields DEF PairVectors
      <3>3. ASSUME NEW k \in DOMAIN vectors
            PROVE  LET t == Transfer(vectors[k])
                   IN  /\ t.ctx \in Gpus
                       /\ \A g \in {t.from, t.to} \ {Host, t.ctx} : <<t.ctx, g>> \in enabled
        BY <2>2, <2>4, <2>5, <3>1, <3>2
      <3>4. QED
        BY <3>1, <3>2, <3>3
    <2>6. CASE Test.loop = "peer"
      <3>1. /\ vectors = <<<<ChasedBuffer, DeviceBuffer(inner, 1, 2)>>>> /\ Mutual(inner, outer)
            /\ Test.copies = "chase" /\ ctx = inner
        BY <2>1, <2>2, <2>6, TestIs DEF IInv, VectorsInv, Self, Peer
      <3>2. vectors # <<>> /\ \A k \in DOMAIN vectors :
              vectors[k][1].at = outer /\ vectors[k][2].at = inner /\ vectors[k][2].near = inner
        BY <3>1, BufferFields DEF ChasedBuffer
      <3>3. \A k \in DOMAIN vectors : Transfer(vectors[k]).ctx = inner
        BY <3>1, <3>2, TransferFields
      <3>4. QED
        BY <2>2, <2>4, <2>6, <3>1, <3>2, <3>3
    <2>7. CASE GathersPeers
      <3>1. /\ Gathered(DeviceCount) /\ vectors # <<>> /\ Test.copies # "chase"
            /\ Test.engine # "latency" /\ Test.loop # "row"
        BY <2>1, <2>2, <2>7, TestIs DEF IInv, VectorsInv, GathersPeers
      <3>2. ASSUME NEW k \in DOMAIN vectors
            PROVE  \E p \in Gpus : /\ Mutual(outer, p)
                                   /\ {vectors[k][1].at, vectors[k][2].at} = {outer, p}
        <4>1. PICK p \in Gpus : Mutual(outer, p) /\ vectors[k] = PairOf(outer, p)
          BY <3>1, <3>2 DEF Gathered
        <4>2. {vectors[k][1].at, vectors[k][2].at} = {outer, p}
          BY <4>1, BufferFields DEF PairOf, Upfront, Mine
        <4>3. QED
          BY <4>1, <4>2
      <3>3. QED
        BY <2>2, <2>4, <3>1, <3>2
    <2>8. QED
      BY <2>2, <2>3, <2>5, <2>6, <2>7 DEF GathersPeers
  <1>2. QED
    BY <1>1, InvHolds, PTL

-------------------------------------------------------------------------------
(***************************************************************************)
(* The cells that the loops have behind them.                              *)
(***************************************************************************)
Nested == Test.loop \in {"pair", "peer"}
Major(rc) == IF Test.loop = "pair" THEN rc[1] ELSE rc[2]
Minor(rc) == IF Test.loop = "pair" THEN rc[2] ELSE rc[1]

Behind(rc) ==
  \/ Major(rc) < outer
  \/ Nested /\ pc # "outer" /\ Major(rc) = outer /\ Minor(rc) < inner
  \/ pc = "release" /\ rc = Cell

CellsInv ==
  /\ pc = "next" => DOMAIN cells = {}
  /\ Running => DOMAIN cells = {rc \in CellsOf(key) : Behind(rc)}
  /\ \A rc \in DOMAIN cells : KeepsPromise(key, rc[1], rc[2], cells[rc])
  /\ MatrixKeepsItsPromise

(***************************************************************************)
(* What a measurement promises.                                            *)
(***************************************************************************)
LEMMA FlowsOf ==
  ASSUME NEW k, NEW ts
  PROVE  /\ \A i \in DOMAIN ts : Flow(ts[i]) \in Flows(k, ts)
         /\ Tests[k].engine = "split" =>
              \A i \in DOMAIN ts : Reverse(Flow(ts[i])) \in Flows(k, ts)
         /\ \A f \in Flows(k, ts) : \E i \in DOMAIN ts :
              f = Flow(ts[i]) \/ (Tests[k].engine = "split" /\ f = Reverse(Flow(ts[i])))
  BY DEF Flows

LEMMA FewFlows ==
  ASSUME NEW k, NEW ts
  PROVE  /\ DOMAIN ts = {1} =>
              Flows(k, ts) = IF Tests[k].engine = "split"
                             THEN {Flow(ts[1]), Reverse(Flow(ts[1]))} ELSE {Flow(ts[1])}
         /\ DOMAIN ts = {1, 2} /\ Tests[k].engine # "split" =>
              Flows(k, ts) = {Flow(ts[1]), Flow(ts[2])}
  <1> DEFINE forth == {Flow(ts[i]) : i \in DOMAIN ts}
  <1>1. Flows(k, ts) = IF Tests[k].engine = "split"
                       THEN forth \union {Reverse(f) : f \in forth} ELSE forth
    BY DEF Flows
  <1>2. DOMAIN ts = {1} => forth = {Flow(ts[1])}
    OBVIOUS
  <1>3. DOMAIN ts = {1, 2} => forth = {Flow(ts[1]), Flow(ts[2])}
    OBVIOUS
  <1> HIDE DEF forth
  <1>4. QED
    BY <1>1, <1>2, <1>3

LEMMA HostDeclares ==
  \A c : /\ Declares("none", 0, c) = {}
         /\ Declares("to_device", 0, c) = {<<Host, c>>}
         /\ Declares("to_host", 0, c) = {<<c, Host>>}
         /\ Declares("local", 0, c) = {<<c, c>>}
  BY DEF Declares

LEMMA AllHostDeclares ==
  ASSUME NEW c, NEW f
  PROVE  /\ f \in Declares("others_to_host", 0, c) <=> \E g \in Gpus \ {c} : f = <<g, Host>>
         /\ f \in Declares("host_to_others", 0, c) <=> \E g \in Gpus \ {c} : f = <<Host, g>>
         /\ f \in Declares("all_both_ways", 0, c) <=>
              \E g \in Gpus : f = <<g, Host>> \/ f = <<Host, g>>
  <1>1. /\ Declares("others_to_host", 0, c) = (Gpus \ {c}) \X {Host}
        /\ Declares("host_to_others", 0, c) = {Host} \X (Gpus \ {c})
        /\ Declares("all_both_ways", 0, c) = (Gpus \X {Host}) \union ({Host} \X Gpus)
    BY DEF Declares
  <1>2. QED
    BY <1>1

LEMMA PeerDeclares ==
  \A r, c : /\ Declares("none", r, c) = {}
            /\ Declares("from_peer", r, c) = {<<c, r>>}
            /\ Declares("to_peer", r, c) = {<<r, c>>}
            /\ Declares("both_ways", r, c) = {<<r, c>>, <<c, r>>}
  BY DEF Declares

LEMMA GatherDeclares ==
  \A c : /\ Declares("none", 0, c) = {}
         /\ Declares("inbound", 0, c) = Accessible(c) \X {c}
         /\ Declares("outbound", 0, c) = {c} \X Accessible(c)
  BY DEF Declares

\* A testcase with one matrix, which holds the bandwidth of the first copy.
LEMMA ReportsFirst ==
  ASSUME NEW k, NEW r, NEW c, NEW ts, Tests[k].value = "FIRST",
         \/ Declares(Declared[k].reports, r, c) = {Flow(ts[1])}
         \/ /\ Tests[k].engine = "split"
            /\ Declares(Declared[k].reports, r, c) = {Reverse(Flow(ts[1]))}
  PROVE  \A m \in MatricesOf(k) : Declares(Promised(k, m), r, c) \in Readings(k, m, ts)
  <1> DEFINE f == Flow(ts[1])
             b == Reverse(f)
  <1>1. MatricesOf(k) = {"only"} /\ Promised(k, "only") = Declared[k].reports
    BY DEF MatricesOf, Promised, Described
  <1>2. Readings(k, "only", ts) = IF Tests[k].engine = "split" THEN {{f}, {b}} ELSE {{f}}
    <2>1. MeasuredIn(k, "only", ts) = {1}
      BY DEF MeasuredIn
    <2>2. {Flow(ts[i]) : i \in MeasuredIn(k, "only", ts)} = {f}
      BY <2>1
    <2>3. QED
      BY <2>2 DEF Readings
  <1>3. \/ Declares(Declared[k].reports, r, c) = {f}
        \/ Tests[k].engine = "split" /\ Declares(Declared[k].reports, r, c) = {b}
    OBVIOUS
  <1> HIDE DEF f, b
  <1>4. Declares(Declared[k].reports, r, c) \in Readings(k, "only", ts)
    BY <1>2, <1>3
  <1>5. QED
    BY <1>1, <1>4

\* Testcases of host memory: nothing is said of the side that launches.
LEMMA HostPromise ==
  ASSUME NEW k, NEW c, NEW ts, Declared[k].launches = "any", Tests[k].value = "FIRST",
         \A i \in DOMAIN ts : i # 1 => SizedAsSaid(k, ts[i], ts[1]),
         \/ Declares(Declared[k].reports, 0, c) = {Flow(ts[1])}
         \/ /\ Tests[k].engine = "split"
            /\ Declares(Declared[k].reports, 0, c) = {Reverse(Flow(ts[1]))},
         Flows(k, ts) = Declares(Declared[k].reports, 0, c)
                        \union Declares(Declared[k].load, 0, c)
  PROVE  KeepsPromise(k, 0, c, ts)
  <1>1. \A m \in MatricesOf(k) : Declares(Promised(k, m), 0, c) \in Readings(k, m, ts)
    BY ReportsFirst
  <1>2. LaunchesFrom(k) = "any"
    BY Exceptions DEF LaunchesFrom
  <1>3. \A t : LaunchedAsSaid(k, t)
    BY <1>2 DEF LaunchedAsSaid
  <1>4. QED
    BY <1>1, <1>3 DEF KeepsPromise

LEMMA RowFlow ==
  ASSUME key \in Keys, Test.loop = "row", Test.copies # "chase", NEW d \in Gpus
  PROVE  \A size, tag :
           /\ Flow(Transfer(H2D(d, size, tag))) = <<Host, d>>
           /\ Flow(Transfer(D2H(d, size, tag))) = <<d, Host>>
           /\ Transfer(H2D(d, size, tag)).size = size
           /\ Transfer(D2H(d, size, tag)).size = size
  <1> SUFFICES ASSUME NEW size, NEW tag
               PROVE  /\ Flow(Transfer(H2D(d, size, tag))) = <<Host, d>>
                      /\ Flow(Transfer(D2H(d, size, tag))) = <<d, Host>>
                      /\ Transfer(H2D(d, size, tag)).size = size
                      /\ Transfer(D2H(d, size, tag)).size = size
    OBVIOUS
  <1>1. ~Swapped
    BY DEF Swapped, GathersPeers
  <1> DEFINE v == H2D(d, size, tag)
             w == D2H(d, size, tag)
  <1>2. /\ v[1].at = Host /\ v[2].at = d /\ v[1].size = size
        /\ w[1].at = d /\ w[2].at = Host /\ w[1].size = size
    BY BufferFields DEF H2D, D2H
  <1> HIDE DEF v, w
  <1>3. QED
    BY <1>1, <1>2, TransferFields DEF Flow, v, w

\* One copy, or one with its opposite of twice the size.
LEMMA RowPromise ==
  ASSUME key \in Keys, RowEntry(key), NEW d \in Gpus, vectors = RowVectors(d)
  PROVE  KeepsPromise(key, 0, d, Transfers)
  <1> DEFINE ts == Transfers
             reports == Declared[key].reports
             load == Declared[key].load
  <1>1. DOMAIN ts = DOMAIN vectors /\ \A k \in DOMAIN vectors : ts[k] = Transfer(vectors[k])
    BY DEF Transfers
  <1>2. /\ Test.loop = "row" /\ Test.value = "FIRST" /\ Declared[key].launches = "any"
        /\ Test = Tests[key]
    BY DEF RowEntry, Entry, Says, Test
  <1> HIDE DEF ts, reports, load
  <1>3. Reverse(<<Host, d>>) = <<d, Host>> /\ Reverse(<<d, Host>>) = <<Host, d>>
    BY DEF Reverse
  <1>4. CASE Test.copies = "H2D"
    <2>1. vectors = <<H2D(d, 1, 1)>>
      BY <1>4 DEF RowVectors
    <2>2. DOMAIN ts = {1} /\ Flow(ts[1]) = <<Host, d>>
      BY <1>1, <1>2, <1>4, <2>1, RowFlow
    <2>3. \/ /\ Tests[key].engine # "split" /\ reports = "to_device" /\ load = "none"
          \/ /\ Tests[key].engine = "split"
             /\ \/ reports = "to_device" /\ load = "to_host"
                \/ reports = "to_host" /\ load = "to_device"
      BY <1>2, <1>4 DEF RowEntry, Entry, Says, reports, load
    <2>4. \/ Declares(reports, 0, d) = {Flow(ts[1])}
          \/ Tests[key].engine = "split" /\ Declares(reports, 0, d) = {Reverse(Flow(ts[1]))}
      BY <1>3, <2>2, <2>3, HostDeclares
    <2>5. Flows(key, ts) = IF Tests[key].engine = "split"
                           THEN {<<Host, d>>, <<d, Host>>} ELSE {<<Host, d>>}
      BY <1>3, <2>2, FewFlows
    <2>6. Flows(key, ts) = Declares(reports, 0, d) \union Declares(load, 0, d)
      <3>1. CASE Tests[key].engine = "split"
        <4>1. \/ /\ Declares(reports, 0, d) = {<<Host, d>>} /\ Declares(load, 0, d) = {<<d, Host>>}
              \/ /\ Declares(reports, 0, d) = {<<d, Host>>} /\ Declares(load, 0, d) = {<<Host, d>>}
          BY <2>3, <3>1, HostDeclares
        <4>2. QED
          BY <2>5, <3>1, <4>1
      <3>2. CASE Tests[key].engine # "split"
        <4>1. Declares(reports, 0, d) = {<<Host, d>>} /\ Declares(load, 0, d) = {}
          BY <2>3, <3>2, HostDeclares
        <4>2. QED
          BY <2>5, <3>2, <4>1
      <3>3. QED
        BY <3>1, <3>2
    <2>7. QED
      BY <1>2, <2>2, <2>4, <2>6, HostPromise DEF ts, reports, load
  <1>5. CASE Test.copies = "D2H"
    <2>1. vectors = <<D2H(d, 1, 1)>>
      BY <1>5 DEF RowVectors
    <2>2. DOMAIN ts = {1} /\ Flow(ts[1]) = <<d, Host>>
      BY <1>1, <1>2, <1>5, <2>1, RowFlow
    <2>3. Tests[key].engine # "split" /\ reports = "to_host" /\ load = "none"
      BY <1>2, <1>5 DEF RowEntry, Entry, Says, reports, load
    <2>4. Declares(reports, 0, d) = {Flow(ts[1])} /\ Declares(load, 0, d) = {}
      BY <2>2, <2>3, HostDeclares
    <2>5. Flows(key, ts) = Declares(reports, 0, d) \union Declares(load, 0, d)
      BY <2>2, <2>3, <2>4, FewFlows
    <2>6. QED
      BY <1>2, <2>2, <2>4, <2>5, HostPromise DEF ts, reports, load
  <1>6. CASE Test.copies \in {"H2D_D2H", "D2H_H2D"}
    <2> DEFINE there == IF Test.copies = "H2D_D2H" THEN <<Host, d>> ELSE <<d, Host>>
               back == IF Test.copies = "H2D_D2H" THEN <<d, Host>> ELSE <<Host, d>>
    <2>1. vectors = IF Test.copies = "H2D_D2H" THEN <<H2D(d, 1, 1), D2H(d, 2, 1)>>
                                               ELSE <<D2H(d, 1, 1), H2D(d, 2, 1)>>
      BY <1>6 DEF RowVectors
    <2>2. /\ DOMAIN ts = {1, 2} /\ ts[1].size = 1 /\ ts[2].size = 2
          /\ Flow(ts[1]) = there /\ Flow(ts[2]) = back
      BY <1>1, <1>2, <1>6, <2>1, RowFlow
    <2>3. /\ Tests[key].engine # "split"
          /\ reports = IF Test.copies = "H2D_D2H" THEN "to_device" ELSE "to_host"
          /\ load = IF Test.copies = "H2D_D2H" THEN "to_host" ELSE "to_device"
      BY <1>2, <1>6 DEF RowEntry, Entry, Says, reports, load
    <2>4. \A i \in DOMAIN ts : i # 1 => SizedAsSaid(key, ts[i], ts[1])
      <3>1. load # "none" /\ key \notin EqualInterference
        BY <1>2, <1>6, <2>3, Exceptions
      <3>2. QED
        BY <2>2, <3>1 DEF SizedAsSaid, load
    <2>5. Declares(reports, 0, d) = {there} /\ Declares(load, 0, d) = {back}
      BY <2>3, HostDeclares
    <2> HIDE DEF there, back
    <2>6. Flows(key, ts) = {there, back}
      BY <2>2, <2>3, FewFlows
    <2>7. Flows(key, ts) = Declares(reports, 0, d) \union Declares(load, 0, d)
      BY <2>5, <2>6
    <2>8. QED
      BY <1>2, <2>2, <2>4, <2>5, <2>7, HostPromise DEF ts, reports, load
  <1>7. CASE Test.copies \in {"local", "chase"}
    <2> DEFINE from == IF Test.copies = "local" THEN d ELSE Host
               v == IF Test.copies = "local"
                    THEN <<DeviceBuffer(d, 1, 2), DeviceBuffer(d, 1, 1)>>
                    ELSE <<HostBuffer(d, 1, 1), HostBuffer(d, 1, 1)>>
    <2>1. vectors = <<v>>
      BY <1>7 DEF RowVectors
    <2>2. /\ v[1].at = from /\ v[2].near = d /\ (Test.copies = "local" => v[2].at = d)
      BY <1>7, BufferFields
    <2>3. ~Swapped
      BY <1>2 DEF Swapped, GathersPeers
    <2> HIDE DEF v
    <2>4. Flow(Transfer(v)) = <<from, d>>
      BY <1>7, <2>2, <2>3, TransferFields DEF Flow
    <2>5. DOMAIN ts = {1} /\ Flow(ts[1]) = <<from, d>>
      BY <1>1, <2>1, <2>4
    <2>6. /\ Tests[key].engine # "split" /\ load = "none"
          /\ reports = IF Test.copies = "local" THEN "local" ELSE "to_device"
      BY <1>2, <1>7 DEF RowEntry, Entry, Says, reports, load
    <2>7. Declares(reports, 0, d) = {<<from, d>>} /\ Declares(load, 0, d) = {}
      BY <1>7, <2>6, HostDeclares
    <2> HIDE DEF from
    <2>8. Flows(key, ts) = Declares(reports, 0, d) \union Declares(load, 0, d)
      BY <2>5, <2>6, <2>7, FewFlows
    <2>9. QED
      BY <1>2, <2>5, <2>7, <2>8, HostPromise DEF ts, reports, load
  <1>8. QED
    BY <1>2, <1>4, <1>5, <1>6, <1>7 DEF RowEntry, Entry

LEMMA WayFlow ==
  ASSUME key \in Keys, Test.loop = "row", Test.copies # "chase", NEW g \in Gpus,
         NEW s \in BOOLEAN, NEW size
  PROVE  /\ Flow(Transfer(Way(s, g, size))) = IF s THEN <<Host, g>> ELSE <<g, Host>>
         /\ Transfer(Way(s, g, size)).size = size
  <1>1. CASE s
    BY <1>1, RowFlow DEF Way
  <1>2. CASE ~s
    BY <1>2, RowFlow DEF Way
  <1>3. QED
    BY <1>1, <1>2

\* One copy per GPU, in one direction, the measured one first.
LEMMA AllHostPromise ==
  ASSUME key \in Keys, Test.loop = "row", Test.copies # "chase", NEW d \in Gpus,
         NEW s \in BOOLEAN, vectors = AllHost(s, d), Test.value = "FIRST",
         Test.copies \notin {"all_H2D_split", "all_D2H_split"}, Test.engine # "split",
         Says(key, IF s THEN "to_device" ELSE "to_host",
                   IF s THEN "host_to_others" ELSE "others_to_host", "any")
  PROVE  KeepsPromise(key, 0, d, Transfers)
  <1> DEFINE ts == Transfers
             F(g) == IF s THEN <<Host, g>> ELSE <<g, Host>>
             reports == IF s THEN "to_device" ELSE "to_host"
             load == IF s THEN "host_to_others" ELSE "others_to_host"
  <1>1. /\ DOMAIN ts = 1 .. DeviceCount
        /\ \A k \in 1 .. DeviceCount : ts[k] = Transfer(AllHostAt(s, d, k))
    BY AllHostIs DEF Transfers
  <1> HIDE DEF ts
  <1>2. 1 \in DOMAIN ts /\ Flow(ts[1]) = F(d) /\ ts[1].size = 1
    BY <1>1, WayFlow, DeviceAssumption DEF AllHostAt
  <1>3. ASSUME NEW k \in 1 .. DeviceCount - 1
        PROVE  /\ k + 1 \in DOMAIN ts /\ Flow(ts[k + 1]) = F(Other(d, k))
               /\ ts[k + 1].size = 2
    <2>1. k + 1 \in 1 .. DeviceCount /\ k + 1 # 1 /\ (k + 1) - 1 = k
      BY DeviceAssumption
    <2>2. ts[k + 1] = Transfer(Way(s, Other(d, k), 2))
      BY <1>1, <2>1 DEF AllHostAt
    <2>3. Other(d, k) \in Gpus
      BY OtherIs
    <2> HIDE DEF F
    <2>4. Flow(Transfer(Way(s, Other(d, k), 2))) = F(Other(d, k))
      BY <2>3, WayFlow DEF F
    <2>5. Transfer(Way(s, Other(d, k), 2)).size = 2
      BY <2>3, WayFlow
    <2>6. QED
      BY <1>1, <2>1, <2>2, <2>4, <2>5
  <1> HIDE DEF F
  <1>4. \A i \in DOMAIN ts : i # 1 => SizedAsSaid(key, ts[i], ts[1])
    <2>1. SUFFICES ASSUME NEW i \in DOMAIN ts, i # 1
                   PROVE  SizedAsSaid(key, ts[i], ts[1])
      OBVIOUS
    <2>2. i - 1 \in 1 .. DeviceCount - 1 /\ (i - 1) + 1 = i
      BY <1>1, <2>1, DeviceAssumption
    <2>3. ts[i].size = 2
      BY <1>3, <2>2
    <2>4. Declared[key].load # "none" /\ key \notin EqualInterference
      BY Exceptions DEF Says, Test
    <2>5. QED
      BY <1>2, <2>3, <2>4 DEF SizedAsSaid
  <1>5. \A g \in Gpus \ {d} : F(g) \in Flows(key, ts)
    <2>1. SUFFICES ASSUME NEW g \in Gpus \ {d} PROVE F(g) \in Flows(key, ts)
      OBVIOUS
    <2>2. PICK k \in 1 .. DeviceCount - 1 : Other(d, k) = g
      BY OtherIs
    <2>3. k + 1 \in DOMAIN ts /\ Flow(ts[k + 1]) = F(g)
      BY <1>3, <2>2
    <2>4. QED
      BY <2>3, FlowsOf
  <1>6. \A f : f \in Declares(load, 0, d) <=> \E g \in Gpus \ {d} : f = F(g)
    <2>1. CASE s
      BY <2>1, AllHostDeclares DEF F
    <2>2. CASE ~s
      BY <2>2, AllHostDeclares DEF F
    <2>3. QED
      BY <2>1, <2>2
  <1>7. Declares(reports, 0, d) = {F(d)}
    BY HostDeclares DEF F
  <1>8. \A f \in Flows(key, ts) : f = F(d) \/ \E g \in Gpus \ {d} : f = F(g)
    <2>1. SUFFICES ASSUME NEW f \in Flows(key, ts)
                   PROVE  f = F(d) \/ \E g \in Gpus \ {d} : f = F(g)
      OBVIOUS
    <2>2. PICK i \in DOMAIN ts : f = Flow(ts[i])
      BY FlowsOf DEF Test
    <2>3. CASE i = 1
      BY <1>2, <2>2, <2>3
    <2>4. CASE i # 1
      <3>1. i - 1 \in 1 .. DeviceCount - 1 /\ (i - 1) + 1 = i
        BY <1>1, <2>4, DeviceAssumption
      <3>2. f = F(Other(d, i - 1))
        BY <1>3, <2>2, <3>1
      <3>3. Other(d, i - 1) \in Gpus \ {d}
        BY <3>1, OtherIs
      <3>4. QED
        BY <3>2, <3>3
    <2>5. QED
      BY <2>3, <2>4
  <1>9. F(d) \in Flows(key, ts)
    BY <1>2, FlowsOf
  <1>10. Flows(key, ts) = Declares(reports, 0, d) \union Declares(load, 0, d)
    BY <1>5, <1>6, <1>7, <1>8, <1>9
  <1>11. /\ Declared[key].reports = reports /\ Declared[key].load = load
         /\ Declared[key].launches = "any"
    BY DEF Says
  <1> HIDE DEF reports, load
  <1>12. QED
    BY <1>2, <1>4, <1>7, <1>10, <1>11, HostPromise DEF ts, Test

\* One copy per GPU by a kernel that copies both ways.
LEMMA SplitPromise ==
  ASSUME key \in Keys, Test.loop = "row", Test.copies # "chase", NEW d \in Gpus,
         NEW s \in BOOLEAN, vectors = AllHostSplit(s, d), Test.value = "FIRST",
         Test.engine = "split", Test.copies \in {"all_H2D_split", "all_D2H_split"},
         Says(key, IF s THEN "to_device" ELSE "to_host", "all_both_ways", "any")
  PROVE  KeepsPromise(key, 0, d, Transfers)
  <1> DEFINE ts == Transfers
             F(g) == IF s THEN <<Host, g>> ELSE <<g, Host>>
             reports == IF s THEN "to_device" ELSE "to_host"
  <1>1. /\ DOMAIN ts = 1 .. DeviceCount
        /\ \A k \in 1 .. DeviceCount : ts[k] = Transfer(SplitAt(s, d, k))
    BY AllHostSplitIs DEF Transfers
  <1> HIDE DEF ts
  <1>2. 1 \in DOMAIN ts /\ Flow(ts[1]) = F(d) /\ ts[1].size = 1
    BY <1>1, WayFlow, DeviceAssumption DEF SplitAt
  <1>3. ASSUME NEW k \in 1 .. DeviceCount - 1
        PROVE  /\ k + 1 \in DOMAIN ts /\ Flow(ts[k + 1]) = <<Other(d, k), Host>>
               /\ ts[k + 1].size = 1
    <2>1. k + 1 \in 1 .. DeviceCount /\ k + 1 # 1 /\ (k + 1) - 1 = k
      BY DeviceAssumption
    <2>2. ts[k + 1] = Transfer(D2H(Other(d, k), 1, 1))
      BY <1>1, <2>1 DEF SplitAt
    <2>3. Other(d, k) \in Gpus
      BY OtherIs
    <2>4. /\ Flow(Transfer(D2H(Other(d, k), 1, 1))) = <<Other(d, k), Host>>
          /\ Transfer(D2H(Other(d, k), 1, 1)).size = 1
      BY <2>3, RowFlow
    <2>5. QED
      BY <1>1, <2>1, <2>2, <2>4
  <1>4. \A i \in DOMAIN ts : i # 1 => SizedAsSaid(key, ts[i], ts[1])
    <2>1. SUFFICES ASSUME NEW i \in DOMAIN ts, i # 1
                   PROVE  SizedAsSaid(key, ts[i], ts[1])
      OBVIOUS
    <2>2. i - 1 \in 1 .. DeviceCount - 1 /\ (i - 1) + 1 = i
      BY <1>1, <2>1, DeviceAssumption
    <2>3. ts[i].size = 1
      BY <1>3, <2>2
    <2>4. key \in EqualInterference
      BY Exceptions DEF Says, Test
    <2>5. QED
      BY <1>2, <2>3, <2>4 DEF SizedAsSaid
  <1>5. \A g : Reverse(<<Host, g>>) = <<g, Host>> /\ Reverse(<<g, Host>>) = <<Host, g>>
    BY DEF Reverse
  <1>6. \A g \in Gpus : <<Host, g>> \in Flows(key, ts) /\ <<g, Host>> \in Flows(key, ts)
    <2>1. SUFFICES ASSUME NEW g \in Gpus
                   PROVE  <<Host, g>> \in Flows(key, ts) /\ <<g, Host>> \in Flows(key, ts)
      OBVIOUS
    <2>2. \E i \in DOMAIN ts : Flow(ts[i]) \in {<<Host, g>>, <<g, Host>>}
      <3>1. CASE g = d
        BY <1>2, <3>1
      <3>2. CASE g # d
        <4>1. PICK k \in 1 .. DeviceCount - 1 : Other(d, k) = g
          BY <3>2, OtherIs
        <4>2. k + 1 \in DOMAIN ts /\ Flow(ts[k + 1]) = <<g, Host>>
          BY <1>3, <4>1
        <4>3. QED
          BY <4>2
      <3>3. QED
        BY <3>1, <3>2
    <2>3. PICK i \in DOMAIN ts : Flow(ts[i]) \in {<<Host, g>>, <<g, Host>>}
      BY <2>2
    <2>4. Flow(ts[i]) \in Flows(key, ts) /\ Reverse(Flow(ts[i])) \in Flows(key, ts)
      BY FlowsOf DEF Test
    <2>5. QED
      BY <1>5, <2>3, <2>4
  <1>7. \A f \in Flows(key, ts) : \E g \in Gpus : f = <<g, Host>> \/ f = <<Host, g>>
    <2>1. SUFFICES ASSUME NEW i \in DOMAIN ts
                   PROVE  \E g \in Gpus : Flow(ts[i]) \in {<<g, Host>>, <<Host, g>>}
      <3>1. ASSUME NEW f \in Flows(key, ts)
            PROVE  \E g \in Gpus : f = <<g, Host>> \/ f = <<Host, g>>
        <4>1. PICK i \in DOMAIN ts : f = Flow(ts[i]) \/ f = Reverse(Flow(ts[i]))
          BY FlowsOf
        <4>2. PICK g \in Gpus : Flow(ts[i]) \in {<<g, Host>>, <<Host, g>>}
          BY <2>1
        <4>3. QED
          BY <1>5, <4>1, <4>2
      <3>2. QED
        BY <3>1
    <2>2. CASE i = 1
      BY <1>2, <2>2
    <2>3. CASE i # 1
      <3>1. i - 1 \in 1 .. DeviceCount - 1 /\ (i - 1) + 1 = i
        BY <1>1, <2>3, DeviceAssumption
      <3>2. Flow(ts[i]) = <<Other(d, i - 1), Host>> /\ Other(d, i - 1) \in Gpus
        BY <1>3, <3>1, OtherIs
      <3>3. QED
        BY <3>2
    <2>4. QED
      BY <2>2, <2>3
  <1>8. Declares(reports, 0, d) = {F(d)}
    BY HostDeclares
  <1>9. F(d) \in {<<Host, d>>, <<d, Host>>}
    OBVIOUS
  <1> HIDE DEF F
  <1>10. Flows(key, ts) = Declares(reports, 0, d) \union Declares("all_both_ways", 0, d)
    <2> DEFINE All == Declares("all_both_ways", 0, d)
    <2>1. \A f : f \in All <=> \E g \in Gpus : f = <<g, Host>> \/ f = <<Host, g>>
      BY AllHostDeclares
    <2> HIDE DEF All
    <2>2. Flows(key, ts) = All
      <3>1. \A f \in Flows(key, ts) : f \in All
        BY <1>7, <2>1
      <3>2. \A f \in All : f \in Flows(key, ts)
        BY <1>6, <2>1
      <3>3. QED
        BY <3>1, <3>2
    <2>3. F(d) \in All
      BY <1>9, <2>1
    <2>4. QED
      BY <1>8, <2>2, <2>3 DEF All
  <1>11. /\ Declared[key].reports = reports /\ Declared[key].load = "all_both_ways"
         /\ Declared[key].launches = "any"
    BY DEF Says
  <1> HIDE DEF reports
  <1>12. QED
    BY <1>2, <1>4, <1>8, <1>10, <1>11, HostPromise DEF ts, Test

\* Two copies per GPU.
LEMMA BidirPromise ==
  ASSUME key \in Keys, Test.loop = "row", Test.copies # "chase", NEW d \in Gpus,
         NEW s \in BOOLEAN, vectors = AllHostBidir(s, d), Test.value = "FIRST",
         Test.copies \notin {"all_H2D_split", "all_D2H_split"}, Test.engine # "split",
         Says(key, IF s THEN "to_device" ELSE "to_host", "all_both_ways", "any")
  PROVE  KeepsPromise(key, 0, d, Transfers)
  <1> DEFINE ts == Transfers
             F(t, g) == IF t THEN <<Host, g>> ELSE <<g, Host>>
             reports == IF s THEN "to_device" ELSE "to_host"
  <1>1. /\ DOMAIN ts = 1 .. 2 * DeviceCount
        /\ \A k \in 1 .. 2 * DeviceCount : ts[k] = Transfer(BidirAt(s, d, k))
    BY AllHostBidirIs DEF Transfers
  <1> HIDE DEF ts
  <1>2. /\ 1 \in DOMAIN ts /\ 2 \in DOMAIN ts
        /\ ts[1] = Transfer(Way(s, d, 1)) /\ ts[2] = Transfer(Way(~s, d, 2))
    BY <1>1, DeviceAssumption DEF BidirAt
  <1>3. /\ Flow(ts[1]) = F(s, d) /\ ts[1].size = 1
        /\ Flow(ts[2]) = F(~s, d) /\ ts[2].size = 2
    <2>1. Flow(ts[1]) = F(s, d) /\ ts[1].size = 1
      BY <1>2, WayFlow
    <2>2. CASE s
      <3>1. Way(~s, d, 2) = D2H(d, 2, 1)
        BY <2>2 DEF Way
      <3>2. F(~s, d) = <<d, Host>>
        BY <2>2
      <3>3. Flow(ts[2]) = <<d, Host>> /\ ts[2].size = 2
        BY <1>2, <3>1, RowFlow
      <3>4. QED
        BY <2>1, <3>2, <3>3
    <2>3. CASE ~s
      <3>1. Way(~s, d, 2) = H2D(d, 2, 1)
        BY <2>3 DEF Way
      <3>2. F(~s, d) = <<Host, d>>
        BY <2>3
      <3>3. Flow(ts[2]) = <<Host, d>> /\ ts[2].size = 2
        BY <1>2, <3>1, RowFlow
      <3>4. QED
        BY <2>1, <3>2, <3>3
    <2>4. QED
      BY <2>2, <2>3
  <1>4. ASSUME NEW i \in 3 .. 2 * DeviceCount
        PROVE  LET other == Other(d, (i - 1) \div 2)
               IN  /\ i \in DOMAIN ts /\ ts[i].size = 2
                   /\ Flow(ts[i]) = IF i % 2 = 1 THEN <<other, Host>> ELSE <<Host, other>>
    <2> DEFINE j == (i - 1) \div 2
    <2>1. i \in 1 .. 2 * DeviceCount /\ i # 1 /\ i # 2 /\ j \in 1 .. DeviceCount - 1
      BY DeviceAssumption
    <2>2. ts[i] = Transfer(IF i % 2 = 1 THEN D2H(Other(d, j), 2, 1) ELSE H2D(Other(d, j), 2, 2))
      BY <1>1, <2>1 DEF BidirAt
    <2> HIDE DEF j
    <2>3. Other(d, j) \in Gpus
      BY <2>1, OtherIs
    <2>4. QED
      BY <1>1, <2>1, <2>2, <2>3, RowFlow DEF j
  <1>5. \A i \in DOMAIN ts : i # 1 => SizedAsSaid(key, ts[i], ts[1])
    <2>1. SUFFICES ASSUME NEW i \in DOMAIN ts, i # 1
                   PROVE  SizedAsSaid(key, ts[i], ts[1])
      OBVIOUS
    <2>2. i = 2 \/ i \in 3 .. 2 * DeviceCount
      BY <1>1, <2>1, DeviceAssumption
    <2>3. ts[i].size = 2
      BY <1>3, <1>4, <2>2
    <2>4. Declared[key].load # "none" /\ key \notin EqualInterference
      BY Exceptions DEF Says, Test
    <2>5. QED
      BY <1>3, <2>3, <2>4 DEF SizedAsSaid
  <1>6. \A g \in Gpus : <<Host, g>> \in Flows(key, ts) /\ <<g, Host>> \in Flows(key, ts)
    <2>1. SUFFICES ASSUME NEW g \in Gpus
                   PROVE  /\ \E i \in DOMAIN ts : Flow(ts[i]) = <<Host, g>>
                          /\ \E i \in DOMAIN ts : Flow(ts[i]) = <<g, Host>>
      <3>1. \A i \in DOMAIN ts : Flow(ts[i]) \in Flows(key, ts)
        BY FlowsOf
      <3>2. QED
        BY <3>1
    <2>2. CASE g = d
      BY <1>2, <1>3, <2>2
    <2>3. CASE g # d
      <3>1. PICK j \in 1 .. DeviceCount - 1 : Other(d, j) = g
        BY <2>3, OtherIs
      <3>2. /\ 2 * j + 1 \in 3 .. 2 * DeviceCount /\ (2 * j + 1) % 2 = 1
            /\ ((2 * j + 1) - 1) \div 2 = j
        BY DeviceAssumption
      <3>3. /\ 2 * j + 2 \in 3 .. 2 * DeviceCount /\ (2 * j + 2) % 2 = 0
            /\ ((2 * j + 2) - 1) \div 2 = j
        BY DeviceAssumption
      <3>4. 2 * j + 1 \in DOMAIN ts /\ Flow(ts[2 * j + 1]) = <<g, Host>>
        BY <1>4, <3>1, <3>2
      <3>5. 2 * j + 2 \in DOMAIN ts /\ Flow(ts[2 * j + 2]) = <<Host, g>>
        <4> DEFINE i == 2 * j + 2
        <4>1. i \in 3 .. 2 * DeviceCount /\ i % 2 # 1 /\ (i - 1) \div 2 = j
          BY <3>3
        <4> HIDE DEF i
        <4>2. QED
          BY <1>4, <3>1, <4>1 DEF i
      <3>6. QED
        BY <3>4, <3>5
    <2>4. QED
      BY <2>2, <2>3
  <1>7. \A f \in Flows(key, ts) : \E g \in Gpus : f = <<g, Host>> \/ f = <<Host, g>>
    <2>1. SUFFICES ASSUME NEW i \in DOMAIN ts
                   PROVE  \E g \in Gpus : Flow(ts[i]) \in {<<g, Host>>, <<Host, g>>}
      BY FlowsOf DEF Test
    <2>2. CASE i \in {1, 2}
      BY <1>3, <2>2
    <2>3. CASE i \notin {1, 2}
      <3>1. i \in 3 .. 2 * DeviceCount /\ (i - 1) \div 2 \in 1 .. DeviceCount - 1
        BY <1>1, <2>3, DeviceAssumption
      <3> DEFINE g == Other(d, (i - 1) \div 2)
      <3>2. g \in Gpus
        BY <3>1, OtherIs
      <3>3. Flow(ts[i]) \in {<<g, Host>>, <<Host, g>>}
        BY <1>4, <3>1
      <3> HIDE DEF g
      <3>4. QED
        BY <3>2, <3>3
    <2>4. QED
      BY <2>2, <2>3
  <1>8. Declares(reports, 0, d) = {F(s, d)}
    BY HostDeclares
  <1>9. F(s, d) \in {<<Host, d>>, <<d, Host>>}
    OBVIOUS
  <1> HIDE DEF F
  <1>10. Flows(key, ts) = Declares(reports, 0, d) \union Declares("all_both_ways", 0, d)
    <2> DEFINE All == Declares("all_both_ways", 0, d)
    <2>1. \A f : f \in All <=> \E g \in Gpus : f = <<g, Host>> \/ f = <<Host, g>>
      BY AllHostDeclares
    <2> HIDE DEF All
    <2>2. Flows(key, ts) = All
      <3>1. \A f \in Flows(key, ts) : f \in All
        BY <1>7, <2>1
      <3>2. \A f \in All : f \in Flows(key, ts)
        BY <1>6, <2>1
      <3>3. QED
        BY <3>1, <3>2
    <2>3. F(s, d) \in All
      BY <1>9, <2>1
    <2>4. QED
      BY <1>8, <2>2, <2>3 DEF All
  <1>11. /\ Declared[key].reports = reports /\ Declared[key].load = "all_both_ways"
         /\ Declared[key].launches = "any"
    BY DEF Says
  <1> HIDE DEF reports
  <1>12. QED
    BY <1>3, <1>5, <1>8, <1>10, <1>11, HostPromise DEF ts, Test

LEMMA AllRowPromise ==
  ASSUME key \in Keys, AllRowEntry(key), NEW d \in Gpus, vectors = RowVectors(d)
  PROVE  KeepsPromise(key, 0, d, Transfers)
  <1>1. Test.loop = "row" /\ Test.value = "FIRST" /\ Test = Tests[key] /\ Test.copies # "chase"
    BY DEF AllRowEntry, Entry, Test
  <1>2. CASE Test.copies = "all_H2D"
    <2>1. vectors = AllHost(TRUE, d)
      BY <1>2 DEF RowVectors
    <2>2. Says(key, "to_device", "host_to_others", "any") /\ Test.engine # "split"
      BY <1>1, <1>2 DEF AllRowEntry, Entry
    <2>3. QED
      BY <1>1, <1>2, <2>1, <2>2, AllHostPromise
  <1>3. CASE Test.copies = "all_D2H"
    <2>1. vectors = AllHost(FALSE, d)
      BY <1>3 DEF RowVectors
    <2>2. Says(key, "to_host", "others_to_host", "any") /\ Test.engine # "split"
      BY <1>1, <1>3 DEF AllRowEntry, Entry
    <2>3. QED
      BY <1>1, <1>3, <2>1, <2>2, AllHostPromise
  <1>4. CASE Test.copies = "all_H2D_D2H"
    <2>1. vectors = AllHostBidir(TRUE, d)
      BY <1>4 DEF RowVectors
    <2>2. Says(key, "to_device", "all_both_ways", "any") /\ Test.engine # "split"
      BY <1>1, <1>4 DEF AllRowEntry, Entry
    <2>3. QED
      BY <1>1, <1>4, <2>1, <2>2, BidirPromise
  <1>5. CASE Test.copies = "all_D2H_H2D"
    <2>1. vectors = AllHostBidir(FALSE, d)
      BY <1>5 DEF RowVectors
    <2>2. Says(key, "to_host", "all_both_ways", "any") /\ Test.engine # "split"
      BY <1>1, <1>5 DEF AllRowEntry, Entry
    <2>3. QED
      BY <1>1, <1>5, <2>1, <2>2, BidirPromise
  <1>6. CASE Test.copies = "all_H2D_split"
    <2>1. vectors = AllHostSplit(TRUE, d)
      BY <1>6 DEF RowVectors
    <2>2. Says(key, "to_device", "all_both_ways", "any") /\ Test.engine = "split"
      BY <1>1, <1>6 DEF AllRowEntry, Entry
    <2>3. QED
      BY <1>1, <1>6, <2>1, <2>2, SplitPromise
  <1>7. CASE Test.copies = "all_D2H_split"
    <2>1. vectors = AllHostSplit(FALSE, d)
      BY <1>7 DEF RowVectors
    <2>2. Says(key, "to_host", "all_both_ways", "any") /\ Test.engine = "split"
      BY <1>1, <1>7 DEF AllRowEntry, Entry
    <2>3. QED
      BY <1>1, <1>7, <2>1, <2>2, SplitPromise
  <1>8. QED
    BY <1>1, <1>2, <1>3, <1>4, <1>5, <1>6, <1>7 DEF AllRowEntry, Entry

\* Testcases of two GPUs: r is the row, the GPU that run() calls the source.
LEMMA PairPromise ==
  ASSUME key \in Keys, PairEntry(key), NEW r \in Gpus, NEW c \in Gpus,
         vectors = PairVectors(r, c)
  PROVE  KeepsPromise(key, r, c, Transfers)
  <1> DEFINE ts == Transfers
             reports == Declared[key].reports
             load == Declared[key].load
  <1>1. /\ Test.loop = "pair" /\ Test = Tests[key] /\ Test.engine # "split"
        /\ Test.copies \in {"read", "write", "both"} /\ ~Swapped
    BY DEF PairEntry, Entry, Test, Swapped, GathersPeers
  <1>2. r # Host /\ c # Host
    BY HostIsNoGpu
  <1>3. ASSUME NEW v, NEW from \in Gpus, NEW to \in Gpus,
               v[1].at = from, v[2].at = to, v[1].size = 1
        PROVE  /\ Flow(Transfer(v)) = <<from, to>> /\ Transfer(v).from = from
               /\ Transfer(v).to = to /\ Transfer(v).size = 1
               /\ Transfer(v).ctx = IF Test.prefer = "src" THEN from ELSE to
    BY <1>1, <1>3, HostIsNoGpu, TransferFields DEF Flow
  <1>4. ASSUME NEW k \in DOMAIN vectors PROVE ts[k] = Transfer(vectors[k])
    BY DEF Transfers
  <1>5. DOMAIN ts = DOMAIN vectors
    BY DEF Transfers
  <1> HIDE DEF ts
  <1>6. CASE Test.copies \in {"read", "write"}
    <2> DEFINE from == IF Test.copies = "read" THEN c ELSE r
               to == IF Test.copies = "read" THEN r ELSE c
    <2>1. vectors = <<<<DeviceBuffer(from, 1, 1), DeviceBuffer(to, 1, 1)>>>>
      BY <1>6 DEF PairVectors
    <2>2. from \in Gpus /\ to \in Gpus
      OBVIOUS
    <2>3. /\ \/ /\ Test.copies = "read" /\ Test.prefer = "dst"
                /\ Says(key, "from_peer", "none", "reader")
             \/ /\ Test.copies = "write" /\ Test.prefer = "src"
                /\ Says(key, "to_peer", "none", "writer")
          /\ Test.value = "FIRST"
      BY <1>1, <1>6 DEF PairEntry, Entry
    <2>4. Declares(reports, r, c) = {<<from, to>>} /\ Declares(load, r, c) = {}
      BY <2>3, PeerDeclares DEF Says
    <2> HIDE DEF from, to
    <2>5. /\ DOMAIN ts = {1} /\ Flow(ts[1]) = <<from, to>> /\ ts[1].size = 1
          /\ ts[1].from = from /\ ts[1].to = to
          /\ ts[1].ctx = IF Test.prefer = "src" THEN from ELSE to
      <3> DEFINE v == <<DeviceBuffer(from, 1, 1), DeviceBuffer(to, 1, 1)>>
      <3>1. v[1].at = from /\ v[2].at = to /\ v[1].size = 1
        BY BufferFields
      <3>2. vectors = <<v>>
        BY <2>1
      <3> HIDE DEF v
      <3>3. DOMAIN ts = {1} /\ ts[1] = Transfer(v)
        BY <1>4, <1>5, <3>2
      <3>4. QED
        BY <1>3, <2>2, <3>1, <3>3
    <2>6. \A m \in MatricesOf(key) : Declares(Promised(key, m), r, c) \in Readings(key, m, ts)
      BY <1>1, <2>3, <2>4, <2>5, ReportsFirst
    <2>7. Flows(key, ts) = Declares(reports, r, c) \union Declares(load, r, c)
      BY <1>1, <2>4, <2>5, FewFlows
    <2>8. LaunchedAsSaid(key, ts[1])
      <3>1. LaunchesFrom(key) = IF Test.copies = "read" THEN "reader" ELSE "writer"
        BY <1>1, <1>6, <2>3, Exceptions DEF LaunchesFrom, Says
      <3>2. QED
        BY <1>6, <2>3, <2>5, <3>1 DEF LaunchedAsSaid
    <2>9. QED
      BY <2>5, <2>6, <2>7, <2>8 DEF KeepsPromise, ts
  <1>7. CASE Test.copies = "both"
    <2> DEFINE v == <<DeviceBuffer(c, 1, 1), DeviceBuffer(r, 1, 1)>>
               w == <<DeviceBuffer(r, 1, 2), DeviceBuffer(c, 1, 2)>>
    <2>1. vectors = <<v, w>>
      BY <1>7 DEF PairVectors
    <2>2. /\ v[1].at = c /\ v[2].at = r /\ v[1].size = 1
          /\ w[1].at = r /\ w[2].at = c /\ w[1].size = 1
      BY BufferFields
    <2> HIDE DEF v, w
    <2>3. DOMAIN ts = {1, 2} /\ ts[1] = Transfer(v) /\ ts[2] = Transfer(w)
      BY <1>4, <1>5, <2>1
    <2>4. /\ Flow(ts[1]) = <<c, r>> /\ ts[1].size = 1 /\ ts[1].from = c /\ ts[1].to = r
          /\ ts[1].ctx = IF Test.prefer = "src" THEN c ELSE r
      BY <1>3, <2>2, <2>3
    <2>5. /\ Flow(ts[2]) = <<r, c>> /\ ts[2].size = 1 /\ ts[2].from = r /\ ts[2].to = c
          /\ ts[2].ctx = IF Test.prefer = "src" THEN r ELSE c
      BY <1>3, <2>2, <2>3
    <2>6. /\ Test.value = "VECTOR"
          /\ \/ /\ Test.prefer = "dst"
                /\ \/ Says(key, "from_peer", "to_peer", "reader")
                   \/ Says(key, "both_ways", "none", "reader")
             \/ /\ Test.prefer = "src"
                /\ \/ Says(key, "to_peer", "from_peer", "writer")
                   \/ Says(key, "both_ways", "none", "writer")
      BY <1>1, <1>7 DEF PairEntry, Entry
    <2>7. Flows(key, ts) = {<<c, r>>, <<r, c>>}
      BY <1>1, <2>3, <2>4, <2>5, FewFlows
    <2>8. /\ MatricesOf(key) = {"first", "second", "total"}
          /\ Promised(key, "first") = "from_peer" /\ Promised(key, "second") = "to_peer"
          /\ Promised(key, "total") = "both_ways"
      <3>1. /\ Described(key) \in {"first", "second", "total"}
            /\ reports = IF Described(key) = "first" THEN "from_peer"
                         ELSE IF Described(key) = "second" THEN "to_peer" ELSE "both_ways"
        BY <1>1, <2>6 DEF Described, Says
      <3>2. QED
        BY <1>1, <2>6, <3>1 DEF MatricesOf, Promised
    <2>9. /\ Readings(key, "first", ts) = {{<<c, r>>}}
          /\ Readings(key, "second", ts) = {{<<r, c>>}}
          /\ Readings(key, "total", ts) = {{<<c, r>>, <<r, c>>}}
      <3>1. /\ MeasuredIn(key, "first", ts) = {1} /\ MeasuredIn(key, "second", ts) = {2}
            /\ MeasuredIn(key, "total", ts) = {1, 2}
        BY DEF MeasuredIn
      <3>2. /\ {Flow(ts[i]) : i \in {1}} = {<<c, r>>} /\ {Flow(ts[i]) : i \in {2}} = {<<r, c>>}
            /\ {Flow(ts[i]) : i \in {1, 2}} = {<<c, r>>, <<r, c>>}
        BY <2>4, <2>5
      <3>3. QED
        BY <1>1, <3>1, <3>2 DEF Readings
    <2>10. \A m \in MatricesOf(key) : Declares(Promised(key, m), r, c) \in Readings(key, m, ts)
      BY <2>8, <2>9, PeerDeclares
    <2>11. Flows(key, ts) = Declares(reports, r, c) \union Declares(load, r, c)
      <3>1. \/ reports = "from_peer" /\ load = "to_peer"
            \/ reports = "to_peer" /\ load = "from_peer"
            \/ reports = "both_ways" /\ load = "none"
        BY <2>6 DEF Says
      <3> HIDE DEF reports, load
      <3>2. QED
        BY <2>7, <3>1, PeerDeclares
    <2>12. LaunchedAsSaid(key, ts[1]) /\ LaunchedAsSaid(key, ts[2])
      <3>1. LaunchesFrom(key) = IF Test.prefer = "dst" THEN "reader" ELSE "writer"
        BY <1>1, <2>6, Exceptions DEF LaunchesFrom, Says
      <3>2. QED
        BY <2>4, <2>5, <2>6, <3>1 DEF LaunchedAsSaid
    <2>13. SizedAsSaid(key, ts[2], ts[1])
      <3>1. load = "none" \/ key \in EqualInterference
        BY <1>1, <2>6, Exceptions
      <3>2. QED
        BY <2>4, <2>5, <3>1 DEF SizedAsSaid
    <2>14. QED
      BY <2>3, <2>10, <2>11, <2>12, <2>13 DEF KeepsPromise, ts
  <1>8. QED
    BY <1>1, <1>6, <1>7

LEMMA PeerPromise ==
  ASSUME key \in Keys, PeerEntry(key), NEW r \in Gpus, NEW c \in Gpus,
         vectors = <<<<DeviceBuffer(c, 1, 1), DeviceBuffer(r, 1, 2)>>>>
  PROVE  KeepsPromise(key, r, c, Transfers)
  <1> DEFINE ts == Transfers
             v == <<DeviceBuffer(c, 1, 1), DeviceBuffer(r, 1, 2)>>
  <1>1. /\ Test = Tests[key] /\ Test.copies = "chase" /\ Test.value = "FIRST"
        /\ Test.engine # "split" /\ Says(key, "from_peer", "none", "reader")
    BY DEF PeerEntry, Entry, Test
  <1>2. DOMAIN ts = {1} /\ ts[1] = Transfer(v)
    BY DEF Transfers
  <1>3. v[1].at = c /\ v[2].near = r /\ v[1].size = 1
    BY BufferFields
  <1> HIDE DEF ts, v
  <1>4. /\ Flow(ts[1]) = <<c, r>> /\ ts[1].size = 1 /\ ts[1].to = r /\ ts[1].ctx = r
    BY <1>1, <1>2, <1>3, TransferFields DEF Flow
  <1>5. /\ Declares(Declared[key].reports, r, c) = {Flow(ts[1])}
        /\ Declares(Declared[key].load, r, c) = {}
    BY <1>1, <1>4, PeerDeclares DEF Says
  <1>6. \A m \in MatricesOf(key) : Declares(Promised(key, m), r, c) \in Readings(key, m, ts)
    BY <1>1, <1>5, ReportsFirst
  <1>7. Flows(key, ts) = Declares(Declared[key].reports, r, c)
                         \union Declares(Declared[key].load, r, c)
    BY <1>1, <1>2, <1>5, FewFlows
  <1>8. LaunchedAsSaid(key, ts[1])
    <2>1. LaunchesFrom(key) = "reader"
      BY <1>1, Exceptions DEF LaunchesFrom, Says
    <2>2. QED
      BY <1>4, <2>1 DEF LaunchedAsSaid
  <1>9. QED
    BY <1>2, <1>6, <1>7, <1>8 DEF KeepsPromise, ts

\* Testcases of one GPU and all its peers.
LEMMA GatherPromise ==
  ASSUME TypeInv, key \in Keys, GatherEntry(key), outer \in Gpus,
         Gathered(DeviceCount), vectors # <<>>
  PROVE  KeepsPromise(key, 0, outer, Transfers)
  <1> DEFINE ts == Transfers
             reports == Declared[key].reports
             In == (Test.loop = "to_one") = (Test.copies = "write")
             F(p) == IF In THEN <<p, outer>> ELSE <<outer, p>>
  <1>1. /\ Test.loop \in {"to_one", "to_all"} /\ Test = Tests[key] /\ Test.engine # "split"
        /\ Test.copies \in {"read", "write"} /\ Test.value = "TOTAL" /\ GathersPeers
    BY DEF GatherEntry, Entry, Test, GathersPeers
  <1>2. Swapped <=> Test.copies = "read"
    BY <1>1 DEF Swapped
  <1>3. DOMAIN ts = DOMAIN vectors /\ \A k \in DOMAIN vectors : ts[k] = Transfer(vectors[k])
    BY DEF Transfers
  <1> HIDE DEF ts
  <1>4. \A p \in Gpus : p \in Accessible(outer) <=> p # outer /\ <<outer, p>> \in machine.peers
    BY DEF Accessible
  <1>5. ASSUME NEW p \in Gpus
        PROVE  LET t == Transfer(PairOf(outer, p))
               IN  /\ Flow(t) = F(p) /\ t.size = 1 /\ Flow(t) = <<t.from, t.to>>
                   /\ t.ctx = IF Test.prefer = "src" THEN t.from ELSE t.to
    <2> DEFINE v == PairOf(outer, p)
    <2>1. /\ v[1].at = IF Test.loop = "to_one" THEN p ELSE outer
          /\ v[2].at = IF Test.loop = "to_one" THEN outer ELSE p
          /\ v[1].size = 1 /\ v[2].size = 1
      BY BufferFields DEF PairOf, Upfront, Mine
    <2> HIDE DEF v
    <2>2. p # Host /\ outer # Host /\ Test.copies # "chase"
      BY <1>1, HostIsNoGpu
    <2>3. QED
      BY <1>1, <1>2, <2>1, <2>2, TransferFields DEF Flow, v
  <1>6. ASSUME NEW k \in DOMAIN ts
        PROVE  \E p \in Accessible(outer) : Flow(ts[k]) = F(p)
    <2>1. PICK p \in Gpus : p # outer /\ Mutual(outer, p) /\ vectors[k] = PairOf(outer, p)
      BY <1>3 DEF Gathered
    <2>2. p \in Accessible(outer)
      BY <1>4, <2>1 DEF Mutual
    <2>3. Flow(ts[k]) = F(p)
      BY <1>3, <1>5, <2>1
    <2>4. QED
      BY <2>2, <2>3
  <1>7. ASSUME NEW p \in Accessible(outer)
        PROVE  \E k \in DOMAIN ts : Flow(ts[k]) = F(p)
    <2>1. p \in Gpus /\ p < DeviceCount /\ p # outer /\ <<outer, p>> \in machine.peers
      BY DeviceAssumption DEF Accessible, Gpus
    <2>2. PICK k \in DOMAIN vectors : vectors[k] = PairOf(outer, p)
      BY <2>1 DEF Gathered
    <2>3. k \in DOMAIN ts /\ Flow(ts[k]) = F(p)
      BY <1>3, <1>5, <2>1, <2>2
    <2>4. QED
      BY <2>3
  <1>8. ASSUME NEW k \in DOMAIN ts
        PROVE  /\ ts[k].size = 1
               /\ ts[k].ctx = IF Test.prefer = "src" THEN ts[k].from ELSE ts[k].to
    <2>1. PICK p \in Gpus : vectors[k] = PairOf(outer, p)
      BY <1>3 DEF Gathered
    <2>2. QED
      BY <1>3, <1>5, <2>1
  <1>9. Flows(key, ts) = {F(p) : p \in Accessible(outer)}
    <2>1. Flows(key, ts) = {Flow(ts[k]) : k \in DOMAIN ts}
      BY <1>1 DEF Flows
    <2> HIDE DEF F
    <2>2. QED
      BY <1>6, <1>7, <2>1
  <1>10. MatricesOf(key) = {"only"} /\ Promised(key, "only") = reports
         /\ Readings(key, "only", ts) = {Flows(key, ts)}
    <2>1. MeasuredIn(key, "only", ts) = DOMAIN ts
      BY <1>1 DEF MeasuredIn
    <2>2. Readings(key, "only", ts) = {{Flow(ts[k]) : k \in DOMAIN ts}}
      BY <1>1, <2>1 DEF Readings
    <2>3. Flows(key, ts) = {Flow(ts[k]) : k \in DOMAIN ts}
      BY <1>1 DEF Flows
    <2>4. MatricesOf(key) = {"only"} /\ Promised(key, "only") = reports
      BY <1>1 DEF MatricesOf, Promised, Described
    <2>5. QED
      BY <2>2, <2>3, <2>4
  <1>11. /\ reports = IF In THEN "inbound" ELSE "outbound"
         /\ Declared[key].load = "none"
    BY <1>1 DEF GatherEntry, Entry, Says
  <1>12. Declares(reports, 0, outer) = {F(p) : p \in Accessible(outer)}
    <2>1. CASE In
      <3>1. Declares(reports, 0, outer) = Accessible(outer) \X {outer}
        BY <1>11, <2>1, GatherDeclares
      <3>2. {F(p) : p \in Accessible(outer)} = Accessible(outer) \X {outer}
        BY <2>1
      <3>3. QED
        BY <3>1, <3>2
    <2>2. CASE ~In
      <3>1. Declares(reports, 0, outer) = {outer} \X Accessible(outer)
        BY <1>11, <2>2, GatherDeclares
      <3>2. {F(p) : p \in Accessible(outer)} = {outer} \X Accessible(outer)
        BY <2>2
      <3>3. QED
        BY <3>1, <3>2
    <2>3. QED
      BY <2>1, <2>2
  <1>13. Declares(Declared[key].load, 0, outer) = {}
    BY <1>11, GatherDeclares
  <1>14. LaunchesFrom(key) = IF Test.prefer = "src" THEN "writer" ELSE "reader"
    BY <1>1 DEF GatherEntry, Entry, Says, ReadsBy, LaunchesFrom, SourceContextReads
  <1>15. 1 \in DOMAIN ts
    <2>1. IsSeq(vectors)
      BY DEF Gathered
    <2>2. PICK S : vectors \in Seq(S)
      BY <2>1 DEF IsSeq
    <2>3. Len(vectors) # 0 /\ Len(vectors) \in Nat /\ DOMAIN vectors = 1 .. Len(vectors)
      BY <2>2
    <2>4. QED
      BY <1>3, <2>3
  <1>16. \A i \in DOMAIN ts : LaunchedAsSaid(key, ts[i]) /\ SizedAsSaid(key, ts[i], ts[1])
    BY <1>8, <1>11, <1>14, <1>15 DEF LaunchedAsSaid, SizedAsSaid
  <1>17. /\ \A m \in MatricesOf(key) :
              Declares(Promised(key, m), 0, outer) \in Readings(key, m, ts)
         /\ Flows(key, ts) = Declares(reports, 0, outer)
                             \union Declares(Declared[key].load, 0, outer)
    BY <1>9, <1>10, <1>12, <1>13
  <1>18. QED
    BY <1>16, <1>17 DEF KeepsPromise, ts

\* What a measurement writes, and where.
LEMMA MeasureKeeps ==
  ASSUME IInv, pc = "measure"
  PROVE  Cell \in CellsOf(key) /\ KeepsPromise(key, Cell[1], Cell[2], Transfers)
  <1>1. /\ TypeInv /\ VectorsInv /\ key \in Keys /\ outer \in Gpus
        /\ Test.loop \in {"row", "pair", "peer", "to_one", "to_all"} /\ Test = Tests[key]
    BY TestIs, DeviceAssumption DEF IInv, TypeInv, Running, Gpus, Test
  <1>2. \/ RowEntry(key) \/ AllRowEntry(key)
        \/ PairEntry(key) \/ PeerEntry(key) \/ GatherEntry(key)
    BY <1>1, Catalogue
  <1>3. CASE Test.loop = "row"
    <2>1. Cell = <<0, outer>> /\ vectors = RowVectors(outer)
      BY <1>1, <1>3 DEF Cell, VectorsInv
    <2>2. CellsOf(key) = {0} \X Gpus
      BY <1>1, <1>3 DEF CellsOf
    <2>3. RowEntry(key) \/ AllRowEntry(key)
      BY <1>1, <1>2, <1>3 DEF PairEntry, PeerEntry, GatherEntry, Entry
    <2>4. KeepsPromise(key, 0, outer, Transfers)
      BY <1>1, <2>1, <2>3, RowPromise, AllRowPromise
    <2>5. QED
      BY <1>1, <2>1, <2>2, <2>4
  <1>4. CASE Test.loop \in {"pair", "peer"}
    <2>1. inner \in Gpus /\ inner # outer /\ Mutual(Self, Peer) /\ Cell = <<Self, Peer>>
      BY <1>1, <1>4, DeviceAssumption DEF TypeInv, VectorsInv, Gpus, Cell
    <2>2. CellsOf(key) = {rc \in machine.peers : rc[1] # rc[2]}
      BY <1>1, <1>4 DEF CellsOf
    <2>3. Cell \in CellsOf(key)
      BY <2>1, <2>2 DEF Mutual, Self, Peer
    <2>4. CASE Test.loop = "pair"
      <3>1. PairEntry(key)
        BY <1>1, <1>2, <2>4 DEF RowEntry, AllRowEntry, PeerEntry, GatherEntry, Entry
      <3>2. vectors = PairVectors(outer, inner) /\ Self = outer /\ Peer = inner
        BY <1>1, <1>4, <2>4 DEF VectorsInv, Self, Peer
      <3>3. KeepsPromise(key, outer, inner, Transfers)
        BY <1>1, <2>1, <3>1, <3>2, PairPromise
      <3>4. QED
        BY <2>1, <2>3, <3>2, <3>3
    <2>5. CASE Test.loop = "peer"
      <3>1. PeerEntry(key)
        BY <1>1, <1>2, <2>5 DEF RowEntry, AllRowEntry, PairEntry, GatherEntry, Entry
      <3>2. /\ vectors = <<<<DeviceBuffer(outer, 1, 1), DeviceBuffer(inner, 1, 2)>>>>
            /\ Self = inner /\ Peer = outer
        BY <1>1, <1>4, <2>5 DEF VectorsInv, Self, Peer, ChasedBuffer
      <3>3. KeepsPromise(key, inner, outer, Transfers)
        BY <1>1, <2>1, <3>1, <3>2, PeerPromise
      <3>4. QED
        BY <2>1, <2>3, <3>2, <3>3
    <2>6. QED
      BY <1>4, <2>4, <2>5
  <1>5. CASE GathersPeers
    <2>1. Cell = <<0, outer>> /\ Gathered(DeviceCount) /\ vectors # <<>>
      BY <1>1, <1>5 DEF Cell, VectorsInv, GathersPeers
    <2>2. CellsOf(key) = {0} \X {d \in Gpus : Accessible(d) # {}}
      BY <1>1, <1>5 DEF CellsOf, GathersPeers
    <2>3. Accessible(outer) # {}
      <3>1. PICK S : vectors \in Seq(S)
        BY <2>1 DEF Gathered, IsSeq
      <3>2. 1 \in DOMAIN vectors
        BY <2>1, <3>1
      <3>3. PICK p \in Gpus : p # outer /\ Mutual(outer, p)
        BY <2>1, <3>2 DEF Gathered
      <3>4. p \in Accessible(outer)
        BY <3>3 DEF Accessible, Mutual
      <3>5. QED
        BY <3>4
    <2>4. GatherEntry(key)
      BY <1>1, <1>2, <1>5 DEF RowEntry, AllRowEntry, PairEntry, PeerEntry, Entry, GathersPeers
    <2>5. KeepsPromise(key, 0, outer, Transfers)
      BY <1>1, <2>1, <2>4, GatherPromise
    <2>6. QED
      BY <1>1, <2>1, <2>2, <2>3, <2>5
  <1>6. QED
    BY <1>1, <1>3, <1>4, <1>5 DEF GathersPeers

-------------------------------------------------------------------------------
(***************************************************************************)
(* The cells.                                                              *)
(***************************************************************************)
LEMMA InitCellsInv == Init => CellsInv
  BY DEF Init, CellsInv, Running, MatrixKeepsItsPromise

\* Every cell is that of a GPU, and of two GPUs in a nested loop.
LEMMA CellsAre ==
  ASSUME TypeInv, Running, NEW rc \in CellsOf(key)
  PROVE  /\ Major(rc) \in Gpus
         /\ Nested => Minor(rc) \in Gpus /\ rc = <<rc[1], rc[2]>> /\ rc \in machine.peers
                      /\ rc[1] # rc[2]
         /\ ~Nested => rc = <<0, rc[2]>>
         /\ GathersPeers => Accessible(rc[2]) # {}
  <1>1. /\ Test.loop \in {"row", "pair", "peer", "to_one", "to_all"} /\ Test = Tests[key]
        /\ machine.peers \subseteq Gpus \X Gpus
    BY TestIs, InputsAssumption DEF TypeInv, Test, Machine
  <1>2. CASE Nested
    <2>1. rc \in machine.peers /\ rc[1] # rc[2]
      BY <1>1, <1>2 DEF Nested, CellsOf
    <2>2. rc \in Gpus \X Gpus
      BY <1>1, <2>1
    <2>3. QED
      BY <1>2, <2>1, <2>2 DEF Major, Minor, Nested, GathersPeers
  <1>3. CASE Test.loop = "row"
    <2>1. rc \in {0} \X Gpus
      BY <1>1, <1>3 DEF CellsOf
    <2>2. QED
      BY <1>3, <2>1 DEF Major, Nested, GathersPeers
  <1>4. CASE GathersPeers
    <2>1. rc \in {0} \X {d \in Gpus : Accessible(d) # {}}
      BY <1>1, <1>4 DEF CellsOf, GathersPeers
    <2>2. QED
      BY <1>4, <2>1 DEF Major, Nested, GathersPeers
  <1>5. QED
    BY <1>1, <1>2, <1>3, <1>4 DEF Nested, GathersPeers

\* What a testcase that passed has promised does not change any more.
LEMMA PromisesStay ==
  ASSUME machine' = machine
  PROVE  /\ \A k : CellsOf(k)' = CellsOf(k)
         /\ \A k, r, c, ts : KeepsPromise(k, r, c, ts)' = KeepsPromise(k, r, c, ts)
         /\ MatrixKeepsItsPromise /\ results' = results => MatrixKeepsItsPromise'
  <1>1. \A d : Accessible(d)' = Accessible(d)
    BY DEF Accessible
  <1>2. \A k : CellsOf(k)' = CellsOf(k)
    BY <1>1 DEF CellsOf
  <1>3. \A word, r, c : Declares(word, r, c)' = Declares(word, r, c)
    BY <1>1 DEF Declares
  <1>4. \A k, r, c, ts : KeepsPromise(k, r, c, ts)' = KeepsPromise(k, r, c, ts)
    BY <1>3 DEF KeepsPromise, Readings, Flows
  <1>5. QED
    BY <1>2, <1>4 DEF MatrixKeepsItsPromise

\* The next testcase, the next part of a loop: nothing is measured.
LEMMA SameCells ==
  ASSUME IInv, CellsInv, Running, Running', machine' = machine, key' = key, cells' = cells,
         results' = results, \A rc \in CellsOf(key) : Behind(rc)' <=> Behind(rc)
  PROVE  CellsInv'
  <1>1. DOMAIN cells = {rc \in CellsOf(key) : Behind(rc)}
    BY DEF CellsInv
  <1>2. CellsOf(key)' = CellsOf(key)
    BY PromisesStay
  <1>3. DOMAIN cells' = {rc \in CellsOf(key)' : Behind(rc)'}
    BY <1>1, <1>2
  <1>4. \A rc \in DOMAIN cells' : KeepsPromise(key, rc[1], rc[2], cells[rc])'
    <2>1. SUFFICES ASSUME NEW rc \in DOMAIN cells 
                   PROVE  KeepsPromise(key, rc[1], rc[2], cells[rc])'
      OBVIOUS
    <2>2. KeepsPromise(key, rc[1], rc[2], cells[rc])
      BY DEF CellsInv
    <2>3. QED
      BY <2>2, PromisesStay
  <1>5. MatrixKeepsItsPromise'
    BY PromisesStay DEF CellsInv
  <1>6. pc' # "next"
    BY DEF Running
  <1>7. QED
    BY <1>3, <1>4, <1>5, <1>6 DEF CellsInv

\* One more testcase has ended.
LEMMA AddResult ==
  ASSUME machine' = machine, MatrixKeepsItsPromise, IsSeq(results),
         NEW e, results' = Append(results, e),
         e.status = "Passed" =>
           /\ DOMAIN e.cells = CellsOf(e.key)
           /\ \A rc \in DOMAIN e.cells : KeepsPromise(e.key, rc[1], rc[2], e.cells[rc])
  PROVE  MatrixKeepsItsPromise'
  <1> DEFINE Good(x) ==
        x.status = "Passed" =>
          /\ DOMAIN x.cells = CellsOf(x.key)
          /\ \A rc \in DOMAIN x.cells : KeepsPromise(x.key, rc[1], rc[2], x.cells[rc])
  <1>1. /\ DOMAIN results' = 1 .. Len(results) + 1 /\ DOMAIN results = 1 .. Len(results)
        /\ Len(results) \in Nat
        /\ \A n \in 1 .. Len(results) : results'[n] = results[n]
        /\ results'[Len(results) + 1] = e
    BY AppendIsSeq
  <1>2. \A n \in DOMAIN results : Good(results[n])
    BY DEF MatrixKeepsItsPromise
  <1>3. Good(e)
    OBVIOUS
  <1> HIDE DEF Good
  <1>4. \A n \in DOMAIN results' : Good(results'[n])
    BY <1>1, <1>2, <1>3
  <1>5. QED
    BY <1>4, PromisesStay DEF MatrixKeepsItsPromise, Good

LEMMA StepCellsInv == IInv /\ CellsInv /\ [Next]_vars => CellsInv'
  <1> SUFFICES ASSUME IInv, CellsInv, [Next]_vars PROVE CellsInv'
    OBVIOUS
  <1> USE DeviceAssumption
  <1>1. /\ TypeInv /\ VectorsInv /\ outer \in 0 .. DeviceCount /\ inner \in 0 .. DeviceCount
        /\ (Running => key \in Keys) /\ IsSeq(results)
    BY DEF IInv, TypeInv
  <1>2. Running => DOMAIN cells = {rc \in CellsOf(key) : Behind(rc)}
    BY DEF CellsInv
  <1>3. \A rc \in CellsOf(key) : Running =>
          /\ Major(rc) \in Int /\ 0 <= Major(rc) /\ Major(rc) < DeviceCount
          /\ Nested => Minor(rc) \in Int /\ 0 <= Minor(rc) /\ Minor(rc) < DeviceCount
    BY <1>1, CellsAre DEF Gpus
  <1>4. CASE Waive
    <2> DEFINE e == [key |-> Head(plan), status |-> "Waived", cells |-> << >>]
    <2>1. /\ pc = "next" /\ pc' = pc /\ machine' = machine /\ cells' = cells
          /\ results' = Append(results, e) /\ e.status # "Passed" /\ DOMAIN cells = {}
      BY <1>4 DEF Waive, CellsInv
    <2> HIDE DEF e
    <2>2. MatrixKeepsItsPromise'
      BY <1>1, <2>1, AddResult DEF CellsInv
    <2>3. QED
      BY <2>1, <2>2 DEF CellsInv, Running
  <1>5. CASE StartTest
    <2>1. /\ pc = "next" /\ pc' = "outer" /\ machine' = machine /\ cells' = cells
          /\ results' = results /\ DOMAIN cells = {} /\ outer' = 0
      BY <1>5 DEF StartTest, CellsInv, Goto
    <2>2. MatrixKeepsItsPromise'
      BY <2>1, PromisesStay DEF CellsInv
    <2>3. key' \in Keys /\ machine'.peers \subseteq Gpus \X Gpus
      BY <1>1, <1>5, InputsAssumption DEF StartTest, TypeInv, Machine
    <2>4. ASSUME NEW rc \in CellsOf(key)' PROVE ~Behind(rc)'
      <3>1. rc \in {0} \X Gpus \/ rc \in Gpus \X Gpus
        BY <2>3, <2>4, Kinds DEF CellsOf
      <3>2. rc[1] \in Nat /\ rc[2] \in Nat
        BY <3>1 DEF Gpus
      <3>3. QED
        BY <2>1, <3>2 DEF Behind, Major
    <2>5. QED
      BY <2>1, <2>2, <2>4 DEF CellsInv
  <1>6. CASE PrepareRow
    <2>1. /\ Running /\ Running' /\ machine' = machine /\ key' = key /\ cells' = cells
          /\ results' = results /\ pc = "outer" /\ pc' = "measure" /\ outer' = outer
          /\ inner' = inner /\ ~Nested
      BY <1>6 DEF PrepareRow, Running, Goto, loops, Nested
    <2>2. \A rc : Behind(rc)' <=> Behind(rc)
      BY <2>1 DEF Behind, Nested, Major, Minor, Test
    <2>3. QED
      BY <2>1, <2>2, SameCells
  <1>7. CASE OpenLoop
    <2>1. /\ Running /\ Running' /\ machine' = machine /\ key' = key /\ cells' = cells
          /\ results' = results /\ pc = "outer" /\ pc' = "inner" /\ outer' = outer
          /\ inner' = 0
      BY <1>7 DEF OpenLoop, Running, Goto
    <2>2. \A rc \in CellsOf(key) : Behind(rc)' <=> Behind(rc)
      BY <1>3, <2>1 DEF Behind, Nested, Major, Minor, Test
    <2>3. QED
      BY <2>1, <2>2, SameCells
  <1>8. CASE SkipPeer
    <2>1. /\ Running /\ Running' /\ machine' = machine /\ key' = key /\ cells' = cells
          /\ results' = results /\ pc = "inner" /\ pc' = "inner" /\ outer' = outer
          /\ inner' = inner + 1 /\ (inner = outer \/ <<Self, Peer>> \notin machine.peers)
      BY <1>8 DEF SkipPeer, Running
    <2>2. ASSUME NEW rc \in CellsOf(key), Nested, Major(rc) = outer PROVE Minor(rc) # inner
      <3>1. rc = <<rc[1], rc[2]>> /\ rc \in machine.peers /\ rc[1] # rc[2]
        BY <1>1, <2>1, <2>2, CellsAre
      <3>2. Minor(rc) = inner => rc = <<Self, Peer>> /\ inner # outer
        BY <2>2, <3>1 DEF Major, Minor, Self, Peer, Nested
      <3>3. QED
        BY <2>1, <3>1, <3>2
    <2>3. \A rc : Major(rc)' = Major(rc) /\ Minor(rc)' = Minor(rc) /\ Nested' = Nested
      BY <2>1 DEF Major, Minor, Nested, Test
    <2>4. \A rc \in CellsOf(key) : Behind(rc)' <=> Behind(rc)
      BY <1>1, <1>3, <2>1, <2>2, <2>3 DEF Behind
    <2>5. QED
      BY <2>1, <2>4, SameCells
  <1>9. CASE PreparePeer
    <2>1. /\ Running /\ Running' /\ machine' = machine /\ key' = key /\ cells' = cells
          /\ results' = results /\ pc = "inner" /\ pc' \in {"inner", "measure"}
          /\ outer' = outer /\ (~GathersPeers => inner' = inner)
      BY <1>9 DEF PreparePeer, Running, Goto
    <2>2. Nested' = Nested /\ (Nested => inner' = inner)
      BY <2>1 DEF Nested, Test, GathersPeers
    <2>3. \A rc : Behind(rc)' <=> Behind(rc)
      BY <2>1, <2>2 DEF Behind, Major, Minor, Test
    <2>4. QED
      BY <2>1, <2>3, SameCells
  <1>10. CASE EnableFails \/ AssertionFails \/ Done
    <2>1. /\ pc' \in {"exited", "done"} /\ machine' = machine /\ key' = key /\ cells' = cells
          /\ results' = results
      BY <1>10 DEF EnableFails, AssertionFails, Done, Goto, loops
    <2>2. MatrixKeepsItsPromise'
      BY <2>1, PromisesStay DEF CellsInv
    <2>3. \A rc \in DOMAIN cells : KeepsPromise(key, rc[1], rc[2], cells[rc])'
      <3>1. SUFFICES ASSUME NEW rc \in DOMAIN cells
                     PROVE  KeepsPromise(key, rc[1], rc[2], cells[rc])'
        OBVIOUS
      <3>2. KeepsPromise(key, rc[1], rc[2], cells[rc])
        BY DEF CellsInv
      <3>3. QED
        BY <2>1, <3>2, PromisesStay
    <2>4. QED
      BY <2>1, <2>2, <2>3 DEF CellsInv, Running
  <1>11. CASE CloseLoop
    <2>1. /\ Running /\ Running' /\ machine' = machine /\ key' = key /\ cells' = cells
          /\ results' = results /\ pc = "inner" /\ inner = DeviceCount /\ inner' = inner
      BY <1>11 DEF CloseLoop, Running, Goto
    <2>2. \A rc : Major(rc)' = Major(rc) /\ Minor(rc)' = Minor(rc) /\ Nested' = Nested
      BY <2>1 DEF Major, Minor, Nested, Test
    <2>3. CASE vectors # <<>> /\ GathersPeers
      <3>1. pc' = "measure" /\ outer' = outer /\ ~Nested
        BY <1>11, <2>3 DEF CloseLoop, Goto, Nested, GathersPeers
      <3>2. \A rc \in CellsOf(key) : Behind(rc)' <=> Behind(rc)
        BY <2>1, <2>2, <3>1 DEF Behind
      <3>3. QED
        BY <2>1, <3>2, SameCells
    <2>4. CASE ~(vectors # <<>> /\ GathersPeers)
      <3>1. pc' = "outer" /\ outer' = outer + 1
        BY <1>11, <2>4 DEF CloseLoop, Goto
      <3>2. ASSUME NEW rc \in CellsOf(key), ~Nested PROVE Major(rc) # outer
        <4>1. Test.loop # "row" /\ Test.loop \in {"row", "pair", "peer", "to_one", "to_all"}
          BY <1>1, <2>1, TestIs DEF TypeInv
        <4>2. GathersPeers /\ vectors = <<>>
          BY <2>4, <3>2, <4>1 DEF Nested, GathersPeers
        <4>3. Gathered(DeviceCount)
          BY <1>1, <2>1, <4>2 DEF VectorsInv
        <4>4. \A p \in Gpus : p # outer => <<outer, p>> \notin machine.peers
          BY <4>2, <4>3 DEF Gathered, Gpus
        <4>5. Accessible(outer) = {}
          BY <4>4 DEF Accessible
        <4>6. Accessible(rc[2]) # {} /\ Major(rc) = rc[2]
          BY <1>1, <2>1, <4>2, CellsAre DEF Major, GathersPeers
        <4>7. QED
          BY <4>5, <4>6
      <3>3. \A rc \in CellsOf(key) : Behind(rc)' <=> Behind(rc)
        BY <1>1, <1>3, <2>1, <2>2, <3>1, <3>2 DEF Behind
      <3>4. QED
        BY <2>1, <3>3, SameCells
    <2>5. QED
      BY <2>3, <2>4
  <1>12. CASE Measure
    <2>1. /\ Running /\ machine' = machine /\ key' = key /\ results' = results
          /\ outer' = outer /\ inner' = inner /\ pc = "measure" /\ pc' = "release"
      BY <1>12 DEF Measure, Running, Goto, loops
    <2>2. cells' = [rc \in DOMAIN cells \union {Cell} |->
                      IF rc = Cell THEN Transfers ELSE cells[rc]]
      BY <1>12 DEF Measure
    <2>3. Cell \in CellsOf(key) /\ KeepsPromise(key, Cell[1], Cell[2], Transfers)
      BY <2>1, MeasureKeeps
    <2>4. Cell' = Cell
      BY <2>1 DEF Cell, Self, Peer, Test
    <2>5. \A rc : Behind(rc)' <=> Behind(rc) \/ rc = Cell
      BY <2>1, <2>4 DEF Behind, Major, Minor, Nested, Test
    <2>6. CellsOf(key)' = CellsOf(key)
      BY <2>1, PromisesStay
    <2>7. DOMAIN cells' = DOMAIN cells \union {Cell}
      BY <2>2
    <2>8. DOMAIN cells' = {rc \in CellsOf(key)' : Behind(rc)'}
      BY <1>2, <2>1, <2>3, <2>5, <2>6, <2>7
    <2>9. \A rc \in DOMAIN cells' : KeepsPromise(key, rc[1], rc[2], cells[rc])'
      <3>1. SUFFICES ASSUME NEW rc \in DOMAIN cells'
                     PROVE  KeepsPromise(key, rc[1], rc[2], cells[rc])'
        OBVIOUS
      <3>2. CASE rc = Cell
        <4>1. cells'[rc] = Transfers
          BY <2>2, <3>2
        <4>2. PICK ts : ts = Transfers
          OBVIOUS
        <4>3. KeepsPromise(key, rc[1], rc[2], ts)
          BY <2>3, <3>2, <4>2
        <4>4. QED
          BY <2>1, <4>1, <4>2, <4>3, PromisesStay
      <3>3. CASE rc # Cell
        <4>1. rc \in DOMAIN cells /\ cells'[rc] = cells[rc]
          BY <2>2, <2>7, <3>3
        <4>2. KeepsPromise(key, rc[1], rc[2], cells[rc])
          BY <4>1 DEF CellsInv
        <4>3. PICK ts : ts = cells[rc]
          OBVIOUS
        <4>4. QED
          BY <2>1, <4>1, <4>2, <4>3, PromisesStay
      <3>4. QED
        BY <3>2, <3>3
    <2>10. MatrixKeepsItsPromise'
      BY <2>1, PromisesStay DEF CellsInv
    <2>11. QED
      BY <2>1, <2>8, <2>9, <2>10 DEF CellsInv
  <1>13. CASE Release
    <2>1. /\ Running /\ Running' /\ machine' = machine /\ key' = key /\ cells' = cells
          /\ results' = results /\ pc = "release"
          /\ IF Nested THEN pc' = "inner" /\ inner' = inner + 1 /\ outer' = outer
                       ELSE pc' = "outer" /\ outer' = outer + 1
      BY <1>13 DEF Release, Running, Goto, Nested
    <2>2. \A rc : Major(rc)' = Major(rc) /\ Minor(rc)' = Minor(rc) /\ Nested' = Nested
      BY <2>1 DEF Major, Minor, Nested, Test
    <2>3. ASSUME NEW rc \in CellsOf(key)
          PROVE  rc = Cell <=> Major(rc) = outer /\ (Nested => Minor(rc) = inner)
      <3>1. CASE Nested
        <4>1. rc = <<rc[1], rc[2]>> /\ Cell = <<Self, Peer>>
          BY <1>1, <2>1, <2>3, <3>1, CellsAre DEF Cell, Nested
        <4>2. QED
          BY <3>1, <4>1 DEF Major, Minor, Self, Peer, Nested
      <3>2. CASE ~Nested
        <4>1. rc = <<0, rc[2]>> /\ Cell = <<0, outer>>
          BY <1>1, <2>1, <2>3, <3>2, CellsAre DEF Cell, Nested
        <4>2. QED
          BY <3>2, <4>1 DEF Major, Nested
      <3>3. QED
        BY <3>1, <3>2
    <2>4. \A rc \in CellsOf(key) : Behind(rc)' <=> Behind(rc)
      BY <1>1, <1>3, <2>1, <2>2, <2>3 DEF Behind
    <2>5. QED
      BY <2>1, <2>4, SameCells
  <1>14. CASE FinishTest
    <2> DEFINE e == [key |-> key, status |-> "Passed", cells |-> cells]
    <2>1. /\ Running /\ pc = "outer" /\ outer = DeviceCount /\ pc' = "next"
          /\ machine' = machine /\ cells' = << >> /\ results' = Append(results, e)
      BY <1>14 DEF FinishTest, End, Goto, Running
    <2>2. DOMAIN cells = CellsOf(key)
      BY <1>2, <1>3, <2>1 DEF Behind
    <2>3. \A rc \in DOMAIN cells : KeepsPromise(key, rc[1], rc[2], cells[rc])
      BY DEF CellsInv
    <2>4. /\ e.status = "Passed" => /\ DOMAIN e.cells = CellsOf(e.key)
                                   /\ \A rc \in DOMAIN e.cells :
                                        KeepsPromise(e.key, rc[1], rc[2], e.cells[rc])
      BY <2>2, <2>3
    <2>5. PICK x : x = e
      OBVIOUS
    <2> HIDE DEF e
    <2>6. MatrixKeepsItsPromise'
      BY <1>1, <2>1, <2>4, <2>5, AddResult DEF CellsInv
    <2>7. QED
      BY <2>1, <2>6 DEF CellsInv, Running
  <1>15. CASE Throw
    <2> DEFINE e == [key |-> key, status |-> "Error", cells |-> cells]
    <2>1. /\ pc' = "next" /\ machine' = machine /\ cells' = << >>
          /\ results' = Append(results, e) /\ e.status # "Passed"
      BY <1>15 DEF Throw, End, Goto
    <2>2. PICK x : x = e
      OBVIOUS
    <2> HIDE DEF e
    <2>3. MatrixKeepsItsPromise'
      BY <1>1, <2>1, <2>2, AddResult DEF CellsInv
    <2>4. QED
      BY <2>1, <2>3 DEF CellsInv, Running
  <1>16. CASE UNCHANGED vars
    <2>1. /\ machine' = machine /\ key' = key /\ cells' = cells /\ results' = results
          /\ pc' = pc /\ outer' = outer /\ inner' = inner
      BY <1>16 DEF vars, loops
    <2>2. CASE Running
      <3>1. \A rc : Behind(rc)' <=> Behind(rc)
        BY <2>1 DEF Behind, Major, Minor, Nested, Cell, Self, Peer, Test
      <3>2. QED
        BY <2>1, <2>2, <3>1, SameCells DEF Running
    <2>3. CASE ~Running
      <3>1. MatrixKeepsItsPromise'
        BY <2>1, PromisesStay DEF CellsInv
      <3>2. \A rc \in DOMAIN cells : KeepsPromise(key, rc[1], rc[2], cells[rc])'
        <4>1. SUFFICES ASSUME NEW rc \in DOMAIN cells
                       PROVE  KeepsPromise(key, rc[1], rc[2], cells[rc])'
          OBVIOUS
        <4>2. KeepsPromise(key, rc[1], rc[2], cells[rc])
          BY DEF CellsInv
        <4>3. QED
          BY <2>1, <4>2, PromisesStay
      <3>3. QED
        BY <2>1, <2>3, <3>1, <3>2 DEF CellsInv, Running
    <2>4. QED
      BY <2>2, <2>3
  <1>17. QED
    BY <1>4, <1>5, <1>6, <1>7, <1>8, <1>9, <1>10, <1>11, <1>12, <1>13, <1>14, <1>15, <1>16
    DEF Next, Step, Ended

(***************************************************************************)
(* A testcase that passed has filled the cells of all pairs of GPUs that   *)
(* it promises, and no other, and what it measured for a cell is the       *)
(* traffic that its declaration names, under the load it names, launched   *)
(* by the GPU it names: for any number of GPUs and any peer access between *)
(* them, and whatever testcases ran before it.                             *)
(***************************************************************************)
THEOREM MatricesKeepTheirPromise == Spec => []MatrixKeepsItsPromise
  <1>1. Init => CellsInv
    BY InitCellsInv
  <1>2. IInv /\ CellsInv /\ [Next]_vars => CellsInv'
    BY StepCellsInv
  <1>3. CellsInv => MatrixKeepsItsPromise
    BY DEF CellsInv
  <1>4. QED
    BY <1>1, <1>2, <1>3, InvHolds, PTL DEF Spec
===============================================================================
