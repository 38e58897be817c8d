------------------------ MODULE ConversionChainProofs ------------------------
(***************************************************************************)
(* Theorems about ConversionChain.                                         *)
(***************************************************************************)
EXTENDS ConversionChain, ArithmeticProofs

-----------------------------------------------------------------------------
(***************************************************************************)
(* Graphs.  E maps each node to the nodes it has an edge to.               *)
(***************************************************************************)
Closed(E, T) == \A a \in T : E[a] \subseteq T
Reach(E, S) ==
  {n \in DOMAIN E : \A T \in SUBSET DOMAIN E : S \subseteq T /\ Closed(E, T) => n \in T}
Opposite(E, F) == \A a, b \in DOMAIN E : b \in E[a] <=> a \in F[b]
\* Every set of nodes has one without an edge into it.
NoCycle(F) == \A S \in SUBSET DOMAIN F : S # {} => \E n \in S : F[n] \cap S = {}

\* What can be reached is the least set that is closed.
LEMMA ReachLeast ==
  ASSUME NEW M, NEW E \in [M -> SUBSET M], NEW S \in SUBSET M
  PROVE  /\ S \subseteq Reach(E, S)
         /\ Reach(E, S) \subseteq M
         /\ Closed(E, Reach(E, S))
         /\ \A T \in SUBSET M : S \subseteq T /\ Closed(E, T) => Reach(E, S) \subseteq T
<1>1. DOMAIN E = M
  OBVIOUS
<1>2. S \subseteq Reach(E, S) /\ Reach(E, S) \subseteq M
  BY <1>1 DEF Reach
<1>3. ASSUME NEW T \in SUBSET M, S \subseteq T, Closed(E, T) PROVE Reach(E, S) \subseteq T
  BY <1>1, <1>3 DEF Reach
<1>4. ASSUME NEW a \in Reach(E, S), NEW b \in E[a] PROVE b \in Reach(E, S)
  <2>1. a \in M /\ b \in M
    BY <1>2
  <2>2. ASSUME NEW T \in SUBSET M, S \subseteq T, Closed(E, T) PROVE b \in T
    <3>1. a \in T
      BY <1>3, <2>2
    <3> QED BY <3>1, <2>2 DEF Closed
  <2> QED BY <1>1, <2>1, <2>2 DEF Reach
<1> QED BY <1>2, <1>3, <1>4 DEF Closed

\* From more nodes more is reached.
LEMMA ReachMore ==
  ASSUME NEW M, NEW E \in [M -> SUBSET M], NEW S \in SUBSET M, NEW U \in SUBSET M,
         S \subseteq Reach(E, U)
  PROVE  Reach(E, S) \subseteq Reach(E, U)
<1>1. Reach(E, U) \in SUBSET M /\ Closed(E, Reach(E, U))
  BY ReachLeast
<1> QED BY <1>1, ReachLeast

\* Who reaches whom, from both ends.
LEMMA ReachOpposite ==
  ASSUME NEW M, NEW E \in [M -> SUBSET M], NEW F \in [M -> SUBSET M], Opposite(E, F),
         NEW x \in M, NEW y \in M, x \in Reach(E, {y})
  PROVE  y \in Reach(F, {x})
<1> DEFINE T == {z \in M : y \in Reach(F, {z})}
<1>1. y \in T
  BY ReachLeast
<1>2. ASSUME NEW a \in T, NEW b \in E[a] PROVE b \in T
  <2>1. a \in M /\ b \in M /\ a \in F[b]
    BY DEF Opposite
  <2>2. b \in Reach(F, {b}) /\ Closed(F, Reach(F, {b}))
    BY <2>1, ReachLeast
  <2>3. {a} \subseteq Reach(F, {b})
    BY <2>1, <2>2 DEF Closed
  <2>4. Reach(F, {a}) \subseteq Reach(F, {b})
    BY <2>1, <2>3, ReachMore
  <2> QED BY <2>1, <2>4
<1>3. T \in SUBSET M /\ {y} \subseteq T /\ Closed(E, T)
  BY <1>1, <1>2 DEF Closed
<1> HIDE DEF T
<1>4. Reach(E, {y}) \subseteq T
  BY <1>3, ReachLeast
<1> QED BY <1>4 DEF T

\* From a node, what else is reached is reached from the end of one of its edges.
LEMMA ReachStep ==
  ASSUME NEW M, NEW F \in [M -> SUBSET M], NEW n \in M, NEW x \in Reach(F, {n}), x # n
  PROVE  \E z \in F[n] : x \in Reach(F, {z})
<1> DEFINE T == {n} \cup {w \in M : \E z \in F[n] : w \in Reach(F, {z})}
<1>1. ASSUME NEW z \in F[n]
      PROVE  z \in Reach(F, {z}) /\ Reach(F, {z}) \subseteq M /\ Closed(F, Reach(F, {z}))
  <2>1. {z} \in SUBSET M
    OBVIOUS
  <2> QED BY <2>1, ReachLeast
<1>2. ASSUME NEW a \in T, NEW b \in F[a] PROVE b \in T
  <2>1. CASE a = n
    <3>1. b \in F[n] /\ b \in M
      BY <2>1, <1>2
    <3> QED BY <3>1, <1>1
  <2>2. CASE a # n
    <3>1. PICK z \in F[n] : a \in Reach(F, {z})
      BY <2>2
    <3>2. b \in Reach(F, {z}) /\ b \in M
      BY <3>1, <1>1, <1>2 DEF Closed
    <3> QED BY <3>2
  <2> QED BY <2>1, <2>2
<1>3. T \in SUBSET M /\ {n} \subseteq T /\ Closed(F, T)
  BY <1>2 DEF Closed
<1> HIDE DEF T
<1>4. Reach(F, {n}) \subseteq T
  BY <1>3, ReachLeast
<1> QED BY <1>4 DEF T

\* Without cycles nothing is reached from behind it.
LEMMA NoReturn ==
  ASSUME NEW M, NEW F \in [M -> SUBSET M], NoCycle(F), NEW x \in M, NEW y \in F[x]
  PROVE  x \notin Reach(F, {y})
<1> SUFFICES ASSUME x \in Reach(F, {y}) PROVE FALSE
  OBVIOUS
<1> DEFINE S == {z \in Reach(F, {y}) : x \in Reach(F, {z})}
<1>0. y \in M /\ {y} \in SUBSET M
  OBVIOUS
<1>1. y \in Reach(F, {y}) /\ Reach(F, {y}) \subseteq M /\ Closed(F, Reach(F, {y}))
  BY <1>0, ReachLeast
<1>2. y \in S /\ S \in SUBSET DOMAIN F
  BY <1>1
<1>3. PICK n \in S : F[n] \cap S = {}
  <2> HIDE DEF S
  <2> QED BY <1>2 DEF NoCycle
<1>4. n \in M /\ x \in Reach(F, {n}) /\ n \in Reach(F, {y})
  BY <1>1, <1>3
<1>5. CASE n = x
  BY <1>2, <1>3, <1>5
<1>6. CASE n # x
  <2>1. PICK z \in F[n] : x \in Reach(F, {z})
    BY <1>4, <1>6, ReachStep
  <2>2. z \in Reach(F, {y})
    BY <1>1, <1>4 DEF Closed
  <2> QED BY <2>1, <2>2, <1>3
<1> QED BY <1>5, <1>6

\* The children, parents and limits of a mempool.
Limited(E) == \A n \in DOMAIN E : Cardinality(Reach(E, {n})) <= CountLimit
IsMempoolGraph(M, E, F) ==
  /\ IsFiniteSet(M)
  /\ E \in [M -> SUBSET M]
  /\ F \in [M -> SUBSET M]
  /\ Opposite(E, F)
  /\ NoCycle(F)
  /\ Limited(E)
  /\ Limited(F)

\* Some nodes are removed.
Without(E, L) == [a \in DOMAIN E \ L |-> E[a] \ L]
LEMMA ReachWithout ==
  ASSUME NEW M, NEW E \in [M -> SUBSET M], NEW L, NEW S \in SUBSET (M \ L)
  PROVE  /\ Without(E, L) \in [M \ L -> SUBSET (M \ L)]
         /\ Reach(Without(E, L), S) \subseteq Reach(E, S) \ L
<1> DEFINE T == Reach(E, S) \ L
<1>1. Without(E, L) \in [M \ L -> SUBSET (M \ L)]
  BY DEF Without
<1>2. S \subseteq Reach(E, S) /\ Reach(E, S) \subseteq M /\ Closed(E, Reach(E, S))
  BY ReachLeast
<1>3. T \in SUBSET (M \ L) /\ S \subseteq T
  BY <1>2
<1>4. Closed(Without(E, L), T)
  <2> SUFFICES ASSUME NEW a \in T PROVE Without(E, L)[a] \subseteq T
    BY DEF Closed
  <2>1. a \in M \ L /\ Without(E, L)[a] = E[a] \ L /\ E[a] \subseteq Reach(E, S)
    BY <1>2 DEF Closed, Without
  <2> QED BY <2>1
<1> HIDE DEF T
<1>5. Reach(Without(E, L), S) \subseteq T
  BY <1>1, <1>3, <1>4, ReachLeast
<1> QED BY <1>1, <1>5 DEF T

\* Less is reached from each.
LEMMA LimitedWithout ==
  ASSUME NEW M, IsFiniteSet(M), NEW E \in [M -> SUBSET M], NEW L, Limited(E), CountLimit \in Nat
  PROVE  Limited(Without(E, L))
<1> SUFFICES ASSUME NEW n \in M \ L PROVE Cardinality(Reach(Without(E, L), {n})) <= CountLimit
  BY DEF Limited, Without
<1>1. Reach(Without(E, L), {n}) \subseteq Reach(E, {n}) /\ Reach(E, {n}) \subseteq M
  <2>1. {n} \in SUBSET (M \ L) /\ {n} \in SUBSET M
    OBVIOUS
  <2>2. Reach(Without(E, L), {n}) \subseteq Reach(E, {n}) \ L
    BY <2>1, ReachWithout
  <2>3. Reach(E, {n}) \subseteq M
    BY <2>1, ReachLeast
  <2> QED BY <2>2, <2>3
<1>2. IsFiniteSet(Reach(E, {n})) /\ IsFiniteSet(Reach(Without(E, L), {n}))
      /\ Cardinality(Reach(Without(E, L), {n})) <= Cardinality(Reach(E, {n}))
  BY <1>1, FS_Subset
<1>3. Cardinality(Reach(E, {n})) <= CountLimit
  BY DEF Limited
<1>4. Cardinality(Reach(E, {n})) \in Nat /\ Cardinality(Reach(Without(E, L), {n})) \in Nat
  BY <1>2, FS_CardinalityType
<1> QED BY <1>2, <1>3, <1>4

LEMMA GraphWithout ==
  ASSUME NEW M, NEW E, NEW F, NEW L, IsMempoolGraph(M, E, F), CountLimit \in Nat
  PROVE  IsMempoolGraph(M \ L, Without(E, L), Without(F, L))
<1>1. Without(E, L) \in [M \ L -> SUBSET (M \ L)] /\ Without(F, L) \in [M \ L -> SUBSET (M \ L)]
  BY DEF IsMempoolGraph, Without
<1>2. IsFiniteSet(M \ L)
  BY FS_Subset DEF IsMempoolGraph
<1>3. Opposite(Without(E, L), Without(F, L))
  BY DEF IsMempoolGraph, Opposite, Without
<1>4. NoCycle(Without(F, L))
  <2> SUFFICES ASSUME NEW S \in SUBSET (M \ L), S # {}
               PROVE  \E n \in S : Without(F, L)[n] \cap S = {}
    BY DEF NoCycle, Without, IsMempoolGraph
  <2>1. PICK n \in S : F[n] \cap S = {}
    BY DEF NoCycle, IsMempoolGraph
  <2>2. Without(F, L)[n] = F[n] \ L
    BY DEF Without, IsMempoolGraph
  <2> QED BY <2>1, <2>2
<1>5. Limited(Without(E, L)) /\ Limited(Without(F, L))
  BY LimitedWithout DEF IsMempoolGraph
<1> QED BY <1>1, <1>2, <1>3, <1>4, <1>5 DEF IsMempoolGraph

\* A node n without children joins, P are its parents.
ChildrenWith(E, n, P) ==
  [a \in DOMAIN E \cup {n} |->
     IF a = n THEN {} ELSE E[a] \cup (IF a \in P THEN {n} ELSE {})]
ParentsWith(F, n, P) == [b \in DOMAIN F \cup {n} |-> IF b = n THEN P ELSE F[b]]
MayJoin(E, F, P) ==
  /\ Cardinality(Reach(F, P)) + 1 <= CountLimit
  /\ \A m \in Reach(F, P) : Cardinality(Reach(E, {m})) + 1 <= CountLimit

LEMMA GraphWith ==
  ASSUME NEW M, NEW E, NEW F, NEW n, n \notin M, NEW P \in SUBSET M,
         IsMempoolGraph(M, E, F), MayJoin(E, F, P), CountLimit \in Nat
  PROVE  IsMempoolGraph(M \cup {n}, ChildrenWith(E, n, P), ParentsWith(F, n, P))
<1> DEFINE U == M \cup {n}
           C == ChildrenWith(E, n, P)
           G == ParentsWith(F, n, P)
<1>0. E \in [M -> SUBSET M] /\ F \in [M -> SUBSET M] /\ IsFiniteSet(M)
  BY DEF IsMempoolGraph
<1>1. C \in [U -> SUBSET U] /\ G \in [U -> SUBSET U]
  BY <1>0 DEF ChildrenWith, ParentsWith
<1>2. IsFiniteSet(U)
  BY <1>0, FS_AddElement
<1>3. /\ C[n] = {} /\ G[n] = P
      /\ \A a \in M : G[a] = F[a] /\ C[a] = E[a] \cup (IF a \in P THEN {n} ELSE {})
  BY <1>0 DEF ChildrenWith, ParentsWith
<1>4. DOMAIN C = U /\ DOMAIN G = U /\ DOMAIN E = M /\ DOMAIN F = M
  BY <1>0, <1>1
<1> HIDE DEF C, G
<1>5. Opposite(C, G)
  <2> SUFFICES ASSUME NEW a \in U, NEW b \in U PROVE b \in C[a] <=> a \in G[b]
    BY <1>4 DEF Opposite
  <2>1. CASE a = n
    BY <2>1, <1>3, <1>0
  <2>2. CASE a # n /\ b = n
    BY <2>2, <1>3, <1>0
  <2>3. CASE a # n /\ b # n
    <3>1. b \in E[a] <=> a \in F[b]
      BY <2>3, <1>0, <1>4 DEF IsMempoolGraph, Opposite
    <3> QED BY <3>1, <2>3, <1>3
  <2> QED BY <2>1, <2>2, <2>3
<1>6. NoCycle(G)
  <2> SUFFICES ASSUME NEW S \in SUBSET U, S # {} PROVE \E m \in S : G[m] \cap S = {}
    BY <1>4 DEF NoCycle
  <2>1. CASE S = {n}
    BY <2>1, <1>3
  <2>2. CASE S # {n}
    <3>1. S \ {n} \in SUBSET M /\ S \ {n} # {}
      BY <2>2
    <3>2. PICK m \in S \ {n} : F[m] \cap (S \ {n}) = {}
      BY <3>1, <1>4 DEF NoCycle, IsMempoolGraph
    <3>3. G[m] = F[m] /\ n \notin F[m]
      BY <3>1, <1>3, <1>0
    <3> QED BY <3>2, <3>3
  <2> QED BY <2>1, <2>2
\* Sets within which something is reached bound what is reached.
<1>7. ASSUME NEW H \in [U -> SUBSET U], NEW m \in U, NEW T \in SUBSET U, m \in T, Closed(H, T),
             Cardinality(T) <= CountLimit
      PROVE  Cardinality(Reach(H, {m})) <= CountLimit
  <2>1. Reach(H, {m}) \subseteq T
    BY <1>7, ReachLeast
  <2>2. IsFiniteSet(T) /\ IsFiniteSet(Reach(H, {m})) /\ Cardinality(Reach(H, {m})) <= Cardinality(T)
    BY <2>1, <1>2, FS_Subset
  <2>3. Cardinality(T) \in Nat /\ Cardinality(Reach(H, {m})) \in Nat
    BY <2>2, FS_CardinalityType
  <2> QED BY <2>2, <2>3, <1>7
\* One node more.
<1>8. ASSUME NEW T \in SUBSET M
      PROVE Cardinality(T \cup {n}) = Cardinality(T) + 1
  BY <1>0, FS_Subset, FS_AddElement
<1>9. /\ P \subseteq Reach(F, P) /\ Reach(F, P) \subseteq M /\ Closed(F, Reach(F, P))
  BY <1>0, ReachLeast
<1>10. Limited(G)
  <2> SUFFICES ASSUME NEW m \in U PROVE Cardinality(Reach(G, {m})) <= CountLimit
    BY <1>4 DEF Limited
  <2>1. CASE m = n
    <3> DEFINE T == Reach(F, P) \cup {n}
    <3>1. T \in SUBSET U /\ m \in T
      BY <1>9, <2>1
    <3>2. Closed(G, T)
      BY <1>3, <1>9 DEF Closed
    <3>3. Cardinality(T) <= CountLimit
      BY <1>8, <1>9 DEF MayJoin
    <3> QED BY <3>1, <3>2, <3>3, <1>1, <1>7
  <2>2. CASE m # n
    <3> DEFINE T == Reach(F, {m})
    <3>0. m \in M
      BY <2>2
    <3>1. m \in T /\ T \subseteq M /\ Closed(F, T)
      BY <3>0, <1>0, ReachLeast
    <3>2. Closed(G, T) /\ T \in SUBSET U
      BY <3>1, <1>3 DEF Closed
    <3>3. Cardinality(T) <= CountLimit
      BY <3>0, <1>4 DEF IsMempoolGraph, Limited
    <3> QED BY <3>1, <3>2, <3>3, <1>1, <1>7
  <2> QED BY <2>1, <2>2
<1>11. Limited(C)
  <2> SUFFICES ASSUME NEW m \in U PROVE Cardinality(Reach(C, {m})) <= CountLimit
    BY <1>4 DEF Limited
  <2>1. CASE m = n
    <3>1. Closed(C, {n}) /\ {n} \in SUBSET U /\ m \in {n}
      BY <1>3, <2>1 DEF Closed
    <3>2. {} \cup {n} = {n} /\ Cardinality({}) = 0
      BY FS_EmptySet
    <3>3. Cardinality({n}) = 1
      BY <3>2, <1>8
    <3>4. Cardinality(Reach(F, P)) \in Nat
      BY <1>9, <1>0, FS_Subset, FS_CardinalityType
    <3>5. 1 <= CountLimit
      BY <3>4 DEF MayJoin
    <3> QED BY <3>1, <3>3, <3>5, <1>1, <1>7
  <2>2. CASE m # n /\ m \in Reach(F, P)
    <3> DEFINE T == Reach(E, {m}) \cup {n}
    <3>0. m \in M
      BY <2>2
    <3>1. m \in Reach(E, {m}) /\ Reach(E, {m}) \subseteq M /\ Closed(E, Reach(E, {m}))
      BY <3>0, <1>0, ReachLeast
    <3>2. Closed(C, T) /\ T \in SUBSET U /\ m \in T
      BY <3>1, <1>3 DEF Closed
    <3>3. Cardinality(T) <= CountLimit
      BY <3>1, <2>2, <1>8 DEF MayJoin
    <3> QED BY <3>2, <3>3, <1>1, <1>7
  <2>3. CASE m # n /\ m \notin Reach(F, P)
    <3> DEFINE T == Reach(E, {m})
    <3>0. m \in M
      BY <2>3
    <3>1. m \in T /\ T \subseteq M /\ Closed(E, T)
      BY <3>0, <1>0, ReachLeast
    <3>2. ASSUME NEW a \in T PROVE a \notin P
      <4> SUFFICES ASSUME a \in P PROVE FALSE
        OBVIOUS
      <4>1. m \in Reach(F, {a})
        BY <3>0, <3>1, <1>0, ReachOpposite DEF IsMempoolGraph
      <4>2. {a} \subseteq Reach(F, P)
        BY <1>9
      <4>3. Reach(F, {a}) \subseteq Reach(F, P)
        BY <4>2, <1>0, ReachMore
      <4> QED BY <4>1, <4>3, <2>3
    <3>3. Closed(C, T) /\ T \in SUBSET U
      BY <3>1, <3>2, <1>3 DEF Closed
    <3>4. Cardinality(T) <= CountLimit
      BY <3>0, <1>4 DEF IsMempoolGraph, Limited
    <3> QED BY <3>1, <3>3, <3>4, <1>1, <1>7
  <2> QED BY <2>1, <2>2, <2>3
<1> QED BY <1>1, <1>2, <1>5, <1>6, <1>10, <1>11 DEF IsMempoolGraph, C, G

-----------------------------------------------------------------------------
(***************************************************************************)
(* The inductive invariant: the node.                                      *)
(***************************************************************************)
Children == [a \in mempool |-> Spenders({a})]
ParentsOf == [b \in mempool |-> Parents(Tx(b))]
MempoolIsGraph == IsMempoolGraph(mempool, Children, ParentsOf)

OwnNames == {"test", "convert"}
NamesKnown ==
  /\ DOMAIN own \subseteq OwnNames
  /\ mempool \cup mined \subseteq DOMAIN Pool \cup DOMAIN own
  /\ mempool \cap mined = {}

\* An output is spent once, in blocks and in the mempool, after it was made.
SpentOnce ==
  /\ \A m, n \in mempool \cup mined : m # n => Tx(m).inputs \cap Tx(n).inputs = {}
  /\ \A n \in mempool : \A o \in Tx(n).inputs : o.tx \in mined \cup mempool \cup {"root"}
  /\ \A n \in mined : \A o \in Tx(n).inputs : o.tx \in mined \cup {"root"}

\* The end of the chain, as the node, the index and the command know it.
IsMined(o) == o = Nowhere \/ (o.out = "convert" /\ o.tx \in mined \cup {"root"})
EndsMined == IsMined(tip.end) /\ IsMined(index.end) /\ IsMined(end)

NodeInvariant == MempoolIsGraph /\ NamesKnown /\ SpentOnce /\ EndsMined

(***************************************************************************)
(* The inductive invariant: the command.                                   *)
(***************************************************************************)
Before == {"start", "ease", "end", "mempool"}
Testing == {"test", "send test"}
Looking == {"walk", "simulate", "choose", "send"}
PhaseOK ==
  /\ phase \in Before \cup Testing \cup Looking \cup {"done"}
  /\ phase \in Before \cup Testing => DOMAIN own = {} /\ found = << >>
  /\ phase # "done" => "convert" \notin DOMAIN own
  /\ quiet => phase \notin Before /\ (phase # "done" => DOMAIN own = {})
  /\ phase \in {"mempool"} \cup Testing => at = end

\* What the search is for, and what it still knows of it.
Sought(n) ==
  /\ n \in mempool
  /\ end \in Tx(n).inputs
  /\ Tx(n).rbf
  /\ Parents(Tx(n)) = {}
  /\ Tx(n).size >= TestSize
RateStarts == phase \in Before => rate = Relay
RawIsMempool == phase \in Testing /\ quiet => \A n \in DOMAIN raw : n \in mempool /\ raw[n] = Entry(n)
SoughtIsKnown ==
  phase \in Testing /\ quiet /\ floor = Relay =>
    \A n \in mempool :
      Sought(n) => n \in DOMAIN raw /\ rate \in {Relay, RateOf(Tx(n)) + 100} /\ rate >= Relay
SoughtIsFound ==
  phase \in Looking /\ quiet /\ floor = Relay =>
    \A n \in mempool : Sought(n) => n \in FoundNames \/ (phase = "walk" /\ n \in candidates)

\* What is found is a path through the mempool, from the end on.
IsSequence(s) == \E S : s \in Seq(S)
FoundKnown ==
  /\ IsSequence(found)
  /\ \A i \in DOMAIN found : found[i].name \in DOMAIN Pool \cup DOMAIN own
AtIsNext ==
  phase \in Looking =>
    at = IF found = << >> THEN end
         ELSE IF Tx(Last(found).name).leaves THEN Convert(Last(found).name) ELSE Nowhere
FoundInMempool ==
  phase \in Looking /\ quiet =>
    \A i \in DOMAIN found :
      /\ found[i].name \in mempool
      /\ found[i].entry = Entry(found[i].name)
      /\ Place(i) \in Tx(found[i].name).inputs
ChainIsWhole ==
  phase \in Looking /\ quiet /\ found # << >> =>
    \A n \in mempool : at \in Tx(n).inputs => phase = "walk" /\ n \in candidates

\* The place that was chosen.
Chosen ==
  phase = "send" =>
    /\ command \in Commands
    /\ draft.place \in 1..(Len(found) + 1)
    /\ draft.deepest \in 1..(Len(found) + 1)
    /\ draft.place <= draft.deepest
    /\ \A j \in draft.place..(draft.deepest - 1) : Replaceable(command, j)

FoundOK == FoundKnown /\ AtIsNext /\ FoundInMempool /\ ChainIsWhole /\ Chosen
SearchOK == RateStarts /\ RawIsMempool /\ SoughtIsKnown /\ SoughtIsFound

\* Fees and rates are numbers.  Whoever was refused for the fees was not refused
\* by the floor, which is the relay fee then.
FloorKnown == floor \in Nat /\ floor >= Relay /\ rate \in Nat
OwnKnown == \A n \in DOMAIN own : own[n].fee \in Nat /\ own[n].size \in Nat \ {0}
NobodyYet == phase \in Before \cup Testing => candidates = {}
FloorSeen ==
  quiet /\ (phase = "send test" \/ rate # Relay \/ candidates # {} \/ found # << >>) =>
    floor = Relay
FloorOK == FloorKnown /\ OwnKnown /\ NobodyYet /\ FloorSeen

-----------------------------------------------------------------------------
(* The mempool as a graph. *)

LEMMA GraphTypes ==
  /\ Children \in [mempool -> SUBSET mempool]
  /\ ParentsOf \in [mempool -> SUBSET mempool]
  /\ Opposite(Children, ParentsOf)
<1>1. Children \in [mempool -> SUBSET mempool] /\ ParentsOf \in [mempool -> SUBSET mempool]
  BY DEF Children, ParentsOf, Spenders, Parents
<1>2. ASSUME NEW a \in mempool, NEW b \in mempool PROVE b \in Children[a] <=> a \in ParentsOf[b]
  BY DEF Children, ParentsOf, Spenders, Parents
<1> QED BY <1>1, <1>2 DEF Opposite

LEMMA ReachIsClosure ==
  ASSUME NEW S
  PROVE  /\ Descendants(S) = Reach(Children, S)
         /\ Ancestors(S) = Reach(ParentsOf, S)
<1>1. DOMAIN Children = mempool /\ DOMAIN ParentsOf = mempool
  BY GraphTypes
<1>2. ASSUME NEW T \in SUBSET mempool PROVE Spenders(T) \subseteq T <=> Closed(Children, T)
  <2>1. \A a \in T : Children[a] = Spenders({a})
    BY DEF Children
  <2>2. ASSUME NEW b \in Spenders(T) PROVE \E a \in T : b \in Spenders({a})
    BY DEF Spenders
  <2>3. ASSUME NEW a \in T, NEW b \in Spenders({a}) PROVE b \in Spenders(T)
    BY DEF Spenders
  <2>4. ASSUME Spenders(T) \subseteq T PROVE Closed(Children, T)
    BY <2>1, <2>3, <2>4 DEF Closed
  <2>5. ASSUME Closed(Children, T) PROVE Spenders(T) \subseteq T
    BY <2>1, <2>2, <2>5 DEF Closed
  <2> QED BY <2>4, <2>5
<1>3. ASSUME NEW T \in SUBSET mempool
      PROVE  (\A m \in T : Parents(Tx(m)) \subseteq T) <=> Closed(ParentsOf, T)
  <2>1. \A a \in T : ParentsOf[a] = Parents(Tx(a))
    BY DEF ParentsOf
  <2> QED BY <2>1 DEF Closed
<1>4. Descendants(S) = Reach(Children, S)
  BY <1>1, <1>2 DEF Descendants, Reach
<1>5. Ancestors(S) = Reach(ParentsOf, S)
  BY <1>1, <1>3 DEF Ancestors, Reach
<1> QED BY <1>4, <1>5

\* Descendants of transactions of the mempool.
LEMMA DescendantsLeast ==
  ASSUME NEW S \in SUBSET mempool
  PROVE  /\ S \subseteq Descendants(S)
         /\ Descendants(S) \subseteq mempool
         /\ Spenders(Descendants(S)) \subseteq Descendants(S)
         /\ S = {} => Descendants(S) = {}
<1>1. Descendants(S) = Reach(Children, S)
  BY ReachIsClosure
<1>2. S \subseteq Reach(Children, S) /\ Reach(Children, S) \subseteq mempool
      /\ Closed(Children, Reach(Children, S))
      /\ \A T \in SUBSET mempool : S \subseteq T /\ Closed(Children, T) => Reach(Children, S) \subseteq T
  BY GraphTypes, ReachLeast
<1>3. Spenders(Descendants(S)) \subseteq Descendants(S)
  <2> SUFFICES ASSUME NEW b \in Spenders(Descendants(S)) PROVE b \in Descendants(S)
    OBVIOUS
  <2>1. PICK a \in Descendants(S) : b \in Spenders({a})
    BY DEF Spenders
  <2>2. a \in mempool /\ b \in Children[a]
    BY <2>1, <1>1, <1>2 DEF Children
  <2> QED BY <2>1, <2>2, <1>1, <1>2 DEF Closed
<1>4. S = {} => Descendants(S) = {}
  <2>1. Closed(Children, {})
    BY DEF Closed
  <2> QED BY <2>1, <1>1, <1>2
<1> QED BY <1>1, <1>2, <1>3, <1>4

-----------------------------------------------------------------------------
(* The node's steps. *)

\* The rules of the mempool, in their order.
Fixed(t) == \E n \in Conflicts(t) : ~Tx(n).rbf
Cheap(t) == t.fee < FeeAt(floor, t.size)
Long(t) ==
  \/ Cardinality(Ancestors(Parents(t))) + 1 > CountLimit
  \/ \E n \in Ancestors(Parents(t)) :
       Cardinality(Descendants({n}) \ Descendants(Conflicts(t))) + 1 > CountLimit
Twisted(t) == Parents(t) \cap Descendants(Conflicts(t)) # {}
Slow(t) == \E n \in Conflicts(t) : RateOf(t) <= RateOf(Tx(n))
Leaving(t) == Fees(Descendants(Conflicts(t)))

LEMMA VerdictIs ==
  ASSUME NEW t
  PROVE  Verdict(t) =
           IF ~Available(t) THEN Answer("missing", 0)
           ELSE IF Fixed(t) THEN Answer("conflict", 0)
           ELSE IF Cheap(t) THEN Answer("min fee", 0)
           ELSE IF Long(t) THEN Answer("too long", 0)
           ELSE IF Conflicts(t) = {} THEN Answer("accepted", 0)
           ELSE IF Twisted(t) THEN Answer("spends conflicting", 0)
           ELSE IF Slow(t) THEN Answer("old feerate", Max({RateOf(Tx(n)) : n \in Conflicts(t)}))
           ELSE IF t.fee < Leaving(t) THEN Answer("less fees", Leaving(t))
           ELSE IF t.fee - Leaving(t) < FeeAt(Relay, t.size)
                THEN Answer("relay", t.fee - Leaving(t))
           ELSE Answer("accepted", 0)
  BY DEF Verdict, Fixed, Cheap, Long, Twisted, Slow, Leaving

LEMMA AnswerIs ==
  ASSUME NEW w, NEW a, NEW v, v = Answer(w, a)
  PROVE  v.why = w /\ v.amount = a
BY DEF Answer

LEMMA AcceptedIs ==
  ASSUME NEW t, Verdict(t).why = "accepted"
  PROVE  Available(t) /\ ~Fixed(t) /\ ~Cheap(t) /\ ~Long(t) /\ (Conflicts(t) = {} \/ ~Twisted(t))
  BY VerdictIs DEF Answer

\* Transactions that stay are what they were.
Same == \A m \in mempool \cup mined : Tx(m)' = Tx(m)

LEMMA SizesKnown == CountLimit \in Nat /\ TestSize \in Nat /\ OwnSize \in Nat
BY SizeAssumption

\* Some leave the mempool.
LEMMA GraphLeaves ==
  ASSUME MempoolIsGraph, NEW L, mempool' = mempool \ L, Same
  PROVE  MempoolIsGraph'
<1>1. Children' = Without(Children, L)
  <2>1. ASSUME NEW a \in mempool \ L PROVE Spenders({a})' = Spenders({a}) \ L
    BY DEF Spenders, Same
  <2> QED BY <2>1 DEF Children, Without
<1>2. ParentsOf' = Without(ParentsOf, L)
  <2>1. ASSUME NEW b \in mempool \ L PROVE Parents(Tx(b))' = Parents(Tx(b)) \ L
    BY DEF Parents, Same
  <2> QED BY <2>1 DEF ParentsOf, Without
<1>3. IsMempoolGraph(mempool \ L, Without(Children, L), Without(ParentsOf, L))
  BY SizesKnown, GraphWithout DEF MempoolIsGraph
<1> QED BY <1>1, <1>2, <1>3 DEF MempoolIsGraph

\* A transaction that the mempool accepts enters.
LEMMA GraphEnters ==
  ASSUME MempoolIsGraph, SpentOnce, Same, NEW n, NEW t, n \notin mempool \cup mined \cup {"root"},
         Verdict(t).why = "accepted", Enter(n, t), mined' = mined, Tx(n)' = t
  PROVE  MempoolIsGraph' /\ SpentOnce'
<1> DEFINE L == Descendants(Conflicts(t))
           M == mempool \ L
           P == Parents(t)
           E == Without(Children, L)
           F == Without(ParentsOf, L)
<1>1. Available(t) /\ ~Long(t)
  BY AcceptedIs
<1>2. Conflicts(t) \subseteq mempool /\ P \subseteq mempool
  BY DEF Conflicts, Parents
<1>3. Conflicts(t) \subseteq L /\ L \subseteq mempool /\ Spenders(L) \subseteq L
  BY <1>2, DescendantsLeast
<1>4. P \subseteq M
  <2>1. CASE Conflicts(t) = {}
    <3>1. L = {}
      BY <2>1, DescendantsLeast
    <3> QED BY <3>1, <1>2
  <2>2. CASE ~Twisted(t)
    BY <2>2, <1>2 DEF Twisted
  <2> QED BY <2>1, <2>2, AcceptedIs
<1>5. mempool' = M \cup {n}
  BY DEF Enter
<1>6. IsMempoolGraph(M, E, F)
  BY SizesKnown, GraphWithout DEF MempoolIsGraph
<1>7. MayJoin(E, F, P)
  <2>1. ASSUME NEW S \in SUBSET M
        PROVE  /\ Reach(E, S) \subseteq Descendants(S) \ L
               /\ Reach(F, S) \subseteq Ancestors(S) \ L
               /\ IsFiniteSet(Descendants(S)) /\ IsFiniteSet(Ancestors(S))
    <3>1. Descendants(S) = Reach(Children, S) /\ Ancestors(S) = Reach(ParentsOf, S)
      BY ReachIsClosure
    <3>2. Reach(E, S) \subseteq Reach(Children, S) \ L /\ Reach(F, S) \subseteq Reach(ParentsOf, S) \ L
      BY GraphTypes, ReachWithout
    <3>3. Descendants(S) \subseteq mempool /\ Ancestors(S) \subseteq mempool
      BY DEF Descendants, Ancestors
    <3>4. IsFiniteSet(mempool)
      BY DEF MempoolIsGraph, IsMempoolGraph
    <3> QED BY <3>1, <3>2, <3>3, <3>4, FS_Subset
  <2>2. ASSUME NEW A, NEW B, A \subseteq B, IsFiniteSet(B), ~(Cardinality(B) + 1 > CountLimit)
        PROVE  Cardinality(A) + 1 <= CountLimit
    <3>1. Cardinality(A) <= Cardinality(B) /\ Cardinality(A) \in Nat /\ Cardinality(B) \in Nat
      BY <2>2, FS_Subset, FS_CardinalityType
    <3> QED BY <3>1, <2>2, SizesKnown
  <2>3. Cardinality(Reach(F, P)) + 1 <= CountLimit
    <3>1. ~(Cardinality(Ancestors(P)) + 1 > CountLimit)
      BY <1>1 DEF Long
    <3>2. Reach(F, P) \subseteq Ancestors(P) /\ IsFiniteSet(Ancestors(P))
      BY <1>4, <2>1
    <3> QED BY <3>1, <3>2, <2>2
  <2>4. ASSUME NEW m \in Reach(F, P) PROVE Cardinality(Reach(E, {m})) + 1 <= CountLimit
    <3>1. m \in Ancestors(P) /\ m \in M
      <4>1. Ancestors(P) \subseteq mempool
        BY DEF Ancestors
      <4> QED BY <4>1, <1>4, <2>1
    <3>2. ~(Cardinality(Descendants({m}) \ L) + 1 > CountLimit)
      BY <3>1, <1>1 DEF Long
    <3>3. Reach(E, {m}) \subseteq Descendants({m}) \ L /\ IsFiniteSet(Descendants({m}))
      BY <3>1, <2>1
    <3>4. IsFiniteSet(Descendants({m}) \ L)
      BY <3>3, FS_Subset
    <3> QED BY <3>2, <3>3, <3>4, <2>2
  <2> QED BY <2>3, <2>4 DEF MayJoin
<1>8. IsMempoolGraph(M \cup {n}, ChildrenWith(E, n, P), ParentsWith(F, n, P))
  <2>1. n \notin M /\ P \in SUBSET M
    BY <1>4
  <2> HIDE DEF M, P, E, F
  <2> QED BY <2>1, <1>6, <1>7, SizesKnown, GraphWith
<1>9. /\ \A m \in M : Tx(m)' = Tx(m)
      /\ \A m \in mempool : \A o \in Tx(m).inputs : o.tx \in mined \cup mempool \cup {"root"}
      /\ \A o \in t.inputs : o.tx \in mined \cup mempool \cup {"root"}
  BY <1>1 DEF Same, SpentOnce, Available
<1>10. Children' = ChildrenWith(E, n, P)
  <2>1. ASSUME NEW a \in M PROVE Spenders({a})' = (Spenders({a}) \ L) \cup (IF a \in P THEN {n} ELSE {})
    BY <1>5, <1>9 DEF Spenders, Parents
  <2>2. Spenders({n})' = {}
    BY <1>5, <1>9 DEF Spenders
  <2>3. \A a \in M : E[a] = Spenders({a}) \ L
    BY DEF Without, Children
  <2>4. DOMAIN E = M /\ n \notin M
    BY DEF Without, Children
  <2>5. Children' = [a \in M \cup {n} |-> Spenders({a})']
    BY <1>5 DEF Children
  <2> HIDE DEF M, P, E, L
  <2> QED BY <2>1, <2>2, <2>3, <2>4, <2>5 DEF ChildrenWith
<1>11. ParentsOf' = ParentsWith(F, n, P)
  <2>1. ASSUME NEW b \in M PROVE Parents(Tx(b))' = Parents(Tx(b)) \ L
    <3>1. Tx(b)' = Tx(b) /\ \A o \in Tx(b).inputs : o.tx # n
      BY <1>9
    <3>2. Parents(Tx(b))' = {m \in M \cup {n} : \E o \in Tx(b).inputs : o.tx = m}
      BY <3>1, <1>5 DEF Parents
    <3> QED BY <3>1, <3>2 DEF Parents
  <2>2. Parents(Tx(n))' = P
    <3>1. \A o \in t.inputs : o.tx # n
      BY <1>9
    <3>2. Parents(Tx(n))' = {m \in M \cup {n} : \E o \in t.inputs : o.tx = m}
      BY <1>5 DEF Parents
    <3> QED BY <3>1, <3>2, <1>4 DEF Parents
  <2>3. \A b \in M : F[b] = Parents(Tx(b)) \ L
    BY DEF Without, ParentsOf
  <2>4. DOMAIN F = M /\ n \notin M
    BY DEF Without, ParentsOf
  <2>5. ParentsOf' = [b \in M \cup {n} |-> Parents(Tx(b))']
    BY <1>5 DEF ParentsOf
  <2> HIDE DEF M, P, F, L
  <2> QED BY <2>1, <2>2, <2>3, <2>4, <2>5 DEF ParentsWith
<1>12. MempoolIsGraph'
  BY <1>5, <1>8, <1>10, <1>11 DEF MempoolIsGraph
<1>13. ASSUME NEW m \in M \cup mined PROVE Tx(m).inputs \cap t.inputs = {}
  <2>1. CASE m \in M
    BY <2>1, <1>3 DEF Conflicts
  <2>2. CASE m \in mined
    BY <2>2, <1>1 DEF Available
  <2> QED BY <2>1, <2>2
<1>14. ASSUME NEW m \in mempool' \cup mined', NEW k \in mempool' \cup mined', m # k
       PROVE  Tx(m)'.inputs \cap Tx(k)'.inputs = {}
  <2> DEFINE X(i) == IF i = n THEN t ELSE Tx(i)
  <2>1. m \in M \cup mined \cup {n} /\ k \in M \cup mined \cup {n}
    BY <1>5
  <2>2. \A i \in M \cup mined : Tx(i)' = Tx(i) /\ i # n
    BY DEF Same
  <2>3. CASE m = n \/ k = n
    BY <2>1, <2>2, <2>3, <1>13, <1>14
  <2>4. CASE m # n /\ k # n
    BY <2>1, <2>2, <2>4, <1>14 DEF SpentOnce
  <2> QED BY <2>3, <2>4
<1>15. ASSUME NEW m \in mempool', NEW o \in Tx(m)'.inputs
       PROVE  o.tx \in mined' \cup mempool' \cup {"root"}
  <2>1. CASE m = n
    <3>1. o \in t.inputs
      BY <2>1, <1>15
    <3>2. o.tx \in mempool => o.tx \in P
      BY <3>1 DEF Parents
    <3> QED BY <3>1, <3>2, <1>4, <1>5, <1>9
  <2>2. CASE m # n
    <3>1. m \in M /\ o \in Tx(m).inputs
      BY <2>2, <1>5, <1>9, <1>15
    <3>2. o.tx \notin L
      BY <3>1, <1>3 DEF Spenders
    <3> QED BY <3>1, <3>2, <1>5, <1>9
  <2> QED BY <2>1, <2>2
<1>16. ASSUME NEW m \in mined', NEW o \in Tx(m)'.inputs PROVE o.tx \in mined' \cup {"root"}
  BY <1>16 DEF Same, SpentOnce
<1>17. SpentOnce'
  <2>1. SpentOnce' <=>
          /\ \A m, k \in mempool' \cup mined' : m # k => Tx(m)'.inputs \cap Tx(k)'.inputs = {}
          /\ \A m \in mempool' : \A o \in Tx(m)'.inputs : o.tx \in mined' \cup mempool' \cup {"root"}
          /\ \A m \in mined' : \A o \in Tx(m)'.inputs : o.tx \in mined' \cup {"root"}
    BY DEF SpentOnce
  <2> QED BY <2>1, <1>14, <1>15, <1>16
<1> QED BY <1>12, <1>17

\* Nothing changes in the mempool.
LEMMA NodeStays ==
  ASSUME mempool' = mempool, own' = own
  PROVE  /\ \A n : Tx(n)' = Tx(n)
         /\ \A t : Parents(t)' = Parents(t)
         /\ \A S : Descendants(S)' = Descendants(S)
         /\ \A n : Entry(n)' = Entry(n)
         /\ Children' = Children /\ ParentsOf' = ParentsOf
<1>1. ASSUME NEW n PROVE Tx(n)' = Tx(n)
  BY DEF Tx
<1>2. ASSUME NEW t PROVE Parents(t)' = Parents(t)
  BY DEF Parents
<1>3. ASSUME NEW S PROVE Spenders(S)' = Spenders(S)
  BY <1>1 DEF Spenders
<1>4. ASSUME NEW S PROVE Descendants(S)' = Descendants(S)
  <2>1. Descendants(S)' = {n \in mempool : \A T \in SUBSET mempool : S \subseteq T /\ Spenders(T)' \subseteq T => n \in T}
    BY DEF Descendants
  <2> QED BY <2>1, <1>3 DEF Descendants
<1>5. ASSUME NEW m PROVE Parents(Tx(m))' = Parents(Tx(m))
  BY <1>1 DEF Parents
<1>6. ASSUME NEW S PROVE Ancestors(S)' = Ancestors(S)
  <2>1. Ancestors(S)' = {n \in mempool : \A T \in SUBSET mempool :
                           S \subseteq T /\ (\A m \in T : Parents(Tx(m))' \subseteq T) => n \in T}
    BY DEF Ancestors
  <2> QED BY <2>1, <1>5 DEF Ancestors
<1>7. ASSUME NEW S PROVE Fees(S)' = Fees(S)
  <2>1. [m \in S |-> Tx(m)'.fee] = [m \in S |-> Tx(m).fee]
    BY <1>1
  <2>2. Fees(S)' = SumFunction([m \in S |-> Tx(m)'.fee])
    BY DEF Fees
  <2> QED BY <2>1, <2>2 DEF Fees
<1>8. ASSUME NEW n PROVE Entry(n)' = Entry(n)
  <2>1. Descendants({n})' = Descendants({n}) /\ Ancestors({n})' = Ancestors({n}) /\ Spenders({n})' = Spenders({n})
        /\ Parents(Tx(n))' = Parents(Tx(n)) /\ Tx(n)' = Tx(n)
    BY <1>1, <1>3, <1>4, <1>5, <1>6
  <2>2. Fees(Descendants({n}))' = Fees(Descendants({n}))
    <3>1. [m \in Descendants({n})' |-> Tx(m)'.fee] = [m \in Descendants({n}) |-> Tx(m).fee]
      BY <1>1, <2>1
    <3>2. Fees(Descendants({n}))' = SumFunction([m \in Descendants({n})' |-> Tx(m)'.fee])
      BY DEF Fees
    <3> QED BY <3>1, <3>2 DEF Fees
  <2> QED BY <2>1, <2>2 DEF Entry, RateOf
<1>9. Children' = Children /\ ParentsOf' = ParentsOf
  BY <1>3, <1>5 DEF Children, ParentsOf
<1> QED BY <1>1, <1>2, <1>4, <1>8, <1>9

\* The names of others are not ours.
LEMMA NamesDisjoint == DOMAIN Pool \cap (OwnNames \cup {"root", "none"}) = {}
BY PoolAssumption DEF OwnNames

LEMMA OthersEnter ==
  ASSUME NodeInvariant, NEW n \in DOMAIN Pool, OthersSend(n)
  PROVE  NodeInvariant'
<1>1. /\ n \notin mempool \cup mined \cup {"root"} /\ Verdict(Pool[n]).why = "accepted"
      /\ Enter(n, Pool[n]) /\ mined' = mined /\ own' = own /\ tip' = tip /\ index' = index /\ end' = end
  BY NamesDisjoint DEF OthersSend, NodeStep, lookupVars
<1>2. Same /\ Tx(n)' = Pool[n]
  BY <1>1, NamesDisjoint DEF Same, Tx, NodeInvariant, NamesKnown
<1>3. MempoolIsGraph' /\ SpentOnce'
  BY <1>1, <1>2, GraphEnters DEF NodeInvariant
<1>4. NamesKnown'
  BY <1>1 DEF NodeInvariant, NamesKnown, Enter
<1>5. EndsMined'
  BY <1>1 DEF NodeInvariant, EndsMined, IsMined
<1> QED BY <1>3, <1>4, <1>5 DEF NodeInvariant

LEMMA MineKeeps ==
  ASSUME NodeInvariant, NEW n \in mempool, Mine(n)
  PROVE  NodeInvariant'
<1>1. /\ Parents(Tx(n)) = {} /\ mempool' = mempool \ {n} /\ mined' = mined \cup {n}
      /\ tip' = After(tip, n) /\ own' = own /\ index' = index /\ end' = end
  BY DEF Mine, NodeStep, lookupVars
<1>2. Same
  BY <1>1 DEF Same, Tx
<1>3. MempoolIsGraph'
  BY <1>1, <1>2, GraphLeaves DEF NodeInvariant
<1>4. NamesKnown'
  BY <1>1 DEF NodeInvariant, NamesKnown
<1>5. \A m \in mempool \cup mined : Tx(m)' = Tx(m)
  BY <1>2 DEF Same
<1>6. SpentOnce'
  <2>1. \A m, k \in mempool' \cup mined' : m # k => Tx(m)'.inputs \cap Tx(k)'.inputs = {}
    BY <1>1, <1>5 DEF NodeInvariant, SpentOnce
  <2>2. \A m \in mempool' : \A o \in Tx(m)'.inputs : o.tx \in mined' \cup mempool' \cup {"root"}
    BY <1>1, <1>5 DEF NodeInvariant, SpentOnce
  <2>3. ASSUME NEW m \in mined', NEW o \in Tx(m)'.inputs PROVE o.tx \in mined' \cup {"root"}
    <3>1. CASE m = n
      <4>1. o \in Tx(n).inputs /\ o.tx \in mined \cup mempool \cup {"root"}
        BY <3>1, <2>3, <1>5 DEF NodeInvariant, SpentOnce
      <4>2. o.tx \notin mempool
        BY <4>1, <1>1 DEF Parents
      <4> QED BY <4>1, <4>2, <1>1
    <3>2. CASE m # n
      BY <3>2, <2>3, <1>1, <1>5 DEF NodeInvariant, SpentOnce
    <3> QED BY <3>1, <3>2
  <2> QED BY <2>1, <2>2, <2>3 DEF SpentOnce
<1>7. EndsMined'
  <2>1. IsMined(index.end)' /\ IsMined(end)'
    BY <1>1 DEF NodeInvariant, EndsMined, IsMined
  <2>2. tip'.end \in {tip.end, Convert(n), Nowhere}
    BY <1>1 DEF After
  <2>3. IsMined(tip.end)'
    BY <2>2, <1>1 DEF NodeInvariant, EndsMined, IsMined, Convert
  <2> QED BY <2>1, <2>3 DEF EndsMined
<1> QED BY <1>3, <1>4, <1>6, <1>7 DEF NodeInvariant

\* A transaction leaves, and what depends on it.
Leaves(n) ==
  /\ mempool' = mempool \ Descendants({n})
  /\ mined' = mined /\ tip' = tip /\ own' = own /\ index' = index /\ end' = end
LEMMA LeavesKeeps ==
  ASSUME NodeInvariant, NEW n \in mempool, Leaves(n)
  PROVE  NodeInvariant'
<1> DEFINE L == Descendants({n})
<1>1. /\ mempool' = mempool \ L /\ mined' = mined
      /\ tip' = tip /\ own' = own /\ index' = index /\ end' = end
  BY DEF Leaves
<1>2. Same
  BY <1>1 DEF Same, Tx
<1>3. MempoolIsGraph'
  BY <1>1, <1>2, GraphLeaves DEF NodeInvariant
<1>4. NamesKnown'
  BY <1>1 DEF NodeInvariant, NamesKnown
<1>5. \A m \in mempool \cup mined : Tx(m)' = Tx(m)
  BY <1>2 DEF Same
<1>6. SpentOnce'
  <2>0. Spenders(L) \subseteq L
    BY DescendantsLeast
  <2>1. \A m, k \in mempool' \cup mined' : m # k => Tx(m)'.inputs \cap Tx(k)'.inputs = {}
    BY <1>1, <1>5 DEF NodeInvariant, SpentOnce
  <2>2. ASSUME NEW m \in mempool', NEW o \in Tx(m)'.inputs PROVE o.tx \in mined' \cup mempool' \cup {"root"}
    <3>1. m \in mempool \ L /\ o \in Tx(m).inputs /\ o.tx \in mined \cup mempool \cup {"root"}
      BY <1>1, <1>5, <2>2 DEF NodeInvariant, SpentOnce
    <3>2. o.tx \notin L
      BY <2>0, <3>1 DEF Spenders
    <3> QED BY <3>1, <3>2, <1>1
  <2>3. \A m \in mined' : \A o \in Tx(m)'.inputs : o.tx \in mined' \cup {"root"}
    BY <1>1, <1>5 DEF NodeInvariant, SpentOnce
  <2> QED BY <2>1, <2>2, <2>3 DEF SpentOnce
<1>7. EndsMined'
  BY <1>1 DEF NodeInvariant, EndsMined, IsMined
<1> QED BY <1>3, <1>4, <1>6, <1>7 DEF NodeInvariant

\* One of ours enters.
LEMMA OwnEnters ==
  ASSUME NodeInvariant, NEW n \in OwnNames, NEW t, n \notin DOMAIN own,
         own' = [m \in DOMAIN own \cup {n} |-> IF m = n THEN t ELSE own[m]],
         Verdict(t).why = "accepted", Enter(n, t),
         mined' = mined, tip' = tip, index' = index, end' = end
  PROVE  NodeInvariant'
<1>1. n \notin mempool \cup mined \cup {"root"}
  BY NamesDisjoint DEF NodeInvariant, NamesKnown, OwnNames
<1>2. Same /\ Tx(n)' = t
  BY <1>1 DEF Same, Tx
<1>3. MempoolIsGraph' /\ SpentOnce'
  BY <1>1, <1>2, GraphEnters DEF NodeInvariant
<1>4. NamesKnown'
  BY <1>1 DEF NodeInvariant, NamesKnown, Enter
<1>5. EndsMined'
  BY DEF NodeInvariant, EndsMined, IsMined
<1> QED BY <1>3, <1>4, <1>5 DEF NodeInvariant

\* The node as it was, and an end that it knows.
LEMMA NodeAsBefore ==
  ASSUME NodeInvariant, mempool' = mempool, own' = own, mined' = mined, tip'.end = tip.end,
         index' \in {index, tip}, end' \in {end, index.end}
  PROVE  NodeInvariant'
<1>1. Children' = Children /\ ParentsOf' = ParentsOf /\ \A n : Tx(n)' = Tx(n)
  BY NodeStays
<1>2. MempoolIsGraph'
  BY <1>1 DEF NodeInvariant, MempoolIsGraph
<1>3. NamesKnown'
  BY DEF NodeInvariant, NamesKnown
<1>4. SpentOnce'
  BY <1>1 DEF NodeInvariant, SpentOnce
<1>5. EndsMined'
  BY DEF NodeInvariant, EndsMined, IsMined
<1> QED BY <1>2, <1>3, <1>4, <1>5 DEF NodeInvariant

\* The steps of the command that send nothing.
Quietly == mempool' = mempool /\ own' = own /\ mined' = mined /\ tip' = tip /\ index' = index /\ quiet' = quiet
Asking ==
  \/ ReadSupplies \/ ReadEnd \/ TestAccept \/ OldFeerate \/ FeesTooLow \/ RefusedOtherwise
  \/ (\E n \in candidates : Look(n))
  \/ WalkEnds \/ Simulate \/ DependsGone \/ \E c \in Commands : Choose(c)
LEMMA AskingIsQuiet ==
  ASSUME Asking
  PROVE  Quietly /\ end' \in {end, index.end}
<1> USE DEF Quietly, NodeUnchanged, nodeVars
<1>1. CASE ReadSupplies
  BY <1>1 DEF ReadSupplies, ReadSupply
<1>2. CASE ReadEnd
  BY <1>2 DEF ReadEnd
<1>3. CASE TestAccept
  BY <1>3 DEF TestAccept, Return, lookupVars
<1>4. CASE OldFeerate
  BY <1>4 DEF OldFeerate, Return
<1>5. CASE FeesTooLow
  BY <1>5 DEF FeesTooLow, Return
<1>6. CASE RefusedOtherwise
  BY <1>6 DEF RefusedOtherwise, Return
<1>7. CASE \E n \in candidates : Look(n)
  BY <1>7 DEF Look, Fail, lookupVars
<1>8. CASE WalkEnds
  BY <1>8 DEF WalkEnds
<1>9. CASE Simulate
  BY <1>9 DEF Simulate
<1>10. CASE DependsGone
  BY <1>10 DEF DependsGone, Fail, lookupVars
<1>11. CASE \E c \in Commands : Choose(c)
  BY <1>11 DEF Choose
<1> QED BY <1>1, <1>2, <1>3, <1>4, <1>5, <1>6, <1>7, <1>8, <1>9, <1>10, <1>11 DEF Asking

LEMMA SendKeepsNode ==
  ASSUME NodeInvariant, PhaseOK, Send
  PROVE  NodeInvariant'
<1>1. mined' = mined /\ tip' = tip /\ index' = index /\ end' = end /\ phase = "send"
  BY DEF Send, lookupVars, Request
<1>2. CASE ~command.dry /\ Verdict(Conversion).why = "accepted"
  <2>1. own' = [n \in DOMAIN own \cup {"convert"} |-> IF n = "convert" THEN Conversion ELSE own[n]]
        /\ Enter("convert", Conversion)
    BY <1>2 DEF Send
  <2>2. "convert" \notin DOMAIN own /\ "convert" \in OwnNames
    BY <1>1 DEF PhaseOK, OwnNames
  <2> QED BY <1>1, <1>2, <2>1, <2>2, OwnEnters
<1>3. CASE ~(~command.dry /\ Verdict(Conversion).why = "accepted")
  <2>1. own' = own /\ mempool' = mempool
    BY <1>3 DEF Send
  <2> QED BY <1>1, <2>1, NodeAsBefore
<1> QED BY <1>2, <1>3

LEMMA TestSentKeepsNode ==
  ASSUME NodeInvariant, PhaseOK, TestSent
  PROVE  NodeInvariant'
<1>1. mined' = mined /\ tip' = tip /\ index' = index /\ end' = end /\ phase = "send test"
      /\ Verdict(TestTx).why = "accepted" /\ Enter("test", TestTx) /\ own' = [n \in {"test"} |-> TestTx]
  BY DEF TestSent, Return
<1>2. DOMAIN own = {}
  BY <1>1 DEF PhaseOK, Testing
<1>3. own' = [m \in DOMAIN own \cup {"test"} |-> IF m = "test" THEN TestTx ELSE own[m]]
  BY <1>1, <1>2
<1>4. "test" \in OwnNames /\ "test" \notin DOMAIN own
  BY <1>2 DEF OwnNames
<1> QED BY <1>1, <1>3, <1>4, OwnEnters

LEMMA NodeKept ==
  ASSUME NodeInvariant, PhaseOK, Next
  PROVE  NodeInvariant'
<1>1. CASE \E n \in DOMAIN Pool : OthersSend(n)
  BY <1>1, OthersEnter
<1>2. CASE \E n \in mempool : Mine(n)
  BY <1>2, MineKeeps
<1>3. CASE \E n \in mempool : Expire(n) \/ Trim(n)
  <2>1. ASSUME NEW n \in mempool, Expire(n) \/ Trim(n) PROVE Leaves(n)
    BY <2>1 DEF Expire, Trim, NodeStep, lookupVars, Leaves
  <2> QED BY <1>3, <2>1, LeavesKeeps
<1>4. CASE IndexBlock
  BY <1>4, NodeAsBefore DEF IndexBlock, lookupVars
<1>5. CASE Asking
  BY <1>5, AskingIsQuiet, NodeAsBefore DEF Quietly
<1>6. CASE ReadMempool
  BY <1>6, NodeAsBefore DEF ReadMempool, nodeVars
<1>7. CASE TestSent
  BY <1>7, TestSentKeepsNode
<1>8. CASE Send
  BY <1>8, SendKeepsNode
<1>9. CASE FloorFalls \/ BeginBlock \/ EndBlock
  BY <1>9, NodeAsBefore DEF FloorFalls, BeginBlock, EndBlock, Issued, NodeStep, lookupVars
<1> QED BY <1>1, <1>2, <1>3, <1>4, <1>5, <1>6, <1>7, <1>8, <1>9 DEF Next, Lookup, LookupStep, Asking

\* The phases.
LEMMA PhaseKept ==
  ASSUME PhaseOK, Next
  PROVE  PhaseOK'
<1> USE DEF Before, Testing, Looking
<1>1. CASE \E n \in DOMAIN Pool : OthersSend(n)
  BY <1>1 DEF OthersSend, NodeStep, PhaseOK, lookupVars
<1>2. CASE \E n \in mempool : Mine(n)
  BY <1>2 DEF Mine, NodeStep, PhaseOK, lookupVars
<1>3. CASE \E n \in mempool : Expire(n) \/ Trim(n)
  BY <1>3 DEF Expire, Trim, NodeStep, PhaseOK, lookupVars
<1>4. CASE IndexBlock
  BY <1>4 DEF IndexBlock, PhaseOK, lookupVars
<1>5. CASE ReadSupplies
  <2>1. /\ phase \in {"start", "ease"} /\ phase' \in {"ease", "end"}
        /\ own' = own /\ quiet' = quiet /\ found' = found
    BY <1>5 DEF ReadSupplies, ReadSupply, Request, NodeUnchanged, nodeVars
  <2> QED BY <2>1 DEF PhaseOK
<1>6. CASE ReadEnd
  BY <1>6 DEF ReadEnd, Request, NodeUnchanged, nodeVars, PhaseOK
<1>7. CASE ReadMempool
  BY <1>7 DEF ReadMempool, Request, nodeVars, PhaseOK
<1>8. CASE TestAccept
  BY <1>8 DEF TestAccept, Return, lookupVars, NodeUnchanged, nodeVars, PhaseOK
<1>9. CASE TestSent
  BY <1>9 DEF TestSent, Return, PhaseOK
<1>10. CASE OldFeerate
  BY <1>10 DEF OldFeerate, Return, NodeUnchanged, nodeVars, PhaseOK
<1>11. CASE FeesTooLow
  BY <1>11 DEF FeesTooLow, Return, NodeUnchanged, nodeVars, PhaseOK
<1>12. CASE RefusedOtherwise
  BY <1>12 DEF RefusedOtherwise, Return, NodeUnchanged, nodeVars, PhaseOK
<1>13. CASE \E n \in candidates : Look(n)
  <2>1. /\ phase = "walk" /\ phase' \in {"walk", "simulate", "done"}
        /\ own' = own /\ quiet' = quiet
    BY <1>13 DEF Look, Fail, Request, lookupVars, NodeUnchanged, nodeVars
  <2> QED BY <2>1 DEF PhaseOK
<1>14. CASE WalkEnds
  BY <1>14 DEF WalkEnds, Request, NodeUnchanged, nodeVars, PhaseOK
<1>15. CASE Simulate
  BY <1>15 DEF Simulate, Request, NodeUnchanged, nodeVars, PhaseOK
<1>16. CASE DependsGone
  BY <1>16 DEF DependsGone, Fail, Request, lookupVars, NodeUnchanged, nodeVars, PhaseOK
<1>17. CASE \E c \in Commands : Choose(c)
  <2>1. /\ phase = "choose" /\ phase' \in {"send", "done"}
        /\ own' = own /\ quiet' = quiet
    BY <1>17 DEF Choose, NodeUnchanged, nodeVars
  <2> QED BY <2>1 DEF PhaseOK
<1>18. CASE Send
  <2>1. phase = "send" /\ phase' = "done" /\ quiet' = quiet /\ found' = found
    BY <1>18 DEF Send, Request, lookupVars
  <2> QED BY <2>1 DEF PhaseOK
<1>19. CASE FloorFalls \/ BeginBlock \/ EndBlock
  BY <1>19 DEF FloorFalls, BeginBlock, EndBlock, NodeStep, PhaseOK, lookupVars
<1> QED BY <1>1, <1>2, <1>3, <1>4, <1>5, <1>6, <1>7, <1>8, <1>9, <1>10, <1>11, <1>12, <1>13,
        <1>14, <1>15, <1>16, <1>17, <1>18, <1>19 DEF Next, Lookup, LookupStep

-----------------------------------------------------------------------------
(* Fees and rates. *)

LEMMA SumIs ==
  ASSUME NEW S, IsFiniteSet(S), NEW f \in [S -> Nat]
  PROVE  SumFunction(f) \in Nat /\ \A x \in S : SumFunction(f) >= f[x]
<1> DEFINE F == [x \in S |-> [r \in {1} |-> f[x]]]
           g == CHOOSE g : g = [s \in SUBSET S |->
                                  IF s = {} THEN 0 ELSE f[Some(s)] + g[s \ {Some(s)}]]
<1>1. g = [s \in SUBSET S |-> IF s = {} THEN 0 ELSE f[Some(s)] + g[s \ {Some(s)}]]
  <2>1. PICK h : IsFold(F, S, 1, h)
    BY FoldExists
  <2>2. \A s \in SUBSET S : s # {} => Some(s) \in S /\ F[Some(s)][1] = f[Some(s)]
    BY DEF Some
  <2>3. h = [s \in SUBSET S |-> FoldStep(F, 1, h, s)]
    BY <2>1 DEF IsFold
  <2>4. \A s \in SUBSET S : FoldStep(F, 1, h, s) = IF s = {} THEN 0 ELSE f[Some(s)] + h[s \ {Some(s)}]
    BY <2>2 DEF FoldStep
  <2>5. h = [s \in SUBSET S |-> IF s = {} THEN 0 ELSE f[Some(s)] + h[s \ {Some(s)}]]
    BY <2>3, <2>4
  <2>6. \E k : k = [s \in SUBSET S |-> IF s = {} THEN 0 ELSE f[Some(s)] + k[s \ {Some(s)}]]
    BY <2>5, Zenon
  <2> QED BY <2>6, Zenon
<1>2. SumFunction(f) = g[S]
  <2>1. DOMAIN f = S
    OBVIOUS
  <2> QED BY <2>1 DEF SumFunction, SumFunctionOnSet, FoldFunctionOnSet, MapThenFoldSet, Some
<1> HIDE DEF g
<1>3. IsFold(F, S, 1, g)
  <2>1. \A s \in SUBSET S : s # {} => Some(s) \in S /\ F[Some(s)][1] = f[Some(s)]
    BY DEF Some
  <2>2. \A s \in SUBSET S : FoldStep(F, 1, g, s) = IF s = {} THEN 0 ELSE f[Some(s)] + g[s \ {Some(s)}]
    BY <2>1 DEF FoldStep
  <2>3. g = [s \in SUBSET S |-> FoldStep(F, 1, g, s)]
    BY <1>1, <2>2
  <2> QED BY <2>3 DEF IsFold
<1>4. \A x \in S : F[x][1] \in Nat /\ F[x][1] = f[x]
  OBVIOUS
<1> HIDE DEF F
<1>5. \A T \in SUBSET S : g[T] \in Nat /\ \A x \in T : g[T] = F[x][1] + g[T \ {x}]
  BY <1>3, <1>4, FoldRemoves
<1>6. ASSUME NEW x \in S PROVE g[S] >= f[x]
  <2>1. g[S] = F[x][1] + g[S \ {x}] /\ g[S \ {x}] \in Nat /\ S \ {x} \in SUBSET S
    BY <1>5
  <2> QED BY <2>1, <1>4
<1>7. g[S] \in Nat
  BY <1>5
<1> QED BY <1>2, <1>6, <1>7

\* A division, and what it loses.
LEMMA Quotient ==
  ASSUME NEW a \in Nat, NEW b \in Nat \ {0}
  PROVE  a \div b \in Nat /\ (a \div b) * b <= a /\ a < (a \div b) * b + b
OBVIOUS

LEMMA FeeIs ==
  ASSUME NEW perK \in Nat, NEW size \in Nat
  PROVE  /\ FeeAt(perK, size) \in Nat
         /\ FeeAt(perK, size) * 1000 >= perK * size
         /\ FeeAt(perK, size) * 1000 <= perK * size + 999
<1>1. perK * size \in Nat
  OBVIOUS
<1> DEFINE p == perK * size
<1> HIDE DEF p
<1>2. p \in Nat
  BY <1>1 DEF p
<1>3. (p + 999) \div 1000 \in Nat /\ ((p + 999) \div 1000) * 1000 <= p + 999 /\ p + 999 < ((p + 999) \div 1000) * 1000 + 1000
  BY <1>2
<1>4. FeeAt(perK, size) = (p + 999) \div 1000
  BY DEF FeeAt, p
<1> QED BY <1>2, <1>3, <1>4 DEF p

LEMMA ProductGrows ==
  ASSUME NEW a \in Nat, NEW b \in Nat, NEW c \in Nat, b <= c
  PROVE  a * b <= a * c /\ a * b \in Nat /\ a * c \in Nat
<1>1. PICK d \in Nat : c = b + d
  <2>1. c - b \in Nat /\ c = b + (c - b)
    OBVIOUS
  <2> QED BY <2>1
<1>2. a * c = a * b + a * d /\ a * d \in Nat /\ a * b \in Nat
  BY <1>1
<1> QED BY <1>2

LEMMA FeeType == ASSUME NEW perK \in Nat, NEW size \in Nat PROVE FeeAt(perK, size) \in Nat
BY FeeIs

LEMMA FeeGrows ==
  ASSUME NEW a \in Nat, NEW b \in Nat, NEW size \in Nat, a <= b
  PROVE  FeeAt(a, size) <= FeeAt(b, size)
<1>1. size * a <= size * b /\ size * a \in Nat /\ size * b \in Nat
  BY ProductGrows
<1>2. a * size = size * a /\ b * size = size * b
  OBVIOUS
<1> DEFINE x == size * a
           y == size * b
<1> HIDE DEF x, y
<1>3. x \in Nat /\ y \in Nat /\ x <= y
  BY <1>1 DEF x, y
<1>4. (x + 999) \div 1000 <= (y + 999) \div 1000
  BY <1>3
<1> QED BY <1>2, <1>4 DEF FeeAt, x, y

LEMMA RelayFee ==
  /\ TestSize \in Nat /\ TestSize >= 2 /\ Relay \in Nat
  /\ FeeAt(Relay, TestSize) = TestSize
<1>1. TestSize \in Nat /\ TestSize >= 2
  BY SizeAssumption
<1>2. (1000 * TestSize + 999) \div 1000 = TestSize
  BY <1>1
<1> QED BY <1>1, <1>2 DEF FeeAt, Relay

\* A test at the relay fee that pays for the floor: this is the relay fee.
LEMMA FloorIsRelay ==
  ASSUME floor \in Nat, floor >= Relay, ~(FeeAt(Relay, TestSize) < FeeAt(floor, TestSize))
  PROVE  floor = Relay
<1>1. FeeAt(floor, TestSize) \in Nat /\ FeeAt(floor, TestSize) * 1000 >= floor * TestSize
  BY RelayFee, FeeIs
<1>2. FeeAt(floor, TestSize) <= TestSize
  BY <1>1, RelayFee
<1>3. PICK d \in Nat : floor = 1000 + d
  <2>1. floor - 1000 \in Nat /\ floor = 1000 + (floor - 1000)
    BY DEF Relay
  <2> QED BY <2>1
<1>4. floor * TestSize = 1000 * TestSize + TestSize * d
  BY <1>3, RelayFee
<1>5. d # 0 => TestSize * 1 <= TestSize * d
  BY RelayFee, ProductGrows
<1>6. TestSize * d \in Nat
  BY RelayFee
<1> DEFINE e == TestSize * d
           g == FeeAt(floor, TestSize)
<1>7. e \in Nat /\ g \in Nat /\ g <= TestSize /\ g * 1000 >= 1000 * TestSize + e
      /\ (d # 0 => TestSize <= e)
  BY <1>1, <1>2, <1>4, <1>5, <1>6, RelayFee
<1> HIDE DEF e, g
<1>8. d = 0
  BY <1>7, RelayFee
<1> QED BY <1>3, <1>8 DEF Relay

\* A test at the rate of a larger transaction, and a little more, pays less than
\* the replacement of it costs.
LEMMA CheapAtRate ==
  ASSUME NEW fee \in Nat, NEW size \in Nat, size >= TestSize, NEW fees \in Nat, fees >= fee,
         NEW R \in Nat, R * size <= fee * 1000
  PROVE  FeeAt(R + 100, TestSize) \in Nat /\ FeeAt(R + 100, TestSize) - fees < TestSize
<1>1. TestSize \in Nat /\ TestSize >= 2 /\ R + 100 \in Nat
  BY SizeAssumption
<1>2. R * TestSize <= R * size /\ R * TestSize \in Nat /\ R * size \in Nat
  BY <1>1, ProductGrows
<1>3. /\ FeeAt(R + 100, TestSize) \in Nat
      /\ FeeAt(R + 100, TestSize) * 1000 <= (R + 100) * TestSize + 999
  BY <1>1, FeeIs
<1>4. (R + 100) * TestSize = R * TestSize + 100 * TestSize
  BY <1>1
<1> DEFINE f == FeeAt(R + 100, TestSize)
           rt == R * TestSize
           rs == R * size
<1> HIDE DEF f, rt, rs
<1>5. f \in Nat /\ rt \in Nat /\ f * 1000 <= rt + 100 * TestSize + 999 /\ rt <= rs /\ rs \in Nat /\ rs <= fee * 1000
  BY <1>2, <1>3, <1>4 DEF f, rt, rs
<1>6. f - fees < TestSize
  BY <1>5, <1>1
<1> QED BY <1>5, <1>6 DEF f

LEMMA TestIsCheap ==
  ASSUME NEW fee \in Nat, NEW size \in Nat \ {0}, size >= TestSize, NEW fees \in Nat, fees >= fee, fee > 0,
         NEW perK \in {Relay, (fee * 1000) \div size + 100}
  PROVE  FeeAt(perK, TestSize) \in Nat /\ FeeAt(perK, TestSize) - fees < FeeAt(Relay, TestSize)
<1>0. TestSize \in Nat /\ TestSize >= 2
  BY SizeAssumption
<1>1. FeeAt(Relay, TestSize) = TestSize
  <2>1. (1000 * TestSize + 999) \div 1000 = TestSize
    BY <1>0
  <2> QED BY <2>1 DEF FeeAt, Relay
<1>2. CASE perK = Relay
  BY <1>2, <1>1, <1>0
<1>3. CASE perK = (fee * 1000) \div size + 100
  <2>1. fee * 1000 \in Nat /\ (fee * 1000) \div size \in Nat /\ ((fee * 1000) \div size) * size <= fee * 1000
    <3>1. fee * 1000 \in Nat
      OBVIOUS
    <3> QED BY <3>1, Quotient
  <2> QED BY <2>1, <1>1, <1>3, CheapAtRate
<1> QED BY <1>2, <1>3

-----------------------------------------------------------------------------
(* Transactions that conflict with one other. *)

\* What others send can be read in Pool.
LEMMA OthersOnly ==
  ASSUME NodeInvariant, DOMAIN own = {}, NEW n \in mempool \cup mined
  PROVE  /\ n \in DOMAIN Pool /\ Tx(n) = Pool[n] /\ Coin \notin Tx(n).inputs
         /\ Tx(n).fee \in Nat \ {0} /\ Tx(n).size \in Nat \ {0}
<1>1. n \in DOMAIN Pool /\ Tx(n) = Pool[n]
  BY DEF NodeInvariant, NamesKnown, Tx
<1>2. \A k \in DOMAIN Pool : Pool[k].fee \in Nat \ {0} /\ Pool[k].size \in Nat \ {0} /\ Coin \notin Pool[k].inputs
  BY PoolAssumption DEF Coin
<1> QED BY <1>1, <1>2

LEMMA OneConflict ==
  ASSUME NodeInvariant, DOMAIN own = {}, NEW n \in mempool, NEW o \in Tx(n).inputs,
         NEW t, t.inputs = {o, Coin}
  PROVE  /\ Conflicts(t) = {n}
         /\ Available(t)
         /\ Parents(t) = {m \in mempool : m = o.tx}
<1>1. \A m \in mempool \cup mined : Coin \notin Tx(m).inputs /\ m # "root"
  BY OthersOnly, NamesDisjoint
<1>2. \A m \in mempool \cup mined : o \in Tx(m).inputs => m = n
  BY DEF NodeInvariant, SpentOnce
<1>3. Conflicts(t) = {n}
  BY <1>1, <1>2 DEF Conflicts
<1>4. o.tx \in mined \cup mempool \cup {"root"} /\ n \notin mined
  BY DEF NodeInvariant, SpentOnce, NamesKnown
<1>5. Coin.tx = "root"
  BY DEF Coin
<1>6. Available(t)
  BY <1>1, <1>2, <1>4, <1>5 DEF Available
<1>7. Parents(t) = {m \in mempool : m = o.tx}
  BY <1>1, <1>5 DEF Parents
<1> QED BY <1>3, <1>6, <1>7

\* The fees of what leaves with a transaction.
LEMMA FeesIs ==
  ASSUME NodeInvariant, DOMAIN own = {}, NEW n \in mempool
  PROVE  Fees(Descendants({n})) \in Nat /\ Fees(Descendants({n})) >= Tx(n).fee
<1> DEFINE S == Descendants({n})
           f == [m \in S |-> Tx(m).fee]
<1>1. n \in S /\ S \subseteq mempool
  BY DescendantsLeast
<1>2. IsFiniteSet(S)
  BY <1>1, FS_Subset DEF NodeInvariant, MempoolIsGraph, IsMempoolGraph
<1>3. f \in [S -> Nat]
  BY <1>1, OthersOnly
<1>4. f[n] = Tx(n).fee
  BY <1>1
<1> HIDE DEF S, f
<1>5. SumFunction(f) \in Nat /\ SumFunction(f) >= f[n]
  BY <1>1, <1>2, <1>3, SumIs
<1>6. Fees(S) = SumFunction(f)
  BY DEF Fees, f
<1> QED BY <1>4, <1>5, <1>6 DEF S

LEMMA MaxOfOne == ASSUME NEW x \in Nat PROVE Max({x}) = x
<1>1. \E y \in {x} : \A z \in {x} : y >= z
  OBVIOUS
<1>2. Max({x}) \in {x}
  BY <1>1 DEF Max
<1> QED BY <1>2

LEMMA NoneAbove == Ancestors({}) = {} /\ Cardinality(Ancestors({})) = 0
<1>1. Closed(ParentsOf, {})
  BY DEF Closed
<1>2. {} \in SUBSET mempool
  OBVIOUS
<1>3. Reach(ParentsOf, {}) \subseteq {}
  BY <1>1, <1>2, GraphTypes, ReachLeast
<1> QED BY <1>3, ReachIsClosure, FS_EmptySet

\* The test that conflicts with what is sought is refused for its fees, and the
\* error tells the rate or the fees of it.
LEMMA SoughtRefusesTest ==
  ASSUME NodeInvariant, DOMAIN own = {}, NEW n, Sought(n), floor = Relay,
         rate \in {Relay, RateOf(Tx(n)) + 100}, rate >= Relay
  PROVE  /\ Verdict(TestTx).why \in InsufficientFee
         /\ Verdict(TestTx).why = "old feerate" =>
              Verdict(TestTx).amount = RateOf(Tx(n)) /\ RateOf(Tx(n)) + 100 >= Relay
         /\ Verdict(TestTx).why = "less fees" => Verdict(TestTx).amount = Fees(Descendants({n}))
         /\ Verdict(TestTx).why = "relay" =>
              TestTx.fee - Verdict(TestTx).amount = Fees(Descendants({n}))
<1> DEFINE t == TestTx
           fees == Fees(Descendants({n}))
<1>0. n \in mempool /\ end \in Tx(n).inputs /\ Tx(n).rbf /\ Parents(Tx(n)) = {} /\ Tx(n).size >= TestSize
  BY DEF Sought
<1>1. t.inputs = {end, Coin} /\ t.size = TestSize /\ t.fee = FeeAt(rate, TestSize)
  BY DEF TestTx, Absent
<1>2. Tx(n).fee \in Nat \ {0} /\ Tx(n).size \in Nat \ {0}
  BY <1>0, OthersOnly
<1>3. fees \in Nat /\ fees >= Tx(n).fee
  BY <1>0, FeesIs
<1>4. t.fee \in Nat /\ t.fee - fees < FeeAt(Relay, t.size)
  <2>1. rate \in {Relay, (Tx(n).fee * 1000) \div Tx(n).size + 100}
    BY DEF RateOf
  <2> DEFINE fee == Tx(n).fee
             size == Tx(n).size
  <2>2. /\ fee \in Nat /\ size \in Nat \ {0} /\ size >= TestSize /\ fees \in Nat /\ fees >= fee /\ fee > 0
        /\ rate \in {Relay, (fee * 1000) \div size + 100}
    BY <2>1, <1>0, <1>2, <1>3
  <2> HIDE DEF t, fees, fee, size
  <2>3. FeeAt(rate, TestSize) \in Nat /\ FeeAt(rate, TestSize) - fees < FeeAt(Relay, TestSize)
    BY <2>2, TestIsCheap
  <2> QED BY <2>3, <1>1
<1> HIDE DEF t, fees
<1>5. Conflicts(t) = {n} /\ Available(t) /\ Parents(t) = {m \in mempool : m = end.tx}
  BY <1>0, <1>1, OneConflict
<1>6. Parents(t) = {}
  <2>1. \A m \in mempool : m # end.tx
    BY <1>0 DEF Parents
  <2> QED BY <2>1, <1>5
<1>7. ~Fixed(t) /\ ~Twisted(t)
  BY <1>0, <1>5, <1>6 DEF Fixed, Twisted
<1>8. ~Long(t)
  <2>1. Ancestors(Parents(t)) = {} /\ Cardinality(Ancestors(Parents(t))) = 0
    BY <1>6, NoneAbove
  <2> QED BY <2>1, SizeAssumption DEF Long
<1>9. Leaving(t) = fees
  BY <1>5 DEF Leaving, fees
<1>10. RateOf(Tx(n)) \in Nat
  BY <1>2, Quotient DEF RateOf
<1>15. rate \in Nat /\ TestSize <= t.fee
  <2>1. rate \in Nat
    BY <1>10 DEF Relay
  <2>2. FeeAt(Relay, TestSize) <= FeeAt(rate, TestSize)
    BY <2>1, RelayFee, FeeGrows
  <2> QED BY <2>1, <2>2, <1>1, RelayFee
<1>16. ~Cheap(t)
  <2>1. FeeAt(floor, t.size) = TestSize
    BY <1>1, RelayFee
  <2> QED BY <2>1, <1>4, <1>15, RelayFee DEF Cheap
<1>17. RateOf(t) >= Relay /\ RateOf(t) \in Nat
  <2> DEFINE a == t.fee * 1000
  <2>1. a \in Nat /\ a >= 1000 * TestSize /\ TestSize \in Nat \ {0}
    BY <1>4, <1>15, RelayFee
  <2>2. RateOf(t) = a \div TestSize
    BY <1>1 DEF RateOf
  <2> HIDE DEF a
  <2>3. PICK b : b = a \div TestSize
    OBVIOUS
  <2>4. b \in Nat /\ a < b * TestSize + TestSize
    BY <2>1, <2>3, Quotient
  <2>5. ~(b < 1000)
    <3> SUFFICES ASSUME b < 1000 PROVE FALSE
      OBVIOUS
    <3>1. TestSize * (b + 1) <= TestSize * 1000
      BY <2>1, <2>4, ProductGrows
    <3>2. TestSize * (b + 1) = b * TestSize + TestSize
      BY <2>1, <2>4
    <3> QED BY <2>1, <2>4, <3>1, <3>2
  <2> QED BY <2>2, <2>3, <2>4, <2>5 DEF Relay
<1>11. Max({RateOf(Tx(m)) : m \in Conflicts(t)}) = RateOf(Tx(n))
  <2>1. {RateOf(Tx(m)) : m \in Conflicts(t)} = {RateOf(Tx(n))}
    BY <1>5
  <2> QED BY <2>1, <1>10, MaxOfOne
<1>12. Verdict(t) = IF Slow(t) THEN Answer("old feerate", RateOf(Tx(n)))
                    ELSE IF t.fee < fees THEN Answer("less fees", fees)
                    ELSE Answer("relay", t.fee - fees)
  BY <1>4, <1>5, <1>7, <1>8, <1>9, <1>11, <1>16, VerdictIs
<1>13. t.fee - (t.fee - fees) = fees
  BY <1>3, <1>4
<1>14. /\ Verdict(t).why \in InsufficientFee
       /\ Verdict(t).why = "old feerate" =>
            Verdict(t).amount = RateOf(Tx(n)) /\ RateOf(Tx(n)) + 100 >= Relay
       /\ Verdict(t).why = "less fees" => Verdict(t).amount = fees
       /\ Verdict(t).why = "relay" => t.fee - Verdict(t).amount = fees
  <2>1. CASE Slow(t)
    <3>1. Verdict(t) = Answer("old feerate", RateOf(Tx(n)))
      BY <2>1, <1>12
    <3>2. Verdict(t).why = "old feerate" /\ Verdict(t).amount = RateOf(Tx(n))
      BY <3>1, AnswerIs
    <3>3. RateOf(t) <= RateOf(Tx(n))
      BY <2>1, <1>5 DEF Slow
    <3>4. RateOf(Tx(n)) + 100 >= Relay
      BY <3>3, <1>10, <1>17, RelayFee
    <3> QED BY <3>2, <3>4 DEF InsufficientFee
  <2>2. CASE ~Slow(t) /\ t.fee < fees
    <3>1. Verdict(t) = Answer("less fees", fees)
      BY <2>2, <1>12
    <3>2. Verdict(t).why = "less fees" /\ Verdict(t).amount = fees
      BY <3>1, AnswerIs
    <3> QED BY <3>2 DEF InsufficientFee
  <2>3. CASE ~Slow(t) /\ ~(t.fee < fees)
    BY <2>3, <1>12, <1>13 DEF Answer, InsufficientFee
  <2> QED BY <2>1, <2>2, <2>3
<1> QED BY <1>14 DEF t, fees

\* A set that leaves out one of a larger set.
LEMMA OneLess ==
  ASSUME NEW A, NEW B, IsFiniteSet(B), NEW x \in B, A \subseteq B, x \notin A, Cardinality(B) <= CountLimit
  PROVE  ~(Cardinality(A) + 1 > CountLimit)
<1>1. IsFiniteSet(B \ {x}) /\ Cardinality(B \ {x}) = Cardinality(B) - 1 /\ Cardinality(B) \in Nat
  BY FS_RemoveElement, FS_CardinalityType
<1>2. A \subseteq B \ {x}
  OBVIOUS
<1>3. Cardinality(A) <= Cardinality(B \ {x}) /\ Cardinality(A) \in Nat
  BY <1>1, <1>2, FS_Subset, FS_CardinalityType
<1> QED BY <1>1, <1>3, SizesKnown

\* What replaces one transaction stands in less of a package, and is accepted for
\* its fees.
LEMMA ReplacementAccepted ==
  ASSUME NodeInvariant, DOMAIN own = {}, NEW f \in mempool, NEW o \in Tx(f).inputs, Tx(f).rbf,
         NEW t, t.inputs = {o, Coin}, ~Cheap(t), ~(RateOf(t) <= RateOf(Tx(f))), t.fee \in Nat,
         FeeAt(Relay, t.size) \in Nat,
         t.fee >= Fees(Descendants({f})) + FeeAt(Relay, t.size)
  PROVE  Verdict(t).why = "accepted"
<1> DEFINE E == Children
           F == ParentsOf
           L == Descendants({f})
<1>1. Conflicts(t) = {f} /\ Available(t) /\ Parents(t) = {m \in mempool : m = o.tx}
  BY OneConflict
<1>2. E \in [mempool -> SUBSET mempool] /\ F \in [mempool -> SUBSET mempool] /\ Opposite(E, F)
  BY GraphTypes
<1>3. Opposite(F, E) /\ NoCycle(F) /\ Limited(E) /\ Limited(F) /\ IsFiniteSet(mempool)
  BY <1>2 DEF NodeInvariant, MempoolIsGraph, IsMempoolGraph, Opposite
<1>4. L = Reach(E, {f})
  BY ReachIsClosure
<1>5. ASSUME NEW m \in mempool
      PROVE  /\ m \in Reach(E, {m}) /\ Reach(E, {m}) \subseteq mempool /\ Closed(E, Reach(E, {m}))
             /\ m \in Reach(F, {m}) /\ Reach(F, {m}) \subseteq mempool /\ Closed(F, Reach(F, {m}))
             /\ IsFiniteSet(Reach(E, {m})) /\ IsFiniteSet(Reach(F, {m}))
             /\ Cardinality(Reach(E, {m})) <= CountLimit
             /\ Cardinality(Reach(F, {m})) <= CountLimit
  <2> HIDE DEF E, F
  <2>1. {m} \in SUBSET mempool
    OBVIOUS
  <2>2. m \in Reach(E, {m}) /\ Reach(E, {m}) \subseteq mempool /\ Closed(E, Reach(E, {m}))
        /\ m \in Reach(F, {m}) /\ Reach(F, {m}) \subseteq mempool /\ Closed(F, Reach(F, {m}))
    BY <2>1, <1>2, ReachLeast
  <2>3. IsFiniteSet(Reach(E, {m})) /\ IsFiniteSet(Reach(F, {m}))
    BY <2>2, <1>3, FS_Subset
  <2>4. Cardinality(Reach(E, {m})) <= CountLimit /\ Cardinality(Reach(F, {m})) <= CountLimit
    BY <1>2, <1>3 DEF Limited
  <2> QED BY <2>2, <2>3, <2>4
<1> HIDE DEF E, F, L
<1>6. ~Fixed(t) /\ ~Slow(t)
  BY <1>1 DEF Fixed, Slow
<1>7. ~Long(t) /\ ~Twisted(t)
  <2>1. CASE Parents(t) = {}
    <3>1. Ancestors(Parents(t)) = {} /\ Cardinality(Ancestors(Parents(t))) = 0
      BY <2>1, NoneAbove
    <3> QED BY <3>1, <2>1, SizeAssumption DEF Long, Twisted
  <2>2. CASE Parents(t) # {}
    <3> DEFINE g == o.tx
    <3>1. Parents(t) = {g} /\ g \in mempool
      BY <2>2, <1>1
    <3>2. g \in F[f]
      BY <3>1 DEF Parents, F, ParentsOf
    <3> HIDE DEF g
    <3>3. f \notin Reach(F, {g})
      BY <1>2, <1>3, <3>2, NoReturn
    <3>4. Reach(F, {g}) \subseteq Reach(F, {f})
      <4>1. {g} \subseteq Reach(F, {f}) /\ {g} \in SUBSET mempool /\ {f} \in SUBSET mempool
        BY <1>5, <3>1, <3>2 DEF Closed
      <4> QED BY <4>1, <1>2, ReachMore
    <3>5. Ancestors(Parents(t)) = Reach(F, {g})
      BY <3>1, ReachIsClosure DEF F
    <3>6. ~(Cardinality(Reach(F, {g})) + 1 > CountLimit)
      <4>1. f \in Reach(F, {f}) /\ IsFiniteSet(Reach(F, {f})) /\ Cardinality(Reach(F, {f})) <= CountLimit
        BY <1>5
      <4> QED BY <3>3, <3>4, <4>1, OneLess
    <3>7. ASSUME NEW m \in Reach(F, {g})
          PROVE  ~(Cardinality(Descendants({m}) \ L) + 1 > CountLimit)
      <4>1. m \in mempool /\ m \in Reach(F, {f})
        BY <3>1, <3>4, <1>5
      <4>2. f \in Reach(E, {m})
        BY <4>1, <1>2, <1>3, ReachOpposite
      <4>3. Descendants({m}) = Reach(E, {m})
        BY ReachIsClosure DEF E
      <4>4. f \notin Reach(E, {m}) \ L
        BY <1>4, <1>5 DEF L, E
      <4>5. IsFiniteSet(Reach(E, {m})) /\ Cardinality(Reach(E, {m})) <= CountLimit
        BY <4>1, <1>5
      <4>6. Reach(E, {m}) \ L \subseteq Reach(E, {m})
        OBVIOUS
      <4>7. ~(Cardinality(Reach(E, {m}) \ L) + 1 > CountLimit)
        BY <4>2, <4>4, <4>5, <4>6, OneLess
      <4> QED BY <4>3, <4>7
    <3>8. ~Long(t)
      BY <3>5, <3>6, <3>7, <1>1 DEF Long, L
    <3>9. g \notin Reach(E, {f})
      BY <3>1, <3>3, <1>2, ReachOpposite
    <3>10. Descendants({f}) = Reach(E, {f})
      BY ReachIsClosure DEF E
    <3>11. ~Twisted(t)
      BY <3>1, <3>9, <3>10, <1>1 DEF Twisted
    <3> QED BY <3>8, <3>11
  <2> QED BY <2>1, <2>2
<1>8. Leaving(t) = Fees(L) /\ Fees(L) \in Nat
  BY <1>1, FeesIs DEF Leaving, L
<1>9. ~(t.fee < Fees(L)) /\ ~(t.fee - Fees(L) < FeeAt(Relay, t.size))
  BY <1>8 DEF L
<1>10. Verdict(t) = Answer("accepted", 0)
  BY <1>1, <1>6, <1>7, <1>8, <1>9, VerdictIs
<1> QED BY <1>10, AnswerIs

-----------------------------------------------------------------------------
(* What is found. *)

LEMMA AppendIs ==
  ASSUME NEW s, NEW x, IsSequence(s)
  PROVE  /\ IsSequence(Append(s, x))
         /\ Len(s) \in Nat /\ DOMAIN s = 1..Len(s)
         /\ Len(Append(s, x)) = Len(s) + 1 /\ DOMAIN Append(s, x) = 1..(Len(s) + 1)
         /\ \A i \in 1..Len(s) : Append(s, x)[i] = s[i]
         /\ Append(s, x)[Len(s) + 1] = x
         /\ Append(s, x) # << >>
         /\ s # << >> => Len(s) >= 1 /\ Last(s) = s[Len(s)]
         /\ Last(Append(s, x)) = x
<1>1. PICK S : s \in Seq(S)
  BY DEF IsSequence
<1> DEFINE U == S \cup {x}
<1>2. s \in Seq(U) /\ x \in U
  <2>1. S \subseteq U
    OBVIOUS
  <2> QED BY <1>1, <2>1
<1> HIDE DEF U
<1>3. Append(s, x) \in Seq(U)
  BY <1>2
<1>4. IsSequence(Append(s, x))
  BY <1>3 DEF IsSequence
<1>5. /\ Len(s) \in Nat /\ DOMAIN s = 1..Len(s)
      /\ Len(Append(s, x)) = Len(s) + 1 /\ DOMAIN Append(s, x) = 1..(Len(s) + 1)
      /\ \A i \in 1..Len(s) : Append(s, x)[i] = s[i]
      /\ Append(s, x)[Len(s) + 1] = x
  BY <1>2
<1>6. Append(s, x) # << >> /\ (s # << >> => Len(s) >= 1)
  BY <1>2, <1>5
<1> QED BY <1>4, <1>5, <1>6 DEF Last

LEMMA EmptyIsSequence == IsSequence(<< >>) /\ DOMAIN << >> = {} /\ Len(<< >>) = 0
<1>1. << >> \in Seq({})
  OBVIOUS
<1> QED BY <1>1 DEF IsSequence

\* Before the chain is walked, nothing is found.
Early ==
  \/ ReadSupplies \/ ReadEnd \/ ReadMempool \/ TestAccept \/ TestSent
  \/ OldFeerate \/ FeesTooLow \/ RefusedOtherwise
LEMMA EarlyIs ==
  ASSUME PhaseOK, Early
  PROVE  /\ found = << >> /\ found' = found
         /\ phase' \in Before \cup Testing \cup {"walk", "done"}
         /\ phase' = "walk" => at' = end /\ end' = end
<1> USE DEF Before, Testing, Looking
<1>1. CASE ReadSupplies
  <2>1. /\ phase \in {"start", "ease"} /\ phase' \in {"ease", "end"} /\ found' = found
    BY <1>1 DEF ReadSupplies, ReadSupply, Request
  <2> QED BY <2>1 DEF PhaseOK
<1>2. CASE ReadEnd
  BY <1>2 DEF ReadEnd, Request, PhaseOK
<1>3. CASE ReadMempool
  BY <1>3 DEF ReadMempool, Request, PhaseOK
<1>4. CASE TestAccept
  BY <1>4 DEF TestAccept, Return, lookupVars, PhaseOK
<1>5. CASE TestSent
  BY <1>5 DEF TestSent, Return, PhaseOK
<1>6. CASE OldFeerate
  BY <1>6 DEF OldFeerate, Return, PhaseOK
<1>7. CASE FeesTooLow
  BY <1>7 DEF FeesTooLow, Return, PhaseOK
<1>8. CASE RefusedOtherwise
  BY <1>8 DEF RefusedOtherwise, Return, PhaseOK
<1> QED BY <1>1, <1>2, <1>3, <1>4, <1>5, <1>6, <1>7, <1>8 DEF Early

LEMMA EarlyFoundOK ==
  ASSUME PhaseOK, Early
  PROVE  FoundOK'
<1>1. /\ found' = << >> /\ phase' \in Before \cup Testing \cup {"walk", "done"}
      /\ phase' = "walk" => at' = end'
  BY EarlyIs
<1>2. FoundKnown'
  BY <1>1, EmptyIsSequence DEF FoundKnown
<1>3. AtIsNext'
  BY <1>1 DEF AtIsNext, Looking, Before, Testing
<1>4. FoundInMempool'
  BY <1>1, EmptyIsSequence DEF FoundInMempool
<1>5. ChainIsWhole'
  BY <1>1 DEF ChainIsWhole
<1>6. Chosen'
  BY <1>1 DEF Chosen, Before, Testing
<1> QED BY <1>2, <1>3, <1>4, <1>5, <1>6 DEF FoundOK

\* The node moves on.
Outside ==
  \/ \E n \in DOMAIN Pool : OthersSend(n)
  \/ \E n \in mempool : Mine(n)
  \/ \E n \in mempool : Expire(n) \/ Trim(n)
  \/ FloorFalls \/ BeginBlock \/ EndBlock
  \/ IndexBlock
LEMMA OutsideIs ==
  ASSUME Outside
  PROVE  /\ phase' = phase /\ lookupVars' = lookupVars /\ own' = own
         /\ quiet' => mempool' = mempool /\ floor' = floor /\ quiet
<1>1. CASE \E n \in DOMAIN Pool : OthersSend(n)
  BY <1>1 DEF OthersSend, NodeStep
<1>2. CASE \E n \in mempool : Mine(n)
  BY <1>2 DEF Mine, NodeStep
<1>3. CASE \E n \in mempool : Expire(n) \/ Trim(n)
  BY <1>3 DEF Expire, Trim, NodeStep
<1>4. CASE IndexBlock
  BY <1>4 DEF IndexBlock
<1>5. CASE FloorFalls \/ BeginBlock \/ EndBlock
  BY <1>5 DEF FloorFalls, BeginBlock, EndBlock, NodeStep
<1> QED BY <1>1, <1>2, <1>3, <1>4, <1>5 DEF Outside

\* The same for all steps that leave what is found.
LEMMA FoundStays ==
  ASSUME FoundOK, own' = own, found' = found, at' = at, end' = end,
         quiet' => mempool' = mempool /\ quiet,
         \/ phase' = phase /\ command' = command /\ draft' = draft /\ candidates' = candidates
         \/ phase = "walk" /\ candidates = {} /\ phase' \in {"choose", "simulate"}
         \/ phase = "simulate" /\ phase' = "choose"
         \/ phase = "choose" /\ phase' = "send" /\ Chosen'
         \/ phase' = "done"
  PROVE  FoundOK'
<1>0. \A n : Tx(n)' = Tx(n)
  BY DEF Tx
<1>1. FoundKnown'
  BY DEF FoundOK, FoundKnown
<1>2. AtIsNext'
  <2>1. phase' \in Looking => phase \in Looking
    BY DEF Looking
  <2>2. phase' \in Looking =>
          at = IF found = << >> THEN end
               ELSE IF Tx(Last(found).name).leaves THEN Convert(Last(found).name) ELSE Nowhere
    BY <2>1 DEF FoundOK, AtIsNext
  <2> QED BY <2>2, <1>0 DEF AtIsNext
<1>3. ASSUME quiet', phase' \in Looking
      PROVE  mempool' = mempool /\ quiet /\ phase \in Looking /\ \A n : Entry(n)' = Entry(n)
  BY <1>3, NodeStays DEF Looking
<1>4. FoundInMempool'
  <2> SUFFICES ASSUME quiet', phase' \in Looking, NEW i \in DOMAIN found
               PROVE  /\ found[i].name \in mempool'
                      /\ found[i].entry = Entry(found[i].name)'
                      /\ Place(i)' \in Tx(found[i].name)'.inputs
    BY DEF FoundInMempool
  <2>1. Place(i)' = Place(i)
    BY DEF Place
  <2>2. /\ found[i].name \in mempool /\ found[i].entry = Entry(found[i].name)
        /\ Place(i) \in Tx(found[i].name).inputs
    BY <1>3 DEF FoundOK, FoundInMempool
  <2> QED BY <1>0, <1>3, <2>1, <2>2
<1>5. ChainIsWhole'
  <2> SUFFICES ASSUME quiet', phase' \in Looking, found # << >>, NEW n \in mempool', at \in Tx(n)'.inputs
               PROVE  phase' = "walk" /\ n \in candidates'
    BY DEF ChainIsWhole
  <2>1. n \in mempool /\ at \in Tx(n).inputs
    BY <1>0, <1>3
  <2>2. phase = "walk" /\ n \in candidates
    BY <1>3, <2>1 DEF FoundOK, ChainIsWhole
  <2> QED BY <2>2 DEF Looking
<1>6. Chosen'
  <2>1. phase' = "send" => Chosen' \/ (phase = "send" /\ command' = command /\ draft' = draft)
    OBVIOUS
  <2>2. ASSUME command' = command, NEW j PROVE Replaceable(command, j)' <=> Replaceable(command, j)
    BY <2>2 DEF Replaceable, Outbids
  <2> QED BY <2>1, <2>2 DEF FoundOK, Chosen
<1> QED BY <1>1, <1>2, <1>4, <1>5, <1>6 DEF FoundOK

\* A candidate that does not spend the end is left.
LEMMA CandidateLeft ==
  ASSUME FoundOK, NEW n \in candidates, phase = "walk", phase' = phase, at \notin Tx(n).inputs,
         candidates' = candidates \ {n}, mempool' = mempool, own' = own, end' = end, at' = at,
         found' = found, quiet' = quiet
  PROVE  FoundOK'
<1>1. (\A m : Tx(m)' = Tx(m)) /\ \A m : Entry(m)' = Entry(m)
  BY NodeStays
<1>2. FoundKnown'
  BY DEF FoundOK, FoundKnown
<1>3. AtIsNext'
  BY <1>1 DEF FoundOK, AtIsNext
<1>4. FoundInMempool'
  <2> SUFFICES ASSUME quiet', NEW i \in DOMAIN found
               PROVE  /\ found[i].name \in mempool
                      /\ found[i].entry = Entry(found[i].name)
                      /\ Place(i)' \in Tx(found[i].name).inputs
    BY <1>1 DEF FoundInMempool
  <2>1. Place(i)' = Place(i)
    BY DEF Place
  <2> QED BY <2>1 DEF FoundOK, FoundInMempool, Looking
<1>5. ChainIsWhole'
  <2> SUFFICES ASSUME quiet, found # << >>, NEW m \in mempool, at \in Tx(m).inputs
               PROVE  m \in candidates \ {n}
    BY <1>1 DEF ChainIsWhole
  <2>1. m \in candidates
    BY DEF FoundOK, ChainIsWhole, Looking
  <2> QED BY <2>1
<1>6. Chosen'
  BY DEF Chosen
<1> QED BY <1>2, <1>3, <1>4, <1>5, <1>6 DEF FoundOK

\* What spends the end is found.
LEMMA CandidateFound ==
  ASSUME NodeInvariant, FoundOK, NEW n \in mempool, phase = "walk", at \in Tx(n).inputs,
         found' = Append(found, [name |-> n, entry |-> Entry(n)]),
         phase' = IF Tx(n).leaves THEN "walk" ELSE "simulate",
         at' = IF Tx(n).leaves THEN Convert(n) ELSE Nowhere,
         candidates' = IF Tx(n).leaves THEN SpentBy(n) ELSE {},
         mempool' = mempool, own' = own, end' = end, quiet' = quiet
  PROVE  FoundOK'
<1> DEFINE new == [name |-> n, entry |-> Entry(n)]
           k == Len(found)
<1>0. (\A m : Tx(m)' = Tx(m)) /\ \A m : Entry(m)' = Entry(m)
  BY NodeStays
<1>1. new.name = n /\ new.entry = Entry(n)
  OBVIOUS
<1> HIDE DEF new
<1>2. /\ IsSequence(found') /\ k \in Nat /\ DOMAIN found = 1..k /\ DOMAIN found' = 1..(k + 1)
      /\ \A i \in 1..k : found'[i] = found[i]
      /\ found'[k + 1] = new /\ found' # << >>
      /\ (found # << >> => k >= 1 /\ Last(found) = found[k])
      /\ Last(found') = new
  <2>1. IsSequence(found) /\ found' = Append(found, new)
    BY DEF FoundOK, FoundKnown, new
  <2> QED BY <2>1, AppendIs
<1> HIDE DEF k
<1>3. FoundKnown'
  <2>1. n \in DOMAIN Pool \cup DOMAIN own
    BY DEF NodeInvariant, NamesKnown
  <2>2. ASSUME NEW i \in DOMAIN found' PROVE found'[i].name \in DOMAIN Pool \cup DOMAIN own
    <3>1. CASE i = k + 1
      BY <3>1, <2>1, <1>1, <1>2
    <3>2. CASE i # k + 1
      <4>1. i \in 1..k
        BY <3>2, <2>2, <1>2
      <4> QED BY <4>1, <1>2 DEF FoundOK, FoundKnown
    <3> QED BY <3>1, <3>2
  <2> QED BY <2>2, <1>2 DEF FoundKnown
<1>4. AtIsNext'
  BY <1>0, <1>1, <1>2 DEF AtIsNext
<1>5. FoundInMempool'
  <2> SUFFICES ASSUME quiet, NEW i \in 1..(k + 1)
               PROVE  /\ found'[i].name \in mempool
                      /\ found'[i].entry = Entry(found'[i].name)
                      /\ Place(i)' \in Tx(found'[i].name).inputs
    BY <1>0, <1>2 DEF FoundInMempool
  <2>1. CASE i = k + 1
    <3>1. found'[i] = new
      BY <2>1, <1>2
    <3>2. Place(i)' = at
      <4>1. at = IF found = << >> THEN end
                 ELSE IF Tx(Last(found).name).leaves THEN Convert(Last(found).name) ELSE Nowhere
        BY DEF FoundOK, AtIsNext, Looking
      <4>2. CASE found = << >>
        <5>1. k = 0
          BY <4>2, EmptyIsSequence DEF k
        <5> QED BY <5>1, <4>1, <4>2, <2>1 DEF Place
      <4>3. CASE found # << >>
        <5>1. at = Convert(Last(found).name)
          <6>1. at # Nowhere
            <7>1. at.tx \in mined \cup mempool \cup {"root"}
              BY DEF NodeInvariant, SpentOnce
            <7>2. None \notin mined \cup mempool \cup {"root"}
              BY NamesDisjoint DEF NodeInvariant, NamesKnown, None, OwnNames
            <7> QED BY <7>1, <7>2 DEF Nowhere, Convert
          <6> QED BY <6>1, <4>1, <4>3
        <5>2. i # 1 /\ i - 1 = k /\ k \in 1..k
          BY <4>3, <1>2, <2>1
        <5>3. Place(i)' = Convert(found'[k].name)
          BY <5>2 DEF Place
        <5> QED BY <5>1, <5>2, <5>3, <4>3, <1>2
      <4> QED BY <4>2, <4>3
    <3> QED BY <3>1, <3>2, <1>1
  <2>2. CASE i # k + 1
    <3>1. i \in 1..k /\ found'[i] = found[i] /\ (i # 1 => i - 1 \in 1..k)
      BY <2>2, <1>2
    <3>2. Place(i)' = Place(i)
      BY <3>1, <1>2 DEF Place
    <3> QED BY <3>1, <3>2, <1>2 DEF FoundOK, FoundInMempool, Looking
  <2> QED BY <2>1, <2>2
<1>6. ChainIsWhole'
  <2> SUFFICES ASSUME NEW m \in mempool, at' \in Tx(m).inputs
               PROVE  phase' = "walk" /\ m \in candidates'
    BY <1>0 DEF ChainIsWhole
  <2>1. Tx(n).leaves
    <3>1. at'.tx \in mined \cup mempool \cup {"root"}
      BY DEF NodeInvariant, SpentOnce
    <3>2. None \notin mined \cup mempool \cup {"root"}
      BY NamesDisjoint DEF NodeInvariant, NamesKnown, None, OwnNames
    <3>3. at' # Nowhere
      BY <3>1, <3>2 DEF Nowhere, Convert
    <3> QED BY <3>3
  <2>2. at' = Convert(n) /\ phase' = "walk" /\ candidates' = SpentBy(n)
    BY <2>1
  <2>3. m \in Spenders({n})
    BY <2>2 DEF Convert, Spenders
  <2> QED BY <2>2, <2>3 DEF SpentBy, Entry
<1>7. Chosen'
  BY DEF Chosen
<1> QED BY <1>3, <1>4, <1>5, <1>6, <1>7 DEF FoundOK

\* The least and the largest of some places.
LEMMA LeastIs ==
  ASSUME NEW S \in SUBSET Nat, S # {}
  PROVE  Min(S) \in S /\ \A x \in S : Min(S) <= x
<1>1. PICK n \in S : \A m \in S : n <= m
  BY LeastNatural
<1>2. \E x \in S : \A y \in S : x =< y
  BY <1>1
<1> QED BY <1>2 DEF Min

LEMMA LargestIs ==
  ASSUME NEW b \in Nat, NEW S \in SUBSET (0..b), S # {}
  PROVE  Max(S) \in S /\ \A x \in S : Max(S) >= x
<1> DEFINE T == {b - x : x \in S}
<1>1. T \in SUBSET Nat /\ T # {}
  <2>1. \A x \in S : b - x \in Nat
    OBVIOUS
  <2> QED BY <2>1
<1>2. PICK n \in T : \A m \in T : n <= m
  <2> HIDE DEF T
  <2> QED BY <1>1, LeastNatural
<1>3. PICK x \in S : n = b - x
  BY <1>2
<1>4. ASSUME NEW y \in S PROVE x >= y
  <2>1. b - y \in T
    OBVIOUS
  <2>2. b - x <= b - y
    BY <2>1, <1>2, <1>3
  <2> QED BY <2>2
<1>5. \E z \in S : \A y \in S : z >= y
  BY <1>4
<1> QED BY <1>5 DEF Max

LEMMA PlacesKnown ==
  ASSUME FoundKnown
  PROVE  Len(found) \in Nat /\ DOMAIN found = 1..Len(found) /\ Places \subseteq 1..(Len(found) + 1)
<1>1. Len(found) \in Nat /\ DOMAIN found = 1..Len(found)
  BY AppendIs DEF FoundKnown
<1> QED BY <1>1 DEF Places

\* The place is the first from which all conversions up to the deepest one can be
\* replaced.
LEMMA ChooseChooses ==
  ASSUME FoundOK, NEW c \in Commands, Choose(c)
  PROVE  Chosen' /\ (phase' = "send" => draft'.place \in Places)
<1> DEFINE limits == Parameters(c, TRUE, prevs, state)
           good == {i \in Places : Satisfies(c, prevs[i], limits)}
           deepest == Max(good)
           open == {i \in good : \A j \in i..(deepest - 1) : Replaceable(c, j)}
           best == Min(open)
           amounts == Amounts(c, prevs[best], limits)
<1>1. SUFFICES ASSUME phase' = "send" PROVE Chosen' /\ draft'.place \in Places
  BY DEF Chosen
<1>2. good # {} /\ command' = c /\ found' = found
      /\ draft' = [place |-> best, deepest |-> deepest, input |-> amounts.input, output |-> amounts.output]
  BY <1>1 DEF Choose
<1>3. Len(found) \in Nat /\ good \subseteq 1..(Len(found) + 1)
  BY PlacesKnown DEF FoundOK
<1> HIDE DEF amounts, best
<1>4. draft'.place = best /\ draft'.deepest = deepest
  BY <1>2
<1>5. good \subseteq Places
  OBVIOUS
<1> HIDE DEF good, deepest
<1>6. deepest \in good /\ \A i \in good : deepest >= i
  <2>1. Len(found) + 1 \in Nat /\ good \in SUBSET (0..(Len(found) + 1))
    BY <1>3
  <2> QED BY <2>1, <1>2, LargestIs DEF deepest
<1>7. deepest \in open
  BY <1>3, <1>6
<1>8. open \in SUBSET Nat /\ open \subseteq good
  <2>1. open \subseteq good
    OBVIOUS
  <2>2. good \subseteq Nat
    BY <1>3
  <2> QED BY <2>1, <2>2
<1> HIDE DEF open
<1>9. best \in open
  BY <1>7, <1>8, LeastIs DEF best
<1>10. best \in good /\ \A j \in best..(deepest - 1) : Replaceable(c, j)
  BY <1>9 DEF open
<1>11. \A j : Replaceable(c, j)' <=> Replaceable(c, j)
  BY <1>2 DEF Replaceable, Outbids
<1>12. /\ command' \in Commands
       /\ draft'.place \in 1..(Len(found') + 1)
       /\ draft'.deepest \in 1..(Len(found') + 1)
       /\ draft'.place <= draft'.deepest
  BY <1>2, <1>3, <1>4, <1>6, <1>10
<1>13. \A j \in draft'.place..(draft'.deepest - 1) : Replaceable(command, j)'
  <2>1. \A j : Replaceable(command, j)' <=> Replaceable(c, j)
    BY <1>2 DEF Replaceable, Outbids
  <2> QED BY <2>1, <1>4, <1>10
<1> QED BY <1>4, <1>10, <1>12, <1>13, <1>5 DEF Chosen

LEMMA FoundKept ==
  ASSUME NodeInvariant, PhaseOK, FoundOK, Next
  PROVE  FoundOK'
<1>1. CASE Outside
  <2>1. /\ phase' = phase /\ lookupVars' = lookupVars /\ own' = own
        /\ quiet' => mempool' = mempool /\ quiet
    BY <1>1, OutsideIs
  <2> QED BY <2>1, FoundStays DEF lookupVars
<1>2. CASE Early
  BY <1>2, EarlyFoundOK
<1>3. ASSUME NEW n \in candidates, Look(n) PROVE FoundOK'
  <2>1. CASE Fail("walk")
    BY <2>1, FoundStays DEF Fail, Request, NodeUnchanged, nodeVars, lookupVars
  <2>2. CASE /\ n \in mempool \cup mined
             /\ at \notin Tx(n).inputs
             /\ candidates' = candidates \ {n}
             /\ UNCHANGED <<nodeVars, phase, command, state, end, at, raw, rate, found,
                            prevs, draft, quiet, seen>>
    <3>1. phase = "walk"
      BY <1>3 DEF Look
    <3> QED BY <2>2, <3>1, <1>3, CandidateLeft DEF nodeVars
  <2>3. CASE /\ n \in mempool
             /\ at \in Tx(n).inputs
             /\ found' = Append(found, [name |-> n, entry |-> Entry(n)])
             /\ phase' = IF Tx(n).leaves THEN "walk" ELSE "simulate"
             /\ at' = IF Tx(n).leaves THEN Convert(n) ELSE Nowhere
             /\ candidates' = IF Tx(n).leaves THEN SpentBy(n) ELSE {}
             /\ UNCHANGED <<nodeVars, command, state, end, raw, rate, prevs, draft,
                            quiet, seen>>
    <3>1. phase = "walk"
      BY <1>3 DEF Look
    <3>2. mempool' = mempool /\ own' = own /\ end' = end /\ quiet' = quiet
      BY <2>3 DEF nodeVars
    <3> QED BY <2>3, <3>1, <3>2, CandidateFound
  <2> QED BY <1>3, <2>1, <2>2, <2>3 DEF Look
<1>4. CASE WalkEnds
  <2>1. /\ phase = "walk" /\ candidates = {} /\ phase' \in {"choose", "simulate"} /\ found' = found
        /\ at' = at /\ end' = end /\ own' = own /\ mempool' = mempool /\ quiet' = quiet
    BY <1>4 DEF WalkEnds, Request, NodeUnchanged, nodeVars
  <2> QED BY <2>1, FoundStays
<1>5. CASE Simulate
  <2>1. /\ phase = "simulate" /\ phase' = "choose" /\ found' = found
        /\ at' = at /\ end' = end /\ own' = own /\ mempool' = mempool /\ quiet' = quiet
    BY <1>5 DEF Simulate, Request, NodeUnchanged, nodeVars
  <2> QED BY <2>1, FoundStays
<1>6. CASE DependsGone
  BY <1>6, FoundStays DEF DependsGone, Fail, Request, NodeUnchanged, nodeVars, lookupVars
<1>7. ASSUME NEW c \in Commands, Choose(c) PROVE FoundOK'
  <2>1. /\ phase = "choose" /\ phase' \in {"send", "done"} /\ found' = found
        /\ at' = at /\ end' = end /\ own' = own /\ mempool' = mempool /\ quiet' = quiet
    BY <1>7 DEF Choose, NodeUnchanged, nodeVars
  <2>2. Chosen'
    BY <1>7, ChooseChooses
  <2> QED BY <2>1, <2>2, FoundStays
<1>8. CASE Send
  <2>1. phase' = "done" /\ found' = found /\ DOMAIN own \subseteq DOMAIN own'
    BY <1>8 DEF Send, Request, lookupVars
  <2> QED BY <2>1 DEF FoundOK, FoundKnown, AtIsNext, FoundInMempool, ChainIsWhole, Chosen, Looking
<1> QED BY <1>1, <1>2, <1>3, <1>4, <1>5, <1>6, <1>7, <1>8 DEF Next, Lookup, LookupStep, Outside, Early

-----------------------------------------------------------------------------
(* The search for the spender. *)

LEMMA SoughtStays ==
  ASSUME mempool' = mempool, own' = own, end' = end
  PROVE  (\A n : Sought(n)' <=> Sought(n)) /\ (\A n : Tx(n)' = Tx(n)) /\ \A n : Entry(n)' = Entry(n)
<1>1. (\A n : Tx(n)' = Tx(n)) /\ \A n : Entry(n)' = Entry(n)
  BY NodeStays
<1>2. ASSUME NEW n PROVE Parents(Tx(n))' = Parents(Tx(n))
  BY <1>1 DEF Parents
<1> QED BY <1>1, <1>2 DEF Sought

\* While the mempool stays, the test is refused for what is sought.
LEMMA SoughtIsTold ==
  ASSUME NodeInvariant, PhaseOK, SearchOK, phase \in Testing, quiet, floor = Relay,
         NEW n \in mempool, Sought(n)
  PROVE  /\ n \in DOMAIN raw /\ raw[n] = Entry(n)
         /\ Verdict(TestTx).why \in InsufficientFee
         /\ Verdict(TestTx).why = "old feerate" =>
              Verdict(TestTx).amount = RateOf(Tx(n)) /\ RateOf(Tx(n)) + 100 >= Relay
         /\ Verdict(TestTx).why = "less fees" => Verdict(TestTx).amount = Fees(Descendants({n}))
         /\ Verdict(TestTx).why = "relay" =>
              TestTx.fee - Verdict(TestTx).amount = Fees(Descendants({n}))
<1>1. n \in DOMAIN raw /\ rate \in {Relay, RateOf(Tx(n)) + 100} /\ rate >= Relay
  BY DEF SearchOK, SoughtIsKnown
<1>2. raw[n] = Entry(n)
  BY <1>1 DEF SearchOK, RawIsMempool
<1>3. DOMAIN own = {}
  BY DEF PhaseOK
<1> QED BY <1>1, <1>2, <1>3, SoughtRefusesTest

\* Steps that neither test nor look.
LEMMA SearchStays ==
  ASSUME SearchOK, own' = own, found' = found, end' = end, raw' = raw, rate' = rate,
         quiet' => mempool' = mempool /\ floor' = floor /\ quiet,
         \/ phase' = phase /\ candidates' = candidates
         \/ phase = "walk" /\ candidates = {} /\ phase' \in {"choose", "simulate"}
         \/ phase = "simulate" /\ phase' = "choose"
         \/ phase = "choose" /\ phase' = "send"
         \/ phase' = "done"
  PROVE  SearchOK'
<1>1. RateStarts'
  BY DEF SearchOK, RateStarts, Before
<1>2. ASSUME quiet' PROVE quiet /\ mempool' = mempool /\ floor' = floor /\ (\A n : Sought(n)' <=> Sought(n)) /\ (\A n : Tx(n)' = Tx(n))
                          /\ \A n : Entry(n)' = Entry(n)
  BY <1>2, SoughtStays
<1>3. phase' \in Testing => phase \in Testing
  BY DEF Testing
<1>4. RawIsMempool'
  BY <1>2, <1>3 DEF SearchOK, RawIsMempool
<1>5. SoughtIsKnown'
  <2> SUFFICES ASSUME quiet', floor' = Relay, phase' \in Testing, NEW n \in mempool', Sought(n)'
               PROVE  n \in DOMAIN raw' /\ rate' \in {Relay, RateOf(Tx(n))' + 100} /\ rate' >= Relay
    BY DEF SoughtIsKnown
  <2>1. RateOf(Tx(n))' = RateOf(Tx(n))
    BY <1>2 DEF RateOf
  <2> QED BY <1>2, <1>3, <2>1 DEF SearchOK, SoughtIsKnown
<1>6. SoughtIsFound'
  <2> SUFFICES ASSUME quiet', floor' = Relay, phase' \in Looking, NEW n \in mempool', Sought(n)'
               PROVE  n \in FoundNames' \/ (phase' = "walk" /\ n \in candidates')
    BY DEF SoughtIsFound
  <2>1. FoundNames' = FoundNames /\ phase \in Looking
    BY DEF FoundNames, Looking
  <2>2. n \in FoundNames \/ (phase = "walk" /\ n \in candidates)
    BY <1>2, <2>1 DEF SearchOK, SoughtIsFound
  <2> QED BY <2>1, <2>2 DEF Looking
<1> QED BY <1>1, <1>4, <1>5, <1>6 DEF SearchOK

\* The search returns what is sought.
LEMMA ReturnFinds ==
  ASSUME NEW spenders, phase' = "walk", candidates' = spenders,
         quiet' => quiet /\ mempool' = mempool /\ floor' = floor /\ own' = own /\ end' = end,
         quiet' /\ floor = Relay => \A n \in mempool : Sought(n) => n \in spenders
  PROVE  SearchOK'
<1>1. RateStarts' /\ RawIsMempool' /\ SoughtIsKnown'
  BY DEF RateStarts, RawIsMempool, SoughtIsKnown, Before, Testing
<1>2. SoughtIsFound'
  <2> SUFFICES ASSUME quiet', floor' = Relay, NEW n \in mempool', Sought(n)' PROVE n \in candidates'
    BY DEF SoughtIsFound
  <2>1. Sought(n) /\ n \in mempool
    BY SoughtStays
  <2> QED BY <2>1
<1> QED BY <1>1, <1>2 DEF SearchOK

LEMMA SearchKept ==
  ASSUME NodeInvariant, PhaseOK, FoundOK, SearchOK, Next
  PROVE  SearchOK'
<1>0. Outside \/ (LookupStep /\ floor' = floor)
  BY DEF Next, Lookup, Outside
<1>1. CASE Outside
  <2>1. /\ phase' = phase /\ lookupVars' = lookupVars /\ own' = own
        /\ quiet' => mempool' = mempool /\ floor' = floor /\ quiet
    BY <1>1, OutsideIs
  <2> QED BY <2>1, SearchStays DEF lookupVars
<1>2. CASE (ReadSupplies \/ ReadEnd) /\ floor' = floor
  <2>1. /\ phase \in Before /\ phase' \in Before \cup {"done"} /\ rate' = rate /\ quiet' = quiet /\ floor' = floor
    BY <1>2 DEF ReadSupplies, ReadSupply, ReadEnd, Request, NodeUnchanged, Before
  <2> QED BY <2>1 DEF SearchOK, RateStarts, RawIsMempool, SoughtIsKnown, SoughtIsFound, Before, Testing, Looking
<1>3. CASE ReadMempool /\ floor' = floor
  <2>1. /\ phase = "mempool" /\ phase' = "test" /\ rate' = rate /\ raw' = [n \in mempool |-> Entry(n)]
        /\ mempool' = mempool /\ own' = own /\ end' = end /\ floor' = floor
    BY <1>3 DEF ReadMempool, Request, nodeVars
  <2>2. rate = Relay
    BY <2>1 DEF SearchOK, RateStarts, Before
  <2>3. (\A n : Sought(n)' <=> Sought(n)) /\ \A n : Entry(n)' = Entry(n)
    BY <2>1, SoughtStays
  <2>4. RateStarts' /\ SoughtIsFound'
    BY <2>1 DEF RateStarts, SoughtIsFound, Before, Looking
  <2>5. RawIsMempool'
    BY <2>1, <2>3 DEF RawIsMempool
  <2>6. SoughtIsKnown'
    BY <2>1, <2>2, RelayFee DEF SoughtIsKnown
  <2> QED BY <2>4, <2>5, <2>6 DEF SearchOK
<1>4. CASE TestAccept /\ floor' = floor
  <2>1. phase = "test" /\ mempool' = mempool /\ own' = own /\ quiet' = quiet /\ floor' = floor
    BY <1>4 DEF TestAccept, NodeUnchanged, nodeVars
  <2>2. CASE Verdict(TestTx).why \in InsufficientFee
    <3>1. phase' = "send test" /\ end' = end /\ raw' = raw /\ rate' = rate
      BY <1>4, <2>2 DEF TestAccept, lookupVars
    <3>2. (\A n : Sought(n)' <=> Sought(n)) /\ (\A n : Tx(n)' = Tx(n)) /\ \A n : Entry(n)' = Entry(n)
      BY <2>1, <3>1, SoughtStays
    <3>3. RateStarts' /\ SoughtIsFound'
      BY <3>1 DEF RateStarts, SoughtIsFound, Before, Looking
    <3>4. RawIsMempool'
      BY <2>1, <3>1, <3>2 DEF RawIsMempool, SearchOK, Testing
    <3>5. \A n : RateOf(Tx(n))' = RateOf(Tx(n))
      BY <3>2 DEF RateOf
    <3>6. SoughtIsKnown'
      BY <2>1, <3>1, <3>2, <3>5 DEF SoughtIsKnown, SearchOK, Testing
    <3> QED BY <3>3, <3>4, <3>6 DEF SearchOK
  <2>3. CASE Verdict(TestTx).why \notin InsufficientFee
    <3>1. Return({})
      BY <1>4, <2>3 DEF TestAccept
    <3>2. ASSUME quiet, floor = Relay, NEW n \in mempool PROVE ~Sought(n)
      BY <2>1, <2>3, <3>2, SoughtIsTold DEF Testing
    <3>3. phase' = "walk" /\ candidates' = {} /\ end' = end
      BY <3>1 DEF Return
    <3> QED BY <2>1, <3>2, <3>3, ReturnFinds
  <2> QED BY <2>2, <2>3
<1>5. CASE TestSent
  <2>1. phase' = "walk" /\ candidates' = {} /\ quiet' = FALSE
    BY <1>5 DEF TestSent, Return
  <2> QED BY <2>1, ReturnFinds
<1>6. CASE OldFeerate /\ floor' = floor
  <2> DEFINE amount == Verdict(TestTx).amount
             filtered == AtRate(amount)
  <2>1. /\ phase = "send test" /\ Verdict(TestTx).why = "old feerate"
        /\ mempool' = mempool /\ own' = own /\ quiet' = quiet /\ floor' = floor
    BY <1>6 DEF OldFeerate, NodeUnchanged, nodeVars
  <2>2. ASSUME quiet, floor = Relay, NEW n \in mempool, Sought(n)
        PROVE  n \in filtered /\ amount = RateOf(Tx(n)) /\ RateOf(Tx(n)) + 100 >= Relay
    <3>1. n \in DOMAIN raw /\ raw[n] = Entry(n) /\ amount = RateOf(Tx(n)) /\ RateOf(Tx(n)) + 100 >= Relay
      BY <2>1, <2>2, SoughtIsTold DEF Testing
    <3>2. Parents(Tx(n)) = {}
      BY <2>2 DEF Sought
    <3> QED BY <3>1, <3>2 DEF AtRate, Entry
  <2>3. CASE filtered = {}
    <3>1. Return({})
      BY <1>6, <2>3 DEF OldFeerate
    <3>2. phase' = "walk" /\ candidates' = {} /\ end' = end
      BY <3>1 DEF Return
    <3>3. quiet /\ floor = Relay => \A n \in mempool : Sought(n) => n \in {}
      BY <2>2, <2>3
    <3> HIDE DEF filtered, amount
    <3> QED BY <2>1, <3>2, <3>3, ReturnFinds
  <2>4. CASE filtered # {}
    <3>1. /\ phase' = "test" /\ raw' = [n \in filtered |-> raw[n]] /\ rate' = amount + 100 /\ end' = end
      BY <1>6, <2>4 DEF OldFeerate, NextRate
    <3>2. (\A n : Sought(n)' <=> Sought(n)) /\ (\A n : Tx(n)' = Tx(n)) /\ \A n : Entry(n)' = Entry(n)
      BY <2>1, <3>1, SoughtStays
    <3>3. RateStarts' /\ SoughtIsFound'
      BY <3>1 DEF RateStarts, SoughtIsFound, Before, Looking
    <3>4. filtered \subseteq DOMAIN raw
      BY DEF AtRate
    <3> HIDE DEF filtered, amount
    <3>5. RawIsMempool'
      BY <2>1, <3>1, <3>2, <3>4 DEF RawIsMempool, SearchOK, Testing
    <3>6. SoughtIsKnown'
      <4> SUFFICES ASSUME quiet, floor = Relay, NEW n \in mempool, Sought(n)
                   PROVE  n \in DOMAIN raw' /\ rate' \in {Relay, RateOf(Tx(n))' + 100} /\ rate' >= Relay
        BY <2>1, <3>2 DEF SoughtIsKnown
      <4>1. n \in filtered /\ amount = RateOf(Tx(n)) /\ RateOf(Tx(n)) + 100 >= Relay
        BY <2>2
      <4>2. RateOf(Tx(n))' = RateOf(Tx(n))
        BY <3>2 DEF RateOf
      <4> QED BY <4>1, <4>2, <3>1
    <3> QED BY <3>3, <3>5, <3>6 DEF SearchOK
  <2> QED BY <2>3, <2>4
<1>7. CASE FeesTooLow /\ floor' = floor
  <2> DEFINE fees == IF Verdict(TestTx).why = "less fees" THEN Verdict(TestTx).amount
                     ELSE TestTx.fee - Verdict(TestTx).amount
  <2>1. /\ phase = "send test" /\ Verdict(TestTx).why \in {"less fees", "relay"}
        /\ mempool' = mempool /\ own' = own /\ quiet' = quiet /\ floor' = floor /\ Return(WithFees(fees))
    BY <1>7 DEF FeesTooLow, NodeUnchanged, nodeVars
  <2>2. ASSUME quiet, floor = Relay, NEW n \in mempool, Sought(n) PROVE n \in WithFees(fees)
    <3>1. /\ n \in DOMAIN raw /\ raw[n] = Entry(n)
          /\ Verdict(TestTx).why = "less fees" => Verdict(TestTx).amount = Fees(Descendants({n}))
          /\ Verdict(TestTx).why = "relay" => TestTx.fee - Verdict(TestTx).amount = Fees(Descendants({n}))
      BY <2>1, <2>2, SoughtIsTold DEF Testing
    <3>2. fees = Fees(Descendants({n}))
      BY <2>1, <3>1
    <3>3. Entry(n).descendantFee = Fees(Descendants({n}))
      BY DEF Entry
    <3> HIDE DEF fees
    <3>4. n \in DOMAIN raw /\ raw[n].descendantFee = fees
      BY <3>1, <3>2, <3>3
    <3> QED BY <3>4 DEF WithFees
  <2>3. phase' = "walk" /\ candidates' = WithFees(fees) /\ end' = end
    BY <2>1 DEF Return
  <2> HIDE DEF fees
  <2> QED BY <2>1, <2>2, <2>3, ReturnFinds
<1>8. CASE RefusedOtherwise /\ floor' = floor
  <2>1. /\ phase = "send test" /\ Verdict(TestTx).why \notin InsufficientFee
        /\ mempool' = mempool /\ own' = own /\ quiet' = quiet /\ floor' = floor /\ Return({})
    BY <1>8 DEF RefusedOtherwise, NodeUnchanged, nodeVars
  <2>2. ASSUME quiet, floor = Relay, NEW n \in mempool PROVE ~Sought(n)
    BY <2>1, <2>2, SoughtIsTold DEF Testing
  <2>3. phase' = "walk" /\ candidates' = {} /\ end' = end
    BY <2>1 DEF Return
  <2> QED BY <2>1, <2>2, <2>3, ReturnFinds
<1>9. ASSUME NEW k \in candidates, Look(k), floor' = floor PROVE SearchOK'
  <2>0. phase = "walk"
    BY <1>9 DEF Look
  <2>1. CASE Fail("walk")
    BY <1>9, <2>1, SearchStays DEF Fail, Request, NodeUnchanged, nodeVars, lookupVars
  <2>2. CASE ~Fail("walk")
    <3>1. /\ mempool' = mempool /\ own' = own /\ quiet' = quiet /\ floor' = floor /\ end' = end
          /\ phase' \in {"walk", "simulate"}
      BY <1>9, <2>2 DEF Look, nodeVars
    <3>2. RateStarts' /\ RawIsMempool' /\ SoughtIsKnown'
      BY <3>1 DEF RateStarts, RawIsMempool, SoughtIsKnown, Before, Testing
    <3>3. SoughtIsFound'
      <4> SUFFICES ASSUME quiet, floor = Relay, NEW n \in mempool, Sought(n)
                   PROVE  n \in FoundNames' \/ (phase' = "walk" /\ n \in candidates')
        BY <3>1, SoughtStays DEF SoughtIsFound
      <4>1. n \in FoundNames \/ n \in candidates
        BY <2>0 DEF SearchOK, SoughtIsFound, Looking
      <4>2. IsSequence(found) /\ \A x : FoundNames \subseteq {Append(found, x)[i].name : i \in DOMAIN Append(found, x)}
        <5>1. IsSequence(found)
          BY DEF FoundOK, FoundKnown
        <5>2. ASSUME NEW x PROVE FoundNames \subseteq {Append(found, x)[i].name : i \in DOMAIN Append(found, x)}
          <6>1. /\ DOMAIN found = 1..Len(found) /\ Len(found) \in Nat
                /\ DOMAIN Append(found, x) = 1..(Len(found) + 1)
                /\ \A i \in 1..Len(found) : Append(found, x)[i] = found[i]
            BY <5>1, AppendIs
          <6> QED BY <6>1 DEF FoundNames
        <5> QED BY <5>1, <5>2
      <4>3. found' = found \/ \E x : found' = Append(found, x)
        BY <1>9, <2>2 DEF Look
      <4>4. FoundNames \subseteq FoundNames'
        BY <4>2, <4>3 DEF FoundNames
      <4>5. CASE n \in FoundNames
        BY <4>4, <4>5
      <4>6. CASE n \notin FoundNames
        <5>1. found = << >>
          <6> SUFFICES ASSUME found # << >> PROVE n \in FoundNames
            BY <4>6
          <6>1. Len(found) >= 1 /\ Len(found) \in Nat /\ DOMAIN found = 1..Len(found)
            BY <4>2, AppendIs
          <6>2. 1 \in DOMAIN found
            BY <6>1
          <6>3. found[1].name \in mempool /\ end \in Tx(found[1].name).inputs
            BY <6>2, <2>0 DEF FoundOK, FoundInMempool, Looking, Place
          <6>4. end \in Tx(n).inputs
            BY DEF Sought
          <6>5. n = found[1].name
            BY <6>3, <6>4 DEF NodeInvariant, SpentOnce
          <6> QED BY <6>2, <6>5 DEF FoundNames
        <5>2. at = end
          BY <5>1, <2>0 DEF FoundOK, AtIsNext, Looking
        <5>3. n \in candidates /\ at \in Tx(n).inputs
          BY <4>1, <4>6, <5>2 DEF Sought
        <5>4. CASE at \notin Tx(k).inputs
          <6>1. phase' = phase /\ candidates' = candidates \ {k}
            BY <1>9, <2>2, <5>4 DEF Look
          <6> QED BY <6>1, <5>3, <5>4, <2>0
        <5>5. CASE at \in Tx(k).inputs
          <6>1. k \in mempool /\ found' = Append(found, [name |-> k, entry |-> Entry(k)])
            BY <1>9, <2>2, <5>5 DEF Look
          <6>2. k = n
            BY <5>3, <5>5, <6>1 DEF NodeInvariant, SpentOnce
          <6>3. DOMAIN found' = 1..(Len(found) + 1) /\ Len(found) \in Nat
                /\ found'[Len(found) + 1] = [name |-> k, entry |-> Entry(k)]
            BY <4>2, <6>1, AppendIs
          <6>4. Len(found) + 1 \in DOMAIN found' /\ found'[Len(found) + 1].name = n
            BY <6>2, <6>3
          <6>5. FoundNames' = {found'[i].name : i \in DOMAIN found'}
            BY DEF FoundNames
          <6> QED BY <6>4, <6>5
        <5> QED BY <5>4, <5>5
      <4> QED BY <4>5, <4>6
    <3> QED BY <3>2, <3>3 DEF SearchOK
  <2> QED BY <2>1, <2>2
<1>10. CASE WalkEnds /\ floor' = floor
  <2>1. /\ phase = "walk" /\ candidates = {} /\ phase' \in {"choose", "simulate"} /\ found' = found
        /\ raw' = raw /\ rate' = rate /\ end' = end /\ own' = own /\ mempool' = mempool /\ quiet' = quiet /\ floor' = floor
    BY <1>10 DEF WalkEnds, Request, NodeUnchanged, nodeVars
  <2> QED BY <2>1, SearchStays
<1>11. CASE Simulate /\ floor' = floor
  <2>1. /\ phase = "simulate" /\ phase' = "choose" /\ found' = found
        /\ raw' = raw /\ rate' = rate /\ end' = end /\ own' = own /\ mempool' = mempool /\ quiet' = quiet /\ floor' = floor
    BY <1>11 DEF Simulate, Request, NodeUnchanged, nodeVars
  <2> QED BY <2>1, SearchStays
<1>12. CASE DependsGone /\ floor' = floor
  BY <1>12, SearchStays DEF DependsGone, Fail, Request, NodeUnchanged, nodeVars, lookupVars
<1>13. ASSUME NEW c \in Commands, Choose(c), floor' = floor PROVE SearchOK'
  <2>1. /\ phase = "choose" /\ phase' \in {"send", "done"} /\ found' = found
        /\ raw' = raw /\ rate' = rate /\ end' = end /\ own' = own /\ mempool' = mempool /\ quiet' = quiet /\ floor' = floor
    BY <1>13 DEF Choose, NodeUnchanged, nodeVars
  <2> QED BY <2>1, SearchStays
<1>14. CASE Send /\ floor' = floor
  <2>1. phase' = "done"
    BY <1>14 DEF Send, Request
  <2> QED BY <2>1 DEF SearchOK, RateStarts, RawIsMempool, SoughtIsKnown, SoughtIsFound, Before, Testing, Looking
<1> QED BY <1>0, <1>1, <1>2, <1>3, <1>4, <1>5, <1>6, <1>7, <1>8, <1>9, <1>10, <1>11, <1>12, <1>13, <1>14
        DEF LookupStep

-----------------------------------------------------------------------------
(* The floor of the mempool. *)

LEMMA LargestRate ==
  ASSUME NodeInvariant, DOMAIN own = {}, NEW t, Conflicts(t) # {}
  PROVE  Max({RateOf(Tx(n)) : n \in Conflicts(t)}) \in Nat
<1> DEFINE R == {RateOf(Tx(n)) : n \in Conflicts(t)}
           f == [n \in Conflicts(t) |-> RateOf(Tx(n))]
<1>2. Conflicts(t) \subseteq mempool /\ IsFiniteSet(Conflicts(t))
  <2>1. Conflicts(t) \subseteq mempool
    BY DEF Conflicts
  <2> QED BY <2>1, FS_Subset DEF NodeInvariant, MempoolIsGraph, IsMempoolGraph
<1>3. ASSUME NEW n \in Conflicts(t) PROVE RateOf(Tx(n)) \in Nat
  <2>1. Tx(n).fee \in Nat \ {0} /\ Tx(n).size \in Nat \ {0}
    BY <1>2, OthersOnly
  <2>2. PICK a, c : a = Tx(n).fee /\ c = Tx(n).size
    OBVIOUS
  <2>3. a \in Nat /\ c \in Nat \ {0}
    BY <2>1, <2>2
  <2>4. a * 1000 \in Nat
    BY <2>3
  <2>5. (a * 1000) \div c \in Nat
    BY <2>3, <2>4, Quotient
  <2> QED BY <2>2, <2>5 DEF RateOf
<1>4. f \in [Conflicts(t) -> Nat]
  BY <1>3
<1>5. PICK b : b = SumFunction(f)
  OBVIOUS
<1>6. \A n \in Conflicts(t) : f[n] = RateOf(Tx(n))
  OBVIOUS
<1> HIDE DEF f
<1>7. b \in Nat /\ \A n \in Conflicts(t) : b >= f[n]
  BY <1>2, <1>4, <1>5, SumIs
<1>8. R \in SUBSET (0..b) /\ R # {}
  <2>1. ASSUME NEW n \in Conflicts(t) PROVE RateOf(Tx(n)) \in 0..b
    <3>1. PICK r : r = RateOf(Tx(n))
      OBVIOUS
    <3>2. r \in Nat /\ r = f[n] /\ b >= f[n] /\ b \in Nat
      BY <3>1, <1>3, <1>6, <1>7
    <3>3. r \in 0..b
      BY <3>2
    <3> QED BY <3>1, <3>3
  <2> QED BY <2>1
<1> HIDE DEF R
<1>9. Max(R) \in Nat
  <2>1. b \in Nat
    BY <1>7
  <2>2. Max(R) \in R
    BY <2>1, <1>8, LargestIs
  <2>3. Max(R) \in 0..b
    BY <2>2, <1>8
  <2> QED BY <2>1, <2>3
<1> QED BY <1>9 DEF R

LEMMA SlowIs ==
  ASSUME NodeInvariant, DOMAIN own = {}, NEW t, Verdict(t).why = "old feerate"
  PROVE  Verdict(t).amount \in Nat
<1>1. Verdict(t) = Answer("old feerate", Max({RateOf(Tx(n)) : n \in Conflicts(t)})) /\ Slow(t)
  BY VerdictIs DEF Answer
<1>2. Conflicts(t) # {}
  BY <1>1 DEF Slow
<1>3. Max({RateOf(Tx(n)) : n \in Conflicts(t)}) \in Nat
  BY <1>2, LargestRate
<1>4. Verdict(t).amount = Max({RateOf(Tx(n)) : n \in Conflicts(t)})
  BY <1>1, AnswerIs
<1> QED BY <1>3, <1>4, Zenon

LEMMA MaxOfTwo == ASSUME NEW x \in Nat, NEW y \in Nat PROVE Max({x, y}) \in {x, y} /\ Max({x, y}) >= x
<1>1. \E m \in {x, y} : \A z \in {x, y} : m >= z
  <2>1. CASE x >= y
    BY <2>1
  <2>2. CASE ~(x >= y)
    BY <2>2
  <2> QED BY <2>1, <2>2
<1> QED BY <1>1 DEF Max

\* What leaves a full mempool has a fee rate.
LEMMA PackageIs ==
  ASSUME NodeInvariant, OwnKnown, NEW n \in mempool
  PROVE  PackageRate(Descendants({n})) \in Nat
<1> DEFINE S == Descendants({n})
           f == [m \in S |-> Tx(m).fee]
           g == [m \in S |-> Tx(m).size]
<1>1. n \in S /\ S \subseteq mempool
  BY DescendantsLeast
<1>2. IsFiniteSet(S)
  BY <1>1, FS_Subset DEF NodeInvariant, MempoolIsGraph, IsMempoolGraph
<1>3. ASSUME NEW m \in mempool PROVE Tx(m).fee \in Nat /\ Tx(m).size \in Nat \ {0}
  <2>1. m \in DOMAIN own \/ (m \notin DOMAIN own /\ m \in DOMAIN Pool)
    BY DEF NodeInvariant, NamesKnown
  <2> QED BY <2>1, PoolAssumption DEF OwnKnown, Tx
<1>4. f \in [S -> Nat] /\ g \in [S -> Nat] /\ g[n] = Tx(n).size
  BY <1>1, <1>3
<1>5. Fees(S) = SumFunction(f) /\ Sizes(S) = SumFunction(g)
  BY DEF Fees, Sizes
<1> HIDE DEF S, f, g
<1>6. SumFunction(f) \in Nat /\ SumFunction(g) \in Nat /\ SumFunction(g) >= g[n]
  BY <1>1, <1>2, <1>4, SumIs
<1>7. SumFunction(g) \in Nat \ {0}
  BY <1>3, <1>4, <1>6
<1>8. SumFunction(f) * 1000 \in Nat
  BY <1>6
<1>9. (SumFunction(f) * 1000) \div SumFunction(g) \in Nat
  BY <1>7, <1>8, Quotient
<1> QED BY <1>5, <1>9 DEF PackageRate, S

LEMMA ReturnStarts ==
  ASSUME PhaseOK, phase \in Testing, found' = found, NEW spenders, Return(spenders),
         spenders = {} \/ (quiet' => floor' = Relay), floor' = floor, FloorKnown, OwnKnown'
  PROVE  FloorOK'
<1>1. phase' = "walk" /\ candidates' = spenders /\ rate' = Relay /\ found' = << >>
  BY DEF Return, PhaseOK
<1>2. FloorKnown' /\ NobodyYet' /\ FloorSeen'
  BY <1>1, RelayFee DEF FloorKnown, NobodyYet, FloorSeen, Before, Testing
<1> QED BY <1>2 DEF FloorOK

LEMMA FloorKept ==
  ASSUME NodeInvariant, PhaseOK, FoundOK, RateStarts, FloorOK, Next
  PROVE  FloorOK'
<1>0. Outside \/ (LookupStep /\ floor' = floor)
  BY DEF Next, Lookup, Outside
<1>1. CASE Outside
  <2>1. /\ phase' = phase /\ lookupVars' = lookupVars /\ own' = own
        /\ quiet' => floor' = floor /\ quiet
    BY <1>1, OutsideIs
  <2>2. rate' = rate /\ candidates' = candidates /\ found' = found
    BY <2>1 DEF lookupVars
  <2>3. floor' \in Nat /\ floor' >= Relay
    <3>1. CASE \E n \in mempool : Trim(n)
      <4>1. PICK n \in mempool : Trim(n)
        BY <3>1
      <4>2. PICK r : r = PackageRate(Descendants({n})) + Relay
        OBVIOUS
      <4>3. r \in Nat /\ floor' = Max({floor, r})
        BY <4>1, <4>2, PackageIs, RelayFee DEF FloorOK, Trim
      <4> QED BY <4>3, MaxOfTwo, RelayFee DEF FloorOK, FloorKnown
    <3>2. CASE ~\E n \in mempool : Trim(n)
      <4>1. floor' \in {floor, Relay}
        BY <1>1, <3>2 DEF Outside, OthersSend, Mine, Expire, FloorFalls, BeginBlock, EndBlock, IndexBlock
      <4> QED BY <4>1, RelayFee DEF FloorOK, FloorKnown
    <3> QED BY <3>1, <3>2
  <2>4. FloorKnown' /\ OwnKnown' /\ NobodyYet'
    BY <2>1, <2>2, <2>3 DEF FloorOK, FloorKnown, OwnKnown, NobodyYet
  <2>5. FloorSeen'
    BY <2>1, <2>2 DEF FloorOK, FloorSeen
  <2> QED BY <2>4, <2>5 DEF FloorOK
<1>2. ASSUME floor' = floor, own' = own, rate' = rate, candidates' = candidates, found' = found,
             quiet' = quiet, phase' # "send test", phase' \in Before \cup Testing => phase \in Before \cup Testing
      PROVE  FloorOK'
  <2>1. FloorKnown' /\ OwnKnown' /\ NobodyYet'
    BY <1>2 DEF FloorOK, FloorKnown, OwnKnown, NobodyYet
  <2>2. FloorSeen'
    BY <1>2 DEF FloorOK, FloorSeen
  <2> QED BY <2>1, <2>2 DEF FloorOK
<1>3. CASE (ReadSupplies \/ ReadEnd) /\ floor' = floor
  <2>1. /\ phase \in Before /\ phase' \in Before \cup {"done"} /\ rate' = rate /\ quiet' = quiet
        /\ own' = own /\ candidates' = candidates /\ found' = found
    BY <1>3 DEF ReadSupplies, ReadSupply, ReadEnd, Request, NodeUnchanged, nodeVars, Before
  <2>2. phase' # "send test" /\ (phase' \in Before \cup Testing => phase \in Before \cup Testing)
    BY <2>1 DEF Before
  <2> QED BY <1>2, <1>3, <2>1, <2>2
<1>4. CASE ReadMempool /\ floor' = floor
  <2>1. /\ phase = "mempool" /\ phase' = "test" /\ rate' = rate /\ own' = own
        /\ candidates' = candidates /\ found' = found
    BY <1>4 DEF ReadMempool, Request, nodeVars
  <2>2. rate = Relay /\ candidates = {} /\ found = << >>
    BY <2>1 DEF RateStarts, FloorOK, NobodyYet, PhaseOK, Before
  <2>3. FloorKnown' /\ OwnKnown' /\ NobodyYet' /\ FloorSeen'
    BY <1>4, <2>1, <2>2 DEF FloorOK, FloorKnown, OwnKnown, NobodyYet, FloorSeen
  <2> QED BY <2>3 DEF FloorOK
<1>5. CASE TestAccept /\ floor' = floor
  <2>1. phase = "test" /\ own' = own /\ quiet' = quiet
    BY <1>5 DEF TestAccept, NodeUnchanged, nodeVars
  <2>2. OwnKnown'
    BY <2>1 DEF FloorOK, OwnKnown
  <2>3. CASE Verdict(TestTx).why \in InsufficientFee
    <3>1. phase' = "send test" /\ rate' = rate /\ candidates' = candidates /\ found' = found
      BY <1>5, <2>3 DEF TestAccept, lookupVars
    <3>2. FloorKnown' /\ NobodyYet'
      BY <1>5, <2>1, <3>1 DEF FloorOK, FloorKnown, NobodyYet, Testing
    <3>3. ~Cheap(TestTx)
      BY <2>3, VerdictIs DEF Answer, InsufficientFee
    <3>4. rate = Relay => floor = Relay
      <4> SUFFICES ASSUME rate = Relay PROVE floor = Relay
        OBVIOUS
      <4>1. TestTx.fee = FeeAt(Relay, TestSize) /\ TestTx.size = TestSize
        BY DEF TestTx, Absent
      <4>2. ~(FeeAt(Relay, TestSize) < FeeAt(floor, TestSize))
        BY <3>3, <4>1 DEF Cheap
      <4> QED BY <4>2, FloorIsRelay DEF FloorOK, FloorKnown
    <3>5. FloorSeen'
      BY <1>5, <2>1, <3>1, <3>4 DEF FloorOK, FloorSeen
    <3> QED BY <2>2, <3>2, <3>5 DEF FloorOK
  <2>4. CASE Verdict(TestTx).why \notin InsufficientFee
    <3>1. Return({})
      BY <1>5, <2>4 DEF TestAccept
    <3>2. found' = found
      BY <3>1 DEF Return
    <3> QED BY <1>5, <2>1, <2>2, <3>1, <3>2, ReturnStarts DEF FloorOK, Testing
  <2> QED BY <2>3, <2>4
<1>6. CASE TestSent /\ floor' = floor
  <2>1. phase = "send test" /\ own' = [n \in {"test"} |-> TestTx] /\ Return({}) /\ found' = found
    BY <1>6 DEF TestSent, Return
  <2>2. TestTx.fee = FeeAt(rate, TestSize) /\ TestTx.size = TestSize
    BY DEF TestTx, Absent
  <2>3. TestTx.fee \in Nat /\ TestTx.size \in Nat \ {0}
    <3>1. rate \in Nat /\ TestSize \in Nat /\ TestSize >= 2
      BY RelayFee DEF FloorOK, FloorKnown
    <3>2. FeeAt(rate, TestSize) \in Nat
      BY <3>1, FeeType
    <3> QED BY <2>2, <3>1, <3>2
  <2>4. OwnKnown'
    BY <2>1, <2>3 DEF OwnKnown
  <2> QED BY <1>6, <2>1, <2>4, ReturnStarts DEF FloorOK, Testing
<1>7. CASE OldFeerate /\ floor' = floor
  <2>1. phase = "send test" /\ own' = own /\ quiet' = quiet /\ Verdict(TestTx).why = "old feerate"
    BY <1>7 DEF OldFeerate, NodeUnchanged, nodeVars
  <2>2. OwnKnown'
    BY <2>1 DEF FloorOK, OwnKnown
  <2>3. CASE Return({})
    <3>1. found' = found
      BY <2>3 DEF Return
    <3> QED BY <1>7, <2>1, <2>2, <2>3, <3>1, ReturnStarts DEF FloorOK, Testing
  <2>4. CASE ~Return({})
    <3>1. /\ phase' = "test" /\ rate' = Verdict(TestTx).amount + 100
          /\ candidates' = candidates /\ found' = found
      BY <1>7, <2>4 DEF OldFeerate, NextRate
    <3>2. Verdict(TestTx).amount \in Nat
      BY <2>1, SlowIs DEF PhaseOK, Testing
    <3>3. candidates = {}
      BY <2>1 DEF FloorOK, NobodyYet, Testing
    <3>4. FloorKnown' /\ NobodyYet'
      BY <1>7, <3>1, <3>2, <3>3 DEF FloorOK, FloorKnown, NobodyYet
    <3>5. FloorSeen'
      BY <1>7, <2>1 DEF FloorOK, FloorSeen
    <3> QED BY <2>2, <3>4, <3>5 DEF FloorOK
  <2> QED BY <2>3, <2>4
<1>8. CASE (FeesTooLow \/ RefusedOtherwise) /\ floor' = floor
  <2>1. phase = "send test" /\ own' = own /\ quiet' = quiet
    BY <1>8 DEF FeesTooLow, RefusedOtherwise, NodeUnchanged, nodeVars
  <2>2. PICK spenders : Return(spenders)
    BY <1>8 DEF FeesTooLow, RefusedOtherwise
  <2>3. found' = found
    BY <2>2 DEF Return
  <2>4. OwnKnown' /\ (quiet' => floor' = Relay)
    BY <1>8, <2>1 DEF FloorOK, OwnKnown, FloorSeen
  <2> QED BY <1>8, <2>1, <2>2, <2>3, <2>4, ReturnStarts DEF FloorOK, Testing
<1>9. ASSUME NEW n \in candidates, Look(n), floor' = floor PROVE FloorOK'
  <2>1. /\ phase = "walk" /\ phase' \in {"walk", "simulate", "done"}
        /\ own' = own /\ quiet' = quiet /\ rate' = rate
    BY <1>9 DEF Look, Fail, Request, lookupVars, NodeUnchanged, nodeVars
  <2>2. FloorKnown' /\ OwnKnown' /\ NobodyYet'
    BY <1>9, <2>1 DEF FloorOK, FloorKnown, OwnKnown, NobodyYet, Before, Testing
  <2>3. FloorSeen'
    BY <1>9, <2>1 DEF FloorOK, FloorSeen
  <2> QED BY <2>2, <2>3 DEF FloorOK
<1>10. CASE (WalkEnds \/ Simulate \/ DependsGone \/ \E c \in Commands : Choose(c)) /\ floor' = floor
  <2>1. /\ phase' \in {"choose", "simulate", "done", "send"}
        /\ own' = own /\ quiet' = quiet /\ rate' = rate /\ candidates' = candidates /\ found' = found
    BY <1>10 DEF WalkEnds, Simulate, DependsGone, Choose, Fail, Request, lookupVars, NodeUnchanged, nodeVars
  <2>2. phase' # "send test" /\ phase' \notin Before \cup Testing
    BY <2>1 DEF Before, Testing
  <2> QED BY <1>2, <1>10, <2>1, <2>2
<1>11. CASE Send /\ floor' = floor
  <2>1. phase = "send" /\ phase' = "done" /\ quiet' = quiet /\ rate' = rate
        /\ candidates' = candidates /\ found' = found
    BY <1>11 DEF Send, Request, lookupVars
  <2>2. FloorKnown' /\ NobodyYet' /\ FloorSeen'
    BY <1>11, <2>1 DEF FloorOK, FloorKnown, NobodyYet, FloorSeen, Before, Testing
  <2>3. Conversion.fee \in Nat /\ Conversion.size \in Nat \ {0}
    <3>1. command.rate \in Nat
      BY <2>1, CommandAssumption DEF FoundOK, Chosen
    <3> QED BY <3>1, SizeAssumption, FeeType DEF Conversion
  <2>4. OwnKnown'
    <3>1. \/ own' = own
          \/ own' = [n \in DOMAIN own \cup {"convert"} |-> IF n = "convert" THEN Conversion ELSE own[n]]
      BY <1>11 DEF Send
    <3> QED BY <2>3, <3>1 DEF FloorOK, OwnKnown
  <2> QED BY <2>2, <2>4 DEF FloorOK
<1> QED BY <1>0, <1>1, <1>3, <1>4, <1>5, <1>6, <1>7, <1>8, <1>9, <1>10, <1>11 DEF LookupStep

-----------------------------------------------------------------------------
(* The invariant, and what follows from it. *)

Inv == NodeInvariant /\ PhaseOK /\ FoundOK /\ SearchOK /\ FloorOK

LEMMA InitInv == Init => Inv
<1> SUFFICES ASSUME Init PROVE Inv
  OBVIOUS
<1>1. /\ mempool = {} /\ mined = {} /\ DOMAIN own = {} /\ phase = "start" /\ found = << >>
      /\ quiet = FALSE /\ rate = Relay /\ floor = Relay /\ candidates = {} /\ tip.end = Root /\ index.end = Root /\ end = Nowhere
  BY DEF Init
<1>2. MempoolIsGraph
  <2>1. /\ Children \in [mempool -> SUBSET mempool] /\ ParentsOf \in [mempool -> SUBSET mempool]
        /\ Opposite(Children, ParentsOf)
    BY GraphTypes
  <2>2. NoCycle(ParentsOf) /\ Limited(Children) /\ Limited(ParentsOf)
    BY <1>1, <2>1 DEF NoCycle, Limited
  <2> QED BY <1>1, <2>1, <2>2, FS_EmptySet DEF MempoolIsGraph, IsMempoolGraph
<1>3. NamesKnown /\ SpentOnce
  BY <1>1 DEF NamesKnown, SpentOnce
<1>4. EndsMined
  BY <1>1 DEF EndsMined, IsMined, Root, Nowhere, Convert
<1>5. PhaseOK
  BY <1>1 DEF PhaseOK, Before, Testing, Looking
<1>6. FoundOK
  BY <1>1, EmptyIsSequence DEF FoundOK, FoundKnown, AtIsNext, FoundInMempool, ChainIsWhole, Chosen, Looking
<1>7. SearchOK
  BY <1>1 DEF SearchOK, RateStarts, RawIsMempool, SoughtIsKnown, SoughtIsFound, Before, Testing, Looking
<1>8. FloorOK
  BY <1>1, RelayFee DEF FloorOK, FloorKnown, OwnKnown, NobodyYet, FloorSeen
<1> QED BY <1>2, <1>3, <1>4, <1>5, <1>6, <1>7, <1>8 DEF Inv, NodeInvariant

LEMMA NextInv == Inv /\ [Next]_vars => Inv'
<1> SUFFICES ASSUME Inv, [Next]_vars PROVE Inv'
  OBVIOUS
<1>1. CASE Next
  BY <1>1, NodeKept, PhaseKept, FoundKept, SearchKept, FloorKept DEF Inv, SearchOK
<1>2. CASE UNCHANGED vars
  <2>1. Quietly /\ phase' = phase /\ lookupVars' = lookupVars /\ floor' = floor
    BY <1>2 DEF vars, nodeVars, Quietly
  <2>2. NodeInvariant'
    BY <2>1, NodeAsBefore DEF Inv, Quietly, lookupVars
  <2>3. PhaseOK'
    BY <2>1 DEF Inv, Quietly, lookupVars, PhaseOK
  <2>4. FoundOK'
    BY <2>1, FoundStays DEF Inv, Quietly, lookupVars
  <2>5. SearchOK'
    BY <2>1, SearchStays DEF Inv, Quietly, lookupVars
  <2>6. FloorOK'
    BY <2>1 DEF Inv, Quietly, lookupVars, FloorOK, FloorKnown, OwnKnown, NobodyYet, FloorSeen
  <2> QED BY <2>2, <2>3, <2>4, <2>5, <2>6 DEF Inv
<1> QED BY <1>1, <1>2

\* What is said of the mempool, the search and the places holds in every state.
THEOREM Invariance == Spec => []Inv
BY InitInv, NextInv, PTL DEF Spec

LEMMA WholeFollows == Inv => WholeChainIsFound
BY DEF Inv, FoundOK, ChainIsWhole, WholeChainIsFound, Looking

LEMMA SpenderFollows == Inv => SpenderIsFound
BY DEF Inv, SearchOK, SoughtIsFound, Sought, SpenderIsFound, Looking

LEMMA ReplacementFollows == Inv => ReplacementIsTaken
<1> SUFFICES ASSUME Inv, phase = "send", quiet, draft.place < draft.deepest,
                    Tx(found[draft.place].name).rbf
             PROVE  Verdict(Conversion).why = "accepted"
  BY DEF ReplacementIsTaken
<1> DEFINE p == draft.place
           f == found[p].name
           t == Conversion
           fee == FeeAt(command.rate, OwnSize)
<1>0. NodeInvariant /\ DOMAIN own = {} /\ FoundOK
  BY DEF Inv, PhaseOK
<1>13. p \in DOMAIN found => floor = Relay
  <2>1. found = << >> => DOMAIN found = {}
    BY EmptyIsSequence
  <2> QED BY <2>1 DEF Inv, FloorOK, FloorSeen
<1>1. command \in Commands /\ p \in DOMAIN found /\ Replaceable(command, p)
  <2>1. Len(found) \in Nat /\ DOMAIN found = 1..Len(found)
    BY <1>0, PlacesKnown DEF FoundOK
  <2>2. /\ command \in Commands
        /\ draft.place \in 1..(Len(found) + 1) /\ draft.deepest \in 1..(Len(found) + 1)
        /\ \A j \in draft.place..(draft.deepest - 1) : Replaceable(command, j)
    BY <1>0 DEF FoundOK, Chosen
  <2>3. draft.place \in draft.place..(draft.deepest - 1)
    BY <2>2
  <2> QED BY <2>1, <2>2, <2>3
<1>2. f \in mempool /\ found[p].entry = Entry(f) /\ Place(p) \in Tx(f).inputs
  BY <1>0, <1>1 DEF FoundOK, FoundInMempool, Looking
<1>3. t.inputs = {Place(p), Coin} /\ t.fee = fee /\ t.size = OwnSize
  BY DEF Conversion
<1>4. Entry(f).rate = RateOf(Tx(f)) /\ Entry(f).descendantFee = Fees(Descendants({f}))
  BY DEF Entry
<1>5. command.rate \in Nat /\ OwnSize \in Nat /\ Relay \in Nat
  BY <1>1, CommandAssumption, SizeAssumption DEF Relay
<1>6. fee \in Nat /\ FeeAt(Relay, OwnSize) \in Nat
  BY <1>5, FeeType
<1>7. RateOf(t) = (fee * 1000) \div OwnSize
  BY <1>3 DEF RateOf
<1>8. (fee * 1000) \div OwnSize > Entry(f).rate /\ fee >= Entry(f).descendantFee + FeeAt(Relay, OwnSize)
  BY <1>1, <1>2 DEF Replaceable, Outbids
<1> HIDE DEF fee, t, f, p
<1>9. ~(RateOf(t) <= RateOf(Tx(f)))
  <2>1. OwnSize \in Nat \ {0} /\ fee * 1000 \in Nat
    BY <1>6, SizeAssumption
  <2>2. (fee * 1000) \div OwnSize \in Nat
    BY <2>1, Quotient
  <2>3. Tx(f).fee \in Nat \ {0} /\ Tx(f).size \in Nat \ {0}
    BY <1>0, <1>2, OthersOnly
  <2>4. RateOf(Tx(f)) \in Nat
    BY <2>3, Quotient DEF RateOf
  <2> DEFINE a == RateOf(t)
             b == RateOf(Tx(f))
  <2>5. a \in Nat /\ b \in Nat /\ a > b
    BY <2>2, <2>4, <1>4, <1>7, <1>8
  <2> HIDE DEF a, b
  <2>6. ~(a <= b)
    BY <2>5
  <2> QED BY <2>6 DEF a, b
<1>10. t.fee \in Nat /\ FeeAt(Relay, t.size) \in Nat
       /\ t.fee >= Fees(Descendants({f})) + FeeAt(Relay, t.size)
  BY <1>3, <1>4, <1>6, <1>8
<1>11. Tx(f).rbf
  BY DEF f, p
<1>14. ~Cheap(t)
  <2>1. Fees(Descendants({f})) \in Nat
    BY <1>0, <1>2, FeesIs
  <2> QED BY <2>1, <1>1, <1>10, <1>13 DEF Cheap
<1>12. Verdict(t).why = "accepted"
  BY <1>0, <1>2, <1>3, <1>9, <1>10, <1>11, <1>14, ReplacementAccepted
<1> QED BY <1>12 DEF t

(***************************************************************************)
(* A chain that is found is the whole chain (find_conversion_chain).       *)
(***************************************************************************)
THEOREM WholeChain == Spec => []WholeChainIsFound
BY Invariance, WholeFollows, PTL

(***************************************************************************)
(* The fees in the errors lead to the transaction on the end of the chain  *)
(* (convert.rs:848-896), whatever else is in the mempool, while the        *)
(* mempool asks for no more than the relay fee.                            *)
(***************************************************************************)
THEOREM SpenderFound == Spec => []SpenderIsFound
BY Invariance, SpenderFollows, PTL

(***************************************************************************)
(* What the wallet expects to be able to replace, the mempool lets it      *)
(* replace (convert.rs:1026-1034).                                         *)
(***************************************************************************)
THEOREM ReplacementTaken == Spec => []ReplacementIsTaken
BY Invariance, ReplacementFollows, PTL

-----------------------------------------------------------------------------
(* The transactions of the chain, parents first. *)

\* No set of names has only transactions that spend within it.
Acyclic(S) == \A T \in SUBSET S : T # {} => \E n \in T : \A o \in Tx(n).inputs : o.tx \notin T
ParentsFirst(list) ==
  \A i, j \in DOMAIN list : i < j => \A o \in Tx(list[i]).inputs : o.tx # list[j]

LEMMA OrderExists ==
  ASSUME NEW S, IsFiniteSet(S), Acyclic(S)
  PROVE  \E list \in SetToSeqs(S) : ParentsFirst(list)
<1> DEFINE Ordered(T) == \E list \in SetToSeqs(T) : ParentsFirst(list)
           Bad == {k \in Nat : \E T \in SUBSET S : Cardinality(T) = k /\ ~Ordered(T)}
<1>1. SUFFICES ASSUME Bad # {} PROVE FALSE
  <2>1. Cardinality(S) \in Nat /\ S \in SUBSET S
    BY FS_CardinalityType
  <2> QED BY <2>1
<1>2. PICK k \in Bad : \A m \in Bad : k <= m
  <2>1. Bad \in SUBSET Nat
    OBVIOUS
  <2> HIDE DEF Bad
  <2> QED BY <1>1, <2>1, LeastNatural
<1>3. PICK T \in SUBSET S : Cardinality(T) = k /\ ~Ordered(T)
  BY <1>2
<1>4. k \in Nat /\ IsFiniteSet(T)
  BY <1>2, FS_Subset
<1>5. T # {}
  <2> SUFFICES ASSUME T = {} PROVE FALSE
    OBVIOUS
  <2>1. Cardinality(T) = 0
    BY FS_EmptySet
  <2> DEFINE list == [i \in 1..0 |-> 0]
  <2>2. list \in [1..0 -> T] /\ DOMAIN list = {}
    OBVIOUS
  <2>3. list \in SetToSeqs(T) /\ ParentsFirst(list)
    BY <2>1, <2>2 DEF SetToSeqs, ParentsFirst
  <2> QED BY <1>3, <2>3
<1>6. PICK n \in T : \A o \in Tx(n).inputs : o.tx \notin T
  BY <1>5 DEF Acyclic
<1> DEFINE U == T \ {n}
<1>7. Cardinality(U) = k - 1 /\ k - 1 \in Nat
  <2>1. IsFiniteSet(U) /\ Cardinality(U) = k - 1
    BY <1>3, <1>4, FS_RemoveElement
  <2>2. Cardinality(U) \in Nat
    BY <2>1, FS_CardinalityType
  <2> QED BY <2>1, <2>2
<1>8. Ordered(U)
  <2>1. U \in SUBSET S /\ k - 1 \notin Bad
    BY <1>2, <1>4, <1>7
  <2> QED BY <2>1, <1>7
<1>9. PICK l \in SetToSeqs(U) : ParentsFirst(l)
  BY <1>8
<1>10. /\ l \in [1..(k - 1) -> U] /\ DOMAIN l = 1..(k - 1)
       /\ \A i, j \in 1..(k - 1) : i # j => l[i] # l[j]
       /\ \A i, j \in 1..(k - 1) : i < j => \A o \in Tx(l[i]).inputs : o.tx # l[j]
  BY <1>7, <1>9 DEF SetToSeqs, ParentsFirst
<1> DEFINE list == [i \in 1..k |-> IF i = 1 THEN n ELSE l[i - 1]]
<1>11. \A i \in 1..k : i # 1 => i - 1 \in 1..(k - 1)
  BY <1>4
<1>12. list \in [1..k -> T]
  BY <1>10, <1>11
<1>13. ASSUME NEW i \in 1..k, NEW j \in 1..k, i # j PROVE list[i] # list[j]
  <2>1. CASE i = 1 \/ j = 1
    BY <2>1, <1>10, <1>11, <1>13
  <2>2. CASE i # 1 /\ j # 1
    <3>1. i - 1 \in 1..(k - 1) /\ j - 1 \in 1..(k - 1) /\ i - 1 # j - 1
      BY <1>11, <1>13, <2>2
    <3> QED BY <3>1, <1>10, <2>2
  <2> QED BY <2>1, <2>2
<1>14. ASSUME NEW i \in 1..k, NEW j \in 1..k, i < j, NEW o \in Tx(list[i]).inputs PROVE o.tx # list[j]
  <2>1. CASE i = 1
    <3>1. list[i] = n /\ list[j] \in T
      BY <2>1, <1>12
    <3> QED BY <3>1, <1>6, <1>14
  <2>2. CASE i # 1
    <3>1. i - 1 \in 1..(k - 1) /\ j - 1 \in 1..(k - 1) /\ i - 1 < j - 1 /\ j # 1
      BY <1>11, <1>14, <2>2
    <3>2. list[i] = l[i - 1] /\ list[j] = l[j - 1]
      BY <3>1, <2>2
    <3> HIDE DEF list
    <3> QED BY <3>1, <3>2, <1>10, <1>14
  <2> QED BY <2>1, <2>2
<1>15. DOMAIN list = 1..k
  OBVIOUS
<1> HIDE DEF list
<1>16. list \in SetToSeqs(T) /\ ParentsFirst(list)
  BY <1>3, <1>12, <1>13, <1>14, <1>15 DEF SetToSeqs, ParentsFirst
<1> QED BY <1>3, <1>16

\* A list of a set has all of it.
LEMMA ListHasAll ==
  ASSUME NEW S, IsFiniteSet(S), NEW list \in SetToSeqs(S)
  PROVE  /\ Cardinality(S) \in Nat
         /\ list \in [1..Cardinality(S) -> S]
         /\ \A i, j \in 1..Cardinality(S) : i # j => list[i] # list[j]
         /\ \A x \in S : \E i \in 1..Cardinality(S) : list[i] = x
<1> DEFINE D == 1..Cardinality(S)
<1>1. Cardinality(S) \in Nat /\ list \in [D -> S] /\ \A i, j \in D : i # j => list[i] # list[j]
  BY FS_CardinalityType DEF SetToSeqs
<1>2. IsFiniteSet(D) /\ Cardinality(D) = Cardinality(S)
  BY <1>1, FS_Interval
<1>3. list \in Injection(D, S)
  BY <1>1 DEF Injection, IsInjective
<1> HIDE DEF D
<1>4. list \in Surjection(D, S)
  BY <1>2, <1>3, FS_Injection
<1>5. \A x \in S : \E i \in D : list[i] = x
  BY <1>4 DEF Surjection
<1> QED BY <1>1, <1>5 DEF D

\* The chain after each transaction of a list.
IsReached(R, chain, list, n) ==
  R = [i \in 0..n |-> IF i = 0 THEN chain ELSE After(R[i - 1], list[i])]

LEMMA ReachedExists ==
  ASSUME NEW chain, NEW list, NEW n \in Nat
  PROVE  \E R : IsReached(R, chain, list, n)
<1> DEFINE Bad == {k \in Nat : ~\E R : IsReached(R, chain, list, k)}
<1>1. SUFFICES ASSUME Bad # {} PROVE FALSE
  OBVIOUS
<1>2. PICK k \in Bad : \A m \in Bad : k <= m
  <2>1. Bad \in SUBSET Nat
    OBVIOUS
  <2> HIDE DEF Bad
  <2> QED BY <1>1, <2>1, LeastNatural
<1>3. k \in Nat /\ ~\E R : IsReached(R, chain, list, k)
  BY <1>2
<1>4. CASE k = 0
  <2> DEFINE R == [i \in 0..0 |-> chain]
  <2>1. R = [i \in 0..0 |-> IF i = 0 THEN chain ELSE After(R[i - 1], list[i])]
    OBVIOUS
  <2>2. IsReached(R, chain, list, k)
    BY <2>1, <1>4 DEF IsReached
  <2> QED BY <2>2, <1>3
<1>5. CASE k # 0
  <2>1. k - 1 \in Nat /\ ~(k <= k - 1)
    BY <1>3, <1>5
  <2>2. PICK Q : IsReached(Q, chain, list, k - 1)
    BY <1>2, <2>1
  <2> DEFINE R == [i \in 0..k |-> IF i = k THEN After(Q[k - 1], list[k]) ELSE Q[i]]
  <2>3. \A i \in 0..(k - 1) : Q[i] = IF i = 0 THEN chain ELSE After(Q[i - 1], list[i])
    BY <2>2 DEF IsReached
  <2>4. ASSUME NEW i \in 0..k PROVE R[i] = IF i = 0 THEN chain ELSE After(R[i - 1], list[i])
    <3>1. CASE i = k
      <4>1. k - 1 \in 0..k /\ k - 1 # k
        BY <2>1, <1>3
      <4>2. R[k - 1] = Q[k - 1] /\ R[i] = After(Q[k - 1], list[k])
        BY <4>1, <3>1
      <4> HIDE DEF R
      <4> QED BY <4>2, <3>1, <1>5
    <3>2. CASE i # k
      <4>1. i \in 0..(k - 1) /\ R[i] = Q[i]
        BY <3>2, <1>3
      <4>2. i # 0 => i - 1 \in 0..k /\ i - 1 # k /\ R[i - 1] = Q[i - 1]
        BY <3>2, <1>3
      <4> HIDE DEF R
      <4> QED BY <4>1, <4>2, <2>3
    <3> QED BY <3>1, <3>2
  <2>5. R = [i \in 0..k |-> R[i]]
    OBVIOUS
  <2> HIDE DEF R
  <2>6. R = [i \in 0..k |-> IF i = 0 THEN chain ELSE After(R[i - 1], list[i])]
    BY <2>4, <2>5
  <2> QED BY <2>6, <1>3 DEF IsReached
<1> QED BY <1>4, <1>5

\* What is reached does not depend on what comes later in the list.
LEMMA ReachedAgree ==
  ASSUME NEW chain, NEW l, NEW m, NEW a \in Nat, NEW b \in Nat, a <= b,
         \A i \in 1..a : l[i] = m[i],
         NEW Q, NEW R, IsReached(Q, chain, l, a), IsReached(R, chain, m, b)
  PROVE  Q[a] = R[a]
<1> DEFINE Bad == {k \in Nat : k <= a /\ Q[k] # R[k]}
<1>1. SUFFICES ASSUME Bad # {} PROVE FALSE
  OBVIOUS
<1>2. PICK k \in Bad : \A i \in Bad : k <= i
  <2>1. Bad \in SUBSET Nat
    OBVIOUS
  <2> HIDE DEF Bad
  <2> QED BY <1>1, <2>1, LeastNatural
<1>3. k \in 0..a /\ k \in 0..b /\ Q[k] # R[k]
  BY <1>2
<1>4. Q[k] = IF k = 0 THEN chain ELSE After(Q[k - 1], l[k])
  BY <1>3 DEF IsReached
<1>5. R[k] = IF k = 0 THEN chain ELSE After(R[k - 1], m[k])
  BY <1>3 DEF IsReached
<1>6. k # 0 => k - 1 \in Nat /\ k - 1 <= a /\ ~(k <= k - 1)
  BY <1>3
<1>7. k # 0 => Q[k - 1] = R[k - 1] /\ l[k] = m[k]
  BY <1>2, <1>3, <1>6
<1> QED BY <1>3, <1>4, <1>5, <1>7

LEMMA AfterAllIs ==
  ASSUME NEW chain, NEW list, Len(list) \in Nat
  PROVE  \E R : IsReached(R, chain, list, Len(list)) /\ AfterAll(chain, list) = R[Len(list)]
<1> DEFINE R == CHOOSE R : R = [i \in 0..Len(list) |-> IF i = 0 THEN chain ELSE After(R[i - 1], list[i])]
<1>1. R = [i \in 0..Len(list) |-> IF i = 0 THEN chain ELSE After(R[i - 1], list[i])]
  <2>1. PICK Q : IsReached(Q, chain, list, Len(list))
    BY ReachedExists
  <2>2. \E F : F = [i \in 0..Len(list) |-> IF i = 0 THEN chain ELSE After(F[i - 1], list[i])]
    BY <2>1, Zenon DEF IsReached
  <2> QED BY <2>2, Zenon
<1>2. AfterAll(chain, list) = R[Len(list)]
  BY DEF AfterAll
<1> HIDE DEF R
<1> QED BY <1>1, <1>2 DEF IsReached

\* What is found is a path by what each transaction spends, wherever they are.
FoundPath ==
  \A i \in DOMAIN found :
    /\ Place(i) \in Tx(found[i].name).inputs
    /\ \A m \in found[i].entry.depends : \E o \in Tx(found[i].name).inputs : o.tx = m
    /\ i # Len(found) => Tx(found[i].name).leaves

\* A is a set of transactions that could all be in blocks.
Consistent(A) ==
  /\ A \subseteq DOMAIN Pool \cup DOMAIN own
  /\ \A n \in A : \A o \in Tx(n).inputs : o.tx \in A \cup {"root"}
  /\ \A m, n \in A : m # n => Tx(m).inputs \cap Tx(n).inputs = {}
  /\ Acyclic(A)

\* The chain before each place, and after the last, in the block after the chain.
IsPath(c, chain) ==
  c[1] = Issued(chain) /\ \A i \in DOMAIN found : c[i + 1] = After(c[i], found[i].name)
IsChain(x) == x = [supply |-> x.supply, end |-> x.end, height |-> x.height]

LEMMA AfterIs ==
  ASSUME NEW x, NEW n
  PROVE  /\ IsChain(After(x, n))
         /\ IsChain(x) /\ x.end \notin Tx(n).inputs => After(x, n) = x
         /\ x.end \in Tx(n).inputs => After(x, n).end = IF Tx(n).leaves THEN Convert(n) ELSE Nowhere
         /\ x.end \notin Tx(n).inputs => After(x, n).end = x.end
         /\ After(x, n).height = x.height
<1>1. IsChain(After(x, n)) /\ After(x, n).height = x.height
  BY DEF IsChain, After
<1>2. ASSUME IsChain(x), x.end \notin Tx(n).inputs PROVE After(x, n) = x
  BY <1>2 DEF IsChain, After, Converts
<1>3. After(x, n).end = IF x.end \notin Tx(n).inputs THEN x.end
                        ELSE IF Tx(n).leaves THEN Convert(n) ELSE Nowhere
  BY DEF After
<1> QED BY <1>1, <1>2, <1>3

\* Where a name is in a list.
LEMMA PositionIs ==
  ASSUME NEW list, Len(list) \in Nat, NEW k \in 1..Len(list)
  PROVE  /\ Position(list, list[k]) \in 1..Len(list)
         /\ list[Position(list, list[k])] = list[k]
<1> DEFINE x == list[k]
           I == {i \in 1..Len(list) : list[i] = x}
<1>1. I # {} /\ I \in SUBSET Nat
  OBVIOUS
<1>2. Position(list, x) = Min(I)
  BY <1>1 DEF Position, SelectInSeq
<1>3. Min(I) \in I
  <2> HIDE DEF I
  <2> QED BY <1>1, LeastIs
<1> QED BY <1>2, <1>3

LEMMA PositionOfAll ==
  ASSUME NEW S, IsFiniteSet(S), NEW list \in SetToSeqs(S), NEW y \in S
  PROVE  Position(list, y) \in 1..Cardinality(S) /\ list[Position(list, y)] = y
<1> DEFINE N == Cardinality(S)
<1>1. /\ N \in Nat /\ list \in [1..N -> S]
      /\ \E i \in 1..N : list[i] = y
  BY ListHasAll
<1> HIDE DEF N
<1>2. Len(list) = N
  BY <1>1
<1>3. PICK k \in 1..Len(list) : list[k] = y
  BY <1>1, <1>2
<1>4. /\ Position(list, list[k]) \in 1..Len(list)
      /\ list[Position(list, list[k])] = list[k]
  BY <1>1, <1>2, PositionIs
<1> QED BY <1>2, <1>3, <1>4 DEF N

LEMMA PrefixReached ==
  ASSUME NEW N \in Nat, NEW S, NEW list \in [1..N -> S], NEW p \in 1..N, NEW x,
         NEW R, IsReached(R, x, list, N)
  PROVE  AfterAll(x, SubSeq(list, 1, p)) = R[p]
<1> DEFINE sub == SubSeq(list, 1, p)
<1>1. list \in Seq(S) /\ Len(list) = N
  OBVIOUS
<1>2. Len(sub) = p /\ \A i \in 1..p : sub[i] = list[i]
  BY <1>1
<1> HIDE DEF sub
<1>3. PICK Q : IsReached(Q, x, sub, p) /\ AfterAll(x, sub) = Q[p]
  BY <1>2, AfterAllIs
<1>4. p \in Nat /\ p <= N
  OBVIOUS
<1>5. Q[p] = R[p]
  BY <1>2, <1>3, <1>4, ReachedAgree
<1> QED BY <1>3, <1>5 DEF sub

\* The supplies that are simulated are those along the path.
LEMMA BlockFollows ==
  ASSUME FoundKnown, FoundPath, NEW A, Consistent(A), NEW S \in SUBSET A, IsFiniteSet(S),
         FoundNames \subseteq S, NEW list \in SetToSeqs(S), ParentsFirst(list),
         NEW X, NEW x, x = Issued(X), IsChain(x), x.end = end
  PROVE  \E c : /\ IsPath(c, X)
                /\ \A k \in DOMAIN found :
                     AfterAll(x, SubSeq(list, 1, Position(list, found[k].name))) = c[k + 1]
<1> DEFINE N == Cardinality(S)
           K == Len(found)
           g(k) == found[k].name
           pos == [k \in 1..K |-> Position(list, found[k].name)]
<1>1. K \in Nat /\ DOMAIN found = 1..K
  BY PlacesKnown
<1>2. /\ N \in Nat /\ list \in [1..N -> S]
      /\ \A i, j \in 1..N : i # j => list[i] # list[j]
      /\ \A m \in S : \E i \in 1..N : list[i] = m
      /\ DOMAIN list = 1..N
  BY ListHasAll
<1> HIDE DEF N, K
<1>3. ASSUME NEW k \in 1..K PROVE pos[k] \in 1..N /\ list[pos[k]] = g(k) /\ g(k) \in A
  <2>1. g(k) \in S
    BY <1>1 DEF FoundNames
  <2>2. \E i \in 1..N : list[i] = g(k)
    BY <2>1, <1>2
  <2>3. /\ Position(list, g(k)) \in 1..N
        /\ list[Position(list, g(k))] = g(k)
    <3> DEFINE y == g(k)
    <3>1. y \in S
      BY <2>1
    <3> HIDE DEF y
    <3>2. Position(list, y) \in 1..Cardinality(S) /\ list[Position(list, y)] = y
      BY <3>1, PositionOfAll
    <3> QED BY <3>2 DEF y, N
  <2> QED BY <2>1, <2>3
<1>4. ASSUME NEW k \in 1..K, k + 1 \in 1..K PROVE pos[k] < pos[k + 1]
  <2>1. Place(k + 1) = Convert(g(k))
    BY <1>1, <1>4 DEF Place
  <2>2. Convert(g(k)) \in Tx(g(k + 1)).inputs /\ Convert(g(k)).tx = g(k)
    BY <1>1, <1>4, <2>1 DEF FoundPath, Convert
  <2>3. pos[k] \in 1..N /\ list[pos[k]] = g(k) /\ pos[k + 1] \in 1..N /\ list[pos[k + 1]] = g(k + 1) /\ g(k) \in A
    BY <1>3, <1>4
  <2>4. ~(pos[k + 1] < pos[k])
    BY <2>2, <2>3, <1>2 DEF ParentsFirst
  <2>5. pos[k] # pos[k + 1]
    <3> SUFFICES ASSUME g(k) = g(k + 1) PROVE FALSE
      BY <2>3
    <3>1. {g(k)} \in SUBSET A /\ {g(k)} # {}
      BY <2>3
    <3>2. \A o \in Tx(g(k)).inputs : o.tx \notin {g(k)}
      BY <3>1 DEF Consistent, Acyclic
    <3> QED BY <3>2, <2>2
  <2> HIDE DEF pos
  <2> QED BY <2>3, <2>4, <2>5
<1> HIDE DEF pos
<1>5. PICK R : IsReached(R, x, list, N)
  BY <1>2, ReachedExists
<1>6. R[0] = x /\ \A i \in 1..N : R[i] = After(R[i - 1], list[i])
  BY <1>2, <1>5 DEF IsReached
<1> DEFINE c == [k \in 1..(K + 1) |-> IF k = 1 THEN x ELSE R[pos[k - 1]]]
           low(k) == IF k = 1 THEN 0 ELSE pos[k - 1]
           Good(k) == IsChain(c[k]) /\ c[k].end = Place(k) /\ c[k + 1] = After(c[k], g(k))
\* What comes between two places leaves the chain.
<1>7. ASSUME NEW k \in 1..K, IsChain(c[k]), c[k].end = Place(k)
      PROVE  c[k + 1] = After(c[k], g(k))
  <2> DEFINE y == c[k]
             Bad == {i \in Nat : low(k) <= i /\ i < pos[k] /\ R[i] # y}
  <2>1. R[low(k)] = y
    BY <1>6, <1>7, <1>1
  <2>2. low(k) \in Nat /\ low(k) < pos[k] /\ pos[k] \in 1..N
    <3>1. pos[k] \in 1..N
      BY <1>3
    <3>2. CASE k = 1
      BY <3>1, <3>2
    <3>3. CASE k # 1
      <4>1. k - 1 \in 1..K /\ (k - 1) + 1 = k
        BY <3>3, <1>1
      <4>2. pos[k - 1] < pos[k] /\ pos[k - 1] \in 1..N
        BY <4>1, <1>3, <1>4
      <4> QED BY <4>2, <3>3, <3>1
    <3> QED BY <3>2, <3>3
  <2> HIDE DEF c, y, low
  <2>3. Bad = {}
    <3> SUFFICES ASSUME Bad # {} PROVE FALSE
      OBVIOUS
    <3>1. PICK i \in Bad : \A j \in Bad : i <= j
      <4>1. Bad \in SUBSET Nat
        OBVIOUS
      <4> HIDE DEF Bad
      <4> QED BY <4>1, LeastNatural
    <3>2. i \in Nat /\ low(k) < i /\ i < pos[k] /\ R[i] # y
      BY <3>1, <2>1, <2>2
    <3>3. i \in 1..N /\ i - 1 \in Nat /\ low(k) <= i - 1 /\ i - 1 < pos[k] /\ ~(i <= i - 1)
      BY <3>2, <2>2, <1>2
    <3>4. R[i - 1] = y
      BY <3>1, <3>3
    <3>5. R[i] = After(y, list[i])
      BY <3>3, <3>4, <1>6
    <3>6. list[i] \in A /\ list[i] # g(k)
      <4>1. pos[k] \in 1..N /\ list[pos[k]] = g(k) /\ i # pos[k]
        BY <1>3, <3>2, <3>3
      <4> QED BY <4>1, <3>3, <1>2
    <3>7. y.end \notin Tx(list[i]).inputs
      <4>1. y.end \in Tx(g(k)).inputs /\ g(k) \in A
        BY <1>1, <1>3, <1>7 DEF FoundPath, y
      <4> QED BY <4>1, <3>6 DEF Consistent
    <3> QED BY <3>2, <3>5, <3>7, <1>7, AfterIs DEF y
  <2>4. R[pos[k] - 1] = y
    <3>1. pos[k] - 1 \in Nat /\ low(k) <= pos[k] - 1 /\ pos[k] - 1 < pos[k]
      BY <2>2
    <3> QED BY <3>1, <2>3
  <2>5. R[pos[k]] = After(y, g(k))
    BY <2>2, <2>4, <1>3, <1>6
  <2>6. c[k + 1] = R[pos[k]]
    BY <1>1 DEF c
  <2> QED BY <2>5, <2>6 DEF y
<1>8. \A k \in 1..K : Good(k)
  <2> DEFINE Bad == {k \in Nat : k \in 1..K /\ ~Good(k)}
  <2> SUFFICES ASSUME Bad # {} PROVE FALSE
    <3> HIDE DEF c
    <3> QED BY <1>1
  <2>1. PICK k \in Bad : \A j \in Bad : k <= j
    <3>1. Bad \in SUBSET Nat
      OBVIOUS
    <3> HIDE DEF Bad
    <3> QED BY <3>1, LeastNatural
  <2>2. k \in 1..K /\ ~Good(k)
    BY <2>1
  <2>3. CASE k = 1
    <3>1. c[1] = x /\ Place(1) = end
      BY <1>1 DEF Place
    <3> HIDE DEF c
    <3> QED BY <3>1, <2>2, <2>3, <1>7
  <2>4. CASE k # 1
    <3>1. k - 1 \in Nat /\ k - 1 \in 1..K /\ ~(k <= k - 1) /\ (k - 1) + 1 = k
      BY <2>2, <2>4, <1>1
    <3> HIDE DEF c
    <3>2. Good(k - 1)
      BY <2>1, <3>1
    <3>3. c[k] = After(c[k - 1], g(k - 1)) /\ c[k - 1].end = Place(k - 1)
      BY <3>1, <3>2
    <3>4. Place(k - 1) \in Tx(g(k - 1)).inputs /\ Tx(g(k - 1)).leaves /\ Place(k) = Convert(g(k - 1))
      BY <3>1, <2>4, <1>1 DEF FoundPath, Place, K
    <3>5. IsChain(c[k]) /\ c[k].end = Place(k)
      BY <3>3, <3>4, AfterIs
    <3> QED BY <3>5, <2>2, <1>7
  <2> QED BY <2>3, <2>4
<1>9. c[1] = Issued(X)
  <2>1. c[1] = x
    BY <1>1
  <2> HIDE DEF c
  <2> QED BY <2>1
<1>10. ASSUME NEW k \in 1..K
       PROVE  AfterAll(x, SubSeq(list, 1, Position(list, found[k].name))) = c[k + 1]
  <2>0. pos[k] \in 1..N
    BY <1>3
  <2>1. c[k + 1] = R[pos[k]] /\ pos[k] \in 1..N
    <3>1. k + 1 \in 1..(K + 1) /\ k + 1 # 1 /\ (k + 1) - 1 = k
      BY <1>1
    <3>2. c[k + 1] = R[pos[k]]
      BY <3>1
    <3> QED BY <3>2, <2>0
  <2>2. AfterAll(x, SubSeq(list, 1, pos[k])) = R[pos[k]]
    <3> DEFINE p == pos[k]
    <3>1. N \in Nat /\ list \in [1..N -> S] /\ p \in 1..N /\ IsReached(R, x, list, N)
      BY <2>1, <1>2, <1>5
    <3> HIDE DEF p
    <3>2. AfterAll(x, SubSeq(list, 1, p)) = R[p]
      BY <3>1, PrefixReached
    <3> QED BY <3>2 DEF p
  <2> QED BY <2>1, <2>2 DEF pos
<1> HIDE DEF c
<1>11. IsPath(c, X)
  BY <1>1, <1>8, <1>9 DEF IsPath
<1> QED BY <1>1, <1>10, <1>11

-----------------------------------------------------------------------------
(***************************************************************************)
(* The inductive invariant: the chain in the blocks.                       *)
(***************************************************************************)
IsSupply(s) == s = [r \in Rune |-> s[r]]
IsState(x) == IsChain(x) /\ IsSupply(x.supply) /\ x.height \in Nat

\* The chain goes on from x to the tip, one reward or transaction at a time, and
\* with a reward first.
Moves(n, a, b) ==
  \/ b = Issued(a)
  \/ n \in mined /\ a.end \in Tx(n).inputs /\ b = After(a, n)
IsRoute(c, p, k, x) ==
  /\ k \in Nat /\ c[0] = x /\ c[k] = tip
  /\ \A i \in 1..k : Moves(p[i], c[i - 1], c[i])
  /\ k # 0 => c[1] = Issued(x)
  /\ mining => k # 0
Follows(x) == \E c, p, k : IsRoute(c, p, k, x)

MinedOrdered == Acyclic(mined)
TipUnspent == \A n \in mined : tip.end \notin Tx(n).inputs
StatesKnown == \A x \in seen \cup {index, tip} : IsState(x)
TipFollows == \A x \in seen \cup {index} : Follows(x)
ChainInvariant == MinedOrdered /\ TipUnspent /\ StatesKnown /\ TipFollows

\* What is known of a transaction stays.
LEMMA TxStays ==
  ASSUME PhaseOK, Next
  PROVE  /\ \A m \in DOMAIN Pool \cup DOMAIN own : Tx(m)' = Tx(m)
         /\ DOMAIN own \subseteq DOMAIN own'
<1>1. \/ own' = own
      \/ DOMAIN own = {} /\ DOMAIN own' = {"test"}
      \/ "convert" \notin DOMAIN own
         /\ own' = [n \in DOMAIN own \cup {"convert"} |-> IF n = "convert" THEN Conversion ELSE own[n]]
  <2>1. CASE Outside
    BY <2>1, OutsideIs
  <2>2. CASE Asking
    BY <2>2, AskingIsQuiet DEF Quietly
  <2>3. CASE ReadMempool
    BY <2>3 DEF ReadMempool, nodeVars
  <2>4. CASE TestSent
    BY <2>4 DEF TestSent, PhaseOK, Testing
  <2>5. CASE Send
    BY <2>5 DEF Send, Request, PhaseOK
  <2> QED BY <2>1, <2>2, <2>3, <2>4, <2>5 DEF Next, Lookup, LookupStep, Asking, Outside
<1>2. CASE own' = own
  BY <1>2 DEF Tx
<1>3. CASE DOMAIN own = {} /\ DOMAIN own' = {"test"}
  BY <1>3, NamesDisjoint DEF Tx, OwnNames
<1>4. CASE /\ "convert" \notin DOMAIN own
           /\ own' = [n \in DOMAIN own \cup {"convert"} |-> IF n = "convert" THEN Conversion ELSE own[n]]
  <2>1. \A m \in DOMAIN own : m \in DOMAIN own' /\ own'[m] = own[m]
    BY <1>4
  <2>2. \A m \in DOMAIN Pool : m \in DOMAIN own' <=> m \in DOMAIN own
    BY <1>4, NamesDisjoint DEF OwnNames
  <2> QED BY <2>1, <2>2 DEF Tx
<1> QED BY <1>1, <1>2, <1>3, <1>4

LEMMA AfterStays ==
  ASSUME NEW x, NEW n, Tx(n)' = Tx(n)
  PROVE  After(x, n)' = After(x, n)
<1>1. Converts(x, Tx(n)') = Converts(x, Tx(n))
  OBVIOUS
<1> QED BY <1>1 DEF After, Converts

LEMMA AfterIsState ==
  ASSUME NEW x, IsState(x), NEW n
  PROVE  IsState(After(x, n))
<1>1. IsChain(After(x, n))
  BY AfterIs
<1>2. DOMAIN x.supply = Rune
  BY DEF IsState, IsSupply
<1>3. ASSUME NEW s, IsSupply(s), NEW r, NEW v PROVE IsSupply([s EXCEPT ![r] = v])
  <2>1. DOMAIN s = Rune
    BY <1>3 DEF IsSupply
  <2> QED BY <1>3, <2>1 DEF IsSupply
<1>7. After(x, n).height \in Nat
  BY AfterIs DEF IsState
<1> DEFINE t == Tx(n)
           gave == [x.supply EXCEPT ![t.sale.id] = @ - t.sale.amount]
           both == [gave EXCEPT ![Other(t.sale.id)] = @ + Expected(t.sale, x.supply, t.sale.amount)]
<1>4. IsSupply(gave)
  BY <1>3 DEF IsState
<1>5. IsSupply(both)
  <2> HIDE DEF gave
  <2> QED BY <1>3, <1>4
<1>6. After(x, n).supply \in {x.supply, both}
  BY DEF After
<1> HIDE DEF both
<1> QED BY <1>1, <1>5, <1>6, <1>7 DEF IsState

\* A reward is for the next height, and leaves the end of the chain alone.
LEMMA IssuedIs ==
  ASSUME NEW x
  PROVE  /\ IsChain(Issued(x))
         /\ Issued(x).end = x.end
         /\ Issued(x).height = x.height + 1
BY DEF Issued, IsChain

LEMMA IssuedIsState ==
  ASSUME NEW x, IsState(x)
  PROVE  IsState(Issued(x))
<1>1. IsChain(Issued(x)) /\ Issued(x).height \in Nat
  BY IssuedIs DEF IsState
<1>2. ASSUME NEW s, IsSupply(s), NEW r, NEW v PROVE IsSupply([s EXCEPT ![r] = v])
  <2>1. DOMAIN s = Rune
    BY <1>2 DEF IsSupply
  <2> QED BY <1>2, <2>1 DEF IsSupply
<1> DEFINE one == [x.supply EXCEPT ![ID0] = @ + RewardShare0(x.supply[ID0], x.supply[ID1], Reward(x.height + 1))]
           both == [one EXCEPT ![ID1] = @ + RewardShare1(x.supply[ID0], x.supply[ID1], Reward(x.height + 1))]
<1>3. IsSupply(one)
  BY <1>2 DEF IsState
<1>4. IsSupply(both)
  <2> HIDE DEF one
  <2> QED BY <1>2, <1>3
<1>5. Issued(x).supply = both
  BY DEF Issued
<1> HIDE DEF both
<1> QED BY <1>1, <1>4, <1>5 DEF IsState

LEMMA IssuedStays ==
  ASSUME NEW x
  PROVE  Issued(x)' = Issued(x)
OBVIOUS

LEMMA MoveStays ==
  ASSUME NEW n, NEW a, NEW b, Moves(n, a, b), Same, mined \subseteq mined'
  PROVE  Moves(n, a, b)'
<1>1. CASE b = Issued(a)
  BY <1>1, IssuedStays DEF Moves
<1>2. CASE n \in mined /\ a.end \in Tx(n).inputs /\ b = After(a, n)
  <2>1. Tx(n)' = Tx(n)
    BY <1>2 DEF Same
  <2>2. After(a, n)' = After(a, n)
    BY <2>1, AfterStays
  <2> QED BY <1>2, <2>1, <2>2 DEF Moves
<1> QED BY <1>1, <1>2 DEF Moves

LEMMA RouteStays ==
  ASSUME NEW x, Follows(x), Same, mined \subseteq mined', tip' = tip, mining' => mining
  PROVE  Follows(x)'
<1>1. PICK c, p, k : IsRoute(c, p, k, x)
  BY DEF Follows
<1>2. ASSUME NEW i \in 1..k PROVE Moves(p[i], c[i - 1], c[i])'
  <2>1. PICK n, a, b : n = p[i] /\ a = c[i - 1] /\ b = c[i]
    OBVIOUS
  <2>2. Moves(n, a, b)
    BY <1>1, <2>1 DEF IsRoute
  <2>3. Moves(n, a, b)'
    BY <2>2, MoveStays
  <2> QED BY <2>1, <2>3
<1>3. k \in Nat /\ c[0] = x /\ c[k] = tip' /\ (k # 0 => c[1] = Issued(x)) /\ (mining' => k # 0)
  BY <1>1 DEF IsRoute
<1>4. IsRoute(c, p, k, x)'
  BY <1>2, <1>3, IssuedStays DEF IsRoute
<1> QED BY <1>4 DEF Follows

LEMMA RouteExtends ==
  ASSUME NEW x, Follows(x), Same, mined \subseteq mined', NEW n, NEW old, old = tip,
         NEW new, new = tip', Moves(n, old, new)', mining \/ new = Issued(old)
  PROVE  Follows(x)'
<1>1. PICK c, p, k : IsRoute(c, p, k, x)
  BY DEF Follows
<1>2. /\ k \in Nat /\ c[0] = x /\ c[k] = old /\ (k # 0 => c[1] = Issued(x)) /\ (mining => k # 0)
      /\ \A i \in 1..k : Moves(p[i], c[i - 1], c[i])
  BY <1>1 DEF IsRoute
<1>3. PICK d : d = [i \in 0..(k + 1) |-> IF i = k + 1 THEN new ELSE c[i]]
  OBVIOUS
<1>4. PICK q : q = [i \in 1..(k + 1) |-> IF i = k + 1 THEN n ELSE p[i]]
  OBVIOUS
<1>5. d[0] = x /\ d[k] = old /\ d[k + 1] = new /\ q[k + 1] = n
  BY <1>2, <1>3, <1>4
<1>6. ASSUME NEW i \in 1..(k + 1) PROVE Moves(q[i], d[i - 1], d[i])'
  <2>1. CASE i = k + 1
    <3>1. q[i] = n /\ d[i - 1] = old /\ d[i] = new
      BY <2>1, <1>2, <1>5
    <3> QED BY <3>1
  <2>2. CASE i # k + 1
    <3>1. i \in 1..k /\ d[i - 1] = c[i - 1] /\ d[i] = c[i] /\ q[i] = p[i]
      BY <2>2, <1>2, <1>3, <1>4
    <3>2. PICK m, a, b : m = p[i] /\ a = c[i - 1] /\ b = c[i]
      OBVIOUS
    <3>3. Moves(m, a, b)
      BY <1>2, <3>1, <3>2
    <3>4. Moves(m, a, b)'
      BY <3>3, MoveStays
    <3> QED BY <3>1, <3>2, <3>4
  <2> QED BY <2>1, <2>2
<1>7. k + 1 \in Nat /\ k + 1 # 0
  BY <1>2
<1>8. d[1] = Issued(x)
  <2>1. CASE k = 0
    <3>1. old = x /\ new = Issued(old)
      BY <2>1, <1>2
    <3>2. d[1] = new
      BY <2>1, <1>5
    <3> QED BY <3>1, <3>2
  <2>2. CASE k # 0
    <3>1. 1 \in 0..(k + 1) /\ 1 # k + 1
      BY <2>2, <1>2
    <3> QED BY <2>2, <3>1, <1>2, <1>3
  <2> QED BY <2>1, <2>2
<1>9. IsRoute(d, q, k + 1, x)'
  BY <1>5, <1>6, <1>7, <1>8, IssuedStays DEF IsRoute
<1> QED BY <1>9 DEF Follows

LEMMA RouteGoesOn ==
  ASSUME NEW x, Follows(x), Same, NEW n \in mempool, mined' = mined \cup {n}, tip' = After(tip, n),
         IsState(tip), mining, mining' = mining
  PROVE  Follows(x)'
<1>1. CASE tip.end \notin Tx(n).inputs
  <2>1. tip' = tip
    BY <1>1, AfterIs DEF IsState
  <2> QED BY <2>1, RouteStays
<1>2. CASE tip.end \in Tx(n).inputs
  <2>1. PICK old, new : old = tip /\ new = tip'
    OBVIOUS
  <2>2. Tx(n)' = Tx(n) /\ new = After(old, n)
    BY <2>1 DEF Same
  <2>3. After(old, n)' = After(old, n)
    BY <2>2, AfterStays
  <2>4. Moves(n, old, new)'
    BY <1>2, <2>1, <2>2, <2>3 DEF Moves
  <2> QED BY <2>1, <2>4, RouteExtends
<1> QED BY <1>1, <1>2

LEMMA RouteIssues ==
  ASSUME NEW x, Follows(x), Same, mined' = mined, tip' = Issued(tip)
  PROVE  Follows(x)'
<1>1. PICK old, new : old = tip /\ new = tip'
  OBVIOUS
<1>2. new = Issued(old)
  BY <1>1
<1>3. Moves(0, old, new)'
  BY <1>2, IssuedStays DEF Moves
<1> QED BY <1>1, <1>2, <1>3, RouteExtends

LEMMA TipIsFollowed ==
  ASSUME NEW x, x = tip, ~mining
  PROVE  Follows(x)
<1> DEFINE c == [i \in 0..0 |-> x]
<1>1. c[0] = x
  OBVIOUS
<1> HIDE DEF c
<1>2. IsRoute(c, << >>, 0, x)
  BY <1>1 DEF IsRoute
<1> QED BY <1>2 DEF Follows

\* What a step does to the blocks, and to what was seen of them.
LEMMA NodeMoves ==
  ASSUME Next
  PROVE  \/ \E n \in mempool : Mine(n)
         \/ BeginBlock
         \/ /\ mined' = mined /\ tip' = tip /\ converted' = converted /\ (mining' => mining)
            /\ index' = index \/ (~mining /\ index' = tip)
            /\ seen' \in {seen, seen \cup {index}}
<1> USE DEF NodeUnchanged, nodeVars, Saw
<1>1. CASE \E n \in DOMAIN Pool : OthersSend(n)
  BY <1>1 DEF OthersSend, NodeStep
<1>2. CASE (\E n \in mempool : Expire(n) \/ Trim(n)) \/ FloorFalls \/ EndBlock
  BY <1>2 DEF Expire, Trim, FloorFalls, EndBlock, NodeStep
<1>3. CASE IndexBlock
  BY <1>3 DEF IndexBlock
<1>4. ASSUME LookupStep
      PROVE  /\ mined' = mined /\ tip' = tip /\ index' = index
             /\ seen' \in {seen, seen \cup {index}}
  <2>1. CASE ReadSupplies
    BY <2>1 DEF ReadSupplies, ReadSupply
  <2>2. CASE ReadEnd
    BY <2>2 DEF ReadEnd
  <2>3. CASE ReadMempool
    BY <2>3 DEF ReadMempool
  <2>4. CASE TestAccept
    BY <2>4 DEF TestAccept, Return
  <2>5. CASE TestSent
    BY <2>5 DEF TestSent, Return
  <2>6. CASE OldFeerate
    BY <2>6 DEF OldFeerate, Return
  <2>7. CASE FeesTooLow
    BY <2>7 DEF FeesTooLow, Return
  <2>8. CASE RefusedOtherwise
    BY <2>8 DEF RefusedOtherwise, Return
  <2>9. CASE \E n \in candidates : Look(n)
    BY <2>9 DEF Look, Fail
  <2>10. CASE WalkEnds
    BY <2>10 DEF WalkEnds
  <2>11. CASE Simulate
    BY <2>11 DEF Simulate
  <2>12. CASE DependsGone
    BY <2>12 DEF DependsGone, Fail
  <2>13. CASE \E c \in Commands : Choose(c)
    BY <2>13 DEF Choose
  <2>14. CASE Send
    BY <2>14 DEF Send
  <2> QED BY <1>4, <2>1, <2>2, <2>3, <2>4, <2>5, <2>6, <2>7, <2>8, <2>9, <2>10, <2>11, <2>12, <2>13,
          <2>14 DEF LookupStep
<1> QED BY <1>1, <1>2, <1>3, <1>4 DEF Next, Lookup

LEMMA KnownIsSame ==
  ASSUME NodeInvariant, PhaseOK, Next
  PROVE  Same
<1>1. mempool \cup mined \subseteq DOMAIN Pool \cup DOMAIN own
  BY DEF NodeInvariant, NamesKnown
<1> QED BY <1>1, TxStays DEF Same

LEMMA MineIs ==
  ASSUME NEW n \in mempool, Mine(n)
  PROVE  /\ Parents(Tx(n)) = {} /\ mempool' = mempool \ {n} /\ mined' = mined \cup {n}
         /\ tip' = After(tip, n) /\ own' = own /\ index' = index /\ seen' = seen
         /\ mining /\ mining' = mining
         /\ phase' = phase /\ lookupVars' = lookupVars
         /\ converted' = IF n = "convert" THEN tip ELSE converted
BY DEF Mine, NodeStep

\* A transaction in a block spends what is in blocks.
LEMMA MinedSpends ==
  ASSUME NodeInvariant, NEW n \in mempool, Parents(Tx(n)) = {}
  PROVE  \A o \in Tx(n).inputs : o.tx \in mined \cup {"root"}
BY DEF NodeInvariant, SpentOnce, Parents

LEMMA ChainMined ==
  ASSUME NodeInvariant, ChainInvariant, Same, NEW n \in mempool, Mine(n)
  PROVE  ChainInvariant'
<1>1. /\ Parents(Tx(n)) = {} /\ mined' = mined \cup {n} /\ tip' = After(tip, n)
      /\ index' = index /\ seen' = seen /\ mining /\ mining' = mining
  BY MineIs
<1>2. \A m \in mined \cup {n} : Tx(m)' = Tx(m)
  BY DEF Same
<1>3. /\ n \notin mined \cup {"root"}
      /\ \A m \in mined \cup {n} : \A o \in Tx(m).inputs : o.tx \in mined \cup {"root"}
  BY <1>1, MinedSpends, NamesDisjoint DEF NodeInvariant, NamesKnown, SpentOnce, OwnNames
<1>4. MinedOrdered'
  <2> SUFFICES ASSUME NEW T \in SUBSET (mined \cup {n}), T # {}
               PROVE  \E m \in T : \A o \in Tx(m)'.inputs : o.tx \notin T
    BY <1>1 DEF MinedOrdered, Acyclic
  <2>1. \A m \in T : Tx(m)' = Tx(m)
    BY <1>2
  <2>2. CASE T \cap mined = {}
    <3>1. T = {n}
      BY <2>2
    <3> QED BY <3>1, <2>1, <1>3
  <2>3. CASE T \cap mined # {}
    <3>1. PICK m \in T \cap mined : \A o \in Tx(m).inputs : o.tx \notin T \cap mined
      BY <2>3 DEF ChainInvariant, MinedOrdered, Acyclic
    <3>2. \A o \in Tx(m).inputs : o.tx \in mined \cup {"root"}
      BY <1>3
    <3>3. "root" \notin mined \cup {n}
      BY NamesDisjoint DEF NodeInvariant, NamesKnown, OwnNames
    <3> QED BY <3>1, <3>2, <3>3, <2>1
  <2> QED BY <2>2, <2>3
<1>5. TipUnspent'
  <2> SUFFICES ASSUME NEW m \in mined \cup {n} PROVE tip'.end \notin Tx(m).inputs
    BY <1>1, <1>2 DEF TipUnspent
  <2>1. CASE tip.end \in Tx(n).inputs
    <3>1. tip'.end \in {Convert(n), Nowhere}
      BY <2>1, <1>1, AfterIs
    <3>2. tip'.end.tx \notin mined \cup {"root"}
      <4>1. None \notin mined \cup {"root"}
        BY NamesDisjoint DEF NodeInvariant, NamesKnown, None, OwnNames
      <4> QED BY <3>1, <4>1, <1>3 DEF Nowhere, Convert
    <3> QED BY <3>2, <1>3
  <2>2. CASE tip.end \notin Tx(n).inputs
    <3>1. tip'.end = tip.end
      BY <2>2, <1>1, AfterIs
    <3> QED BY <3>1, <2>2 DEF ChainInvariant, TipUnspent
  <2> QED BY <2>1, <2>2
<1>6. IsState(tip) /\ IsState(tip')
  BY <1>1, AfterIsState DEF ChainInvariant, StatesKnown
<1>7. StatesKnown'
  BY <1>1, <1>6 DEF ChainInvariant, StatesKnown
<1>8. TipFollows'
  <2>1. ASSUME NEW x \in seen \cup {index} PROVE Follows(x)'
    <3>1. Follows(x)
      BY DEF ChainInvariant, TipFollows
    <3> QED BY <3>1, <1>1, <1>6, RouteGoesOn
  <2> QED BY <2>1, <1>1 DEF TipFollows
<1> QED BY <1>4, <1>5, <1>7, <1>8 DEF ChainInvariant

LEMMA ChainKept ==
  ASSUME NodeInvariant, PhaseOK, ChainInvariant, Next
  PROVE  ChainInvariant'
<1>1. Same
  BY KnownIsSame
<1>2. CASE \E n \in mempool : Mine(n)
  BY <1>1, <1>2, ChainMined
<1>3. ASSUME mined' = mined PROVE MinedOrdered'
  <2>1. \A m \in mined : Tx(m)' = Tx(m)
    BY <1>1 DEF Same
  <2> SUFFICES ASSUME NEW T \in SUBSET mined, T # {}
               PROVE  \E m \in T : \A o \in Tx(m)'.inputs : o.tx \notin T
    BY <1>3 DEF MinedOrdered, Acyclic
  <2>2. PICK m \in T : \A o \in Tx(m).inputs : o.tx \notin T
    BY DEF ChainInvariant, MinedOrdered, Acyclic
  <2> QED BY <2>1, <2>2
<1>4. ASSUME mined' = mined, tip'.end = tip.end PROVE TipUnspent'
  <2>1. \A m \in mined : Tx(m)' = Tx(m)
    BY <1>1 DEF Same
  <2> QED BY <2>1, <1>4 DEF ChainInvariant, TipUnspent
<1>5. CASE BeginBlock
  <2>1. mined' = mined /\ tip' = Issued(tip) /\ index' = index /\ seen' = seen
    BY <1>5 DEF BeginBlock, NodeStep
  <2>2. IsState(tip) /\ IsState(tip') /\ tip'.end = tip.end
    BY <2>1, IssuedIs, IssuedIsState DEF ChainInvariant, StatesKnown
  <2>3. StatesKnown'
    BY <2>1, <2>2 DEF ChainInvariant, StatesKnown
  <2>4. TipFollows'
    <3>1. ASSUME NEW x \in seen \cup {index} PROVE Follows(x)'
      <4>1. Follows(x)
        BY DEF ChainInvariant, TipFollows
      <4> QED BY <4>1, <1>1, <2>1, RouteIssues
    <3> QED BY <3>1, <2>1 DEF TipFollows
  <2> QED BY <1>3, <1>4, <2>1, <2>2, <2>3, <2>4 DEF ChainInvariant
<1>6. CASE /\ mined' = mined /\ tip' = tip /\ (mining' => mining)
           /\ index' = index \/ (~mining /\ index' = tip)
           /\ seen' \in {seen, seen \cup {index}}
  <2>1. StatesKnown'
    BY <1>6 DEF ChainInvariant, StatesKnown
  <2>2. TipFollows'
    <3>1. ASSUME NEW x, x \in seen \cup {index} \/ (~mining /\ x = tip) PROVE Follows(x)'
      <4>1. Follows(x)
        BY <3>1, TipIsFollowed DEF ChainInvariant, TipFollows
      <4> QED BY <4>1, <1>1, <1>6, RouteStays
    <3> QED BY <3>1, <1>6 DEF TipFollows
  <2> QED BY <1>3, <1>4, <1>6, <2>1, <2>2 DEF ChainInvariant
<1> QED BY <1>2, <1>5, <1>6, NodeMoves

-----------------------------------------------------------------------------
(***************************************************************************)
(* The inductive invariant: what is read of the chain.                     *)
(***************************************************************************)
SeenOK ==
  /\ IsFiniteSet(seen)
  /\ phase # "start" => seen # {}
  /\ IsSupply(state)
  /\ \A X : seen = {X} =>
       /\ phase # "start" => state[ID0] = X.supply[ID0]
       /\ phase \notin {"start", "ease"} => state[ID1] = X.supply[ID1]
       /\ phase \notin {"start", "ease", "end"} => end = X.end

\* The steps after the reads.
Later ==
  \/ ReadMempool \/ TestAccept \/ TestSent \/ OldFeerate \/ FeesTooLow \/ RefusedOtherwise
  \/ (\E n \in candidates : Look(n))
  \/ WalkEnds \/ Simulate \/ DependsGone \/ (\E c \in Commands : Choose(c)) \/ Send
LEMMA LaterIs ==
  ASSUME Later
  PROVE  /\ phase \notin {"start", "ease", "end"} /\ phase' \notin {"start", "ease", "end"}
         /\ state' = state /\ end' = end
         /\ seen' = seen \/ (Simulate /\ seen' = seen \cup {index})
<1> USE DEF Request, lookupVars
<1>1. CASE ReadMempool
  BY <1>1 DEF ReadMempool
<1>2. CASE TestAccept
  BY <1>2 DEF TestAccept, Return
<1>3. CASE TestSent
  BY <1>3 DEF TestSent, Return
<1>4. CASE OldFeerate
  BY <1>4 DEF OldFeerate, Return
<1>5. CASE FeesTooLow
  BY <1>5 DEF FeesTooLow, Return
<1>6. CASE RefusedOtherwise
  BY <1>6 DEF RefusedOtherwise, Return
<1>7. CASE \E n \in candidates : Look(n)
  BY <1>7 DEF Look, Fail
<1>8. CASE WalkEnds
  BY <1>8 DEF WalkEnds
<1>9. CASE Simulate
  BY <1>9 DEF Simulate, Saw
<1>10. CASE DependsGone
  BY <1>10 DEF DependsGone, Fail
<1>11. CASE \E c \in Commands : Choose(c)
  BY <1>11 DEF Choose
<1>12. CASE Send
  BY <1>12 DEF Send
<1> QED BY <1>1, <1>2, <1>3, <1>4, <1>5, <1>6, <1>7, <1>8, <1>9, <1>10, <1>11, <1>12 DEF Later

\* The node moves on, and the command sees nothing.
LEMMA OutsideSeesNothing ==
  ASSUME Outside
  PROVE  seen' = seen
BY DEF Outside, OthersSend, Mine, Expire, Trim, FloorFalls, BeginBlock, EndBlock, IndexBlock, NodeStep

LEMMA SeenKept ==
  ASSUME StatesKnown, SeenOK, Next
  PROVE  SeenOK'
<1>1. \A r : IsFiniteSet(seen \cup {r})
  BY FS_AddElement DEF SeenOK
<1>2. CASE Outside
  BY <1>2, OutsideIs, OutsideSeesNothing DEF SeenOK, lookupVars
<1>3. ASSUME NEW r \in Rune, state' = [state EXCEPT ![r] = index.supply[r]]
      PROVE  IsSupply(state') /\ state'[r] = index.supply[r] /\ \A q \in Rune : q # r => state'[q] = state[q]
  <2>1. DOMAIN state = Rune
    BY DEF SeenOK, IsSupply
  <2> QED BY <2>1, <1>3 DEF SeenOK, IsSupply
<1>4. ID0 \in Rune /\ ID1 \in Rune /\ ID0 # ID1
  BY DEF Rune, ID0, ID1
<1>5. CASE ReadSupply(ID0, "start", "ease")
  <2>1. phase = "start" /\ phase' = "ease" /\ seen' = seen \cup {index}
        /\ state' = [state EXCEPT ![ID0] = index.supply[ID0]]
    BY <1>5 DEF ReadSupply, Request, Saw
  <2>2. IsSupply(state') /\ state'[ID0] = index.supply[ID0]
    BY <2>1, <1>3, <1>4
  <2>3. ASSUME NEW X, seen' = {X} PROVE X = index
    BY <2>1, <2>3
  <2> QED BY <1>1, <2>1, <2>2, <2>3 DEF SeenOK
<1>6. CASE ReadSupply(ID1, "ease", "end")
  <2>1. phase = "ease" /\ phase' = "end" /\ seen' = seen \cup {index}
        /\ state' = [state EXCEPT ![ID1] = index.supply[ID1]]
    BY <1>6 DEF ReadSupply, Request, Saw
  <2>2. IsSupply(state') /\ state'[ID1] = index.supply[ID1] /\ state'[ID0] = state[ID0]
    BY <2>1, <1>3, <1>4
  <2>3. seen # {}
    BY <2>1 DEF SeenOK
  <2>4. ASSUME NEW X, seen' = {X} PROVE X = index /\ seen = {X}
    BY <2>1, <2>3, <2>4
  <2>5. ASSUME NEW X, seen' = {X} PROVE state'[ID0] = X.supply[ID0] /\ state'[ID1] = X.supply[ID1]
    BY <2>1, <2>2, <2>4, <2>5 DEF SeenOK
  <2> QED BY <1>1, <2>1, <2>2, <2>5 DEF SeenOK
<1>7. CASE ReadEnd
  <2>1. phase = "end" /\ phase' \in {"done", "mempool"} /\ seen' = seen \cup {index}
        /\ end' = index.end /\ state' = state
    BY <1>7 DEF ReadEnd, Request, Saw
  <2>2. seen # {}
    BY <2>1 DEF SeenOK
  <2>3. ASSUME NEW X, seen' = {X} PROVE X = index /\ seen = {X}
    BY <2>1, <2>2, <2>3
  <2>4. ASSUME NEW X, seen' = {X}
        PROVE  state'[ID0] = X.supply[ID0] /\ state'[ID1] = X.supply[ID1] /\ end' = X.end
    BY <2>1, <2>3, <2>4 DEF SeenOK
  <2> QED BY <1>1, <2>1, <2>4 DEF SeenOK
<1>8. CASE Later
  <2>1. /\ phase \notin {"start", "ease", "end"} /\ phase' \notin {"start", "ease", "end"}
        /\ state' = state /\ end' = end /\ seen' \in {seen, seen \cup {index}}
    BY <1>8, LaterIs
  <2>2. seen # {}
    BY <2>1 DEF SeenOK
  <2>3. ASSUME NEW X, seen' = {X} PROVE seen = {X}
    BY <2>1, <2>2, <2>3
  <2>4. ASSUME NEW X, seen' = {X}
        PROVE  state'[ID0] = X.supply[ID0] /\ state'[ID1] = X.supply[ID1] /\ end' = X.end
    BY <2>1, <2>3, <2>4 DEF SeenOK
  <2>5. IsFiniteSet(seen') /\ seen' # {} /\ IsSupply(state')
    BY <1>1, <2>1, <2>2 DEF SeenOK
  <2> QED BY <2>1, <2>4, <2>5 DEF SeenOK
<1> QED BY <1>2, <1>5, <1>6, <1>7, <1>8 DEF Next, Lookup, LookupStep, ReadSupplies, Outside, Later

-----------------------------------------------------------------------------
(***************************************************************************)
(* The inductive invariant: what is found could all be in blocks.          *)
(***************************************************************************)
FoundTogether ==
  phase \in {"walk", "simulate"} => \E A : FoundNames \subseteq A /\ Consistent(A)
PathOK == FoundPath /\ FoundTogether

\* What the node has could be.
LEMMA NodeConsistent ==
  ASSUME NodeInvariant, MinedOrdered
  PROVE  Consistent(mempool \cup mined)
<1> DEFINE A == mempool \cup mined
<1>1. A \subseteq DOMAIN Pool \cup DOMAIN own
  BY DEF NodeInvariant, NamesKnown
<1>2. \A n \in A : \A o \in Tx(n).inputs : o.tx \in A \cup {"root"}
  BY DEF NodeInvariant, SpentOnce
<1>3. \A m, n \in A : m # n => Tx(m).inputs \cap Tx(n).inputs = {}
  BY DEF NodeInvariant, SpentOnce
<1>4. Acyclic(A)
  <2> SUFFICES ASSUME NEW T \in SUBSET A, T # {}
               PROVE  \E n \in T : \A o \in Tx(n).inputs : o.tx \notin T
    BY DEF Acyclic
  <2>1. CASE T \cap mined # {}
    <3>1. PICK m \in T \cap mined : \A o \in Tx(m).inputs : o.tx \notin T \cap mined
      BY <2>1 DEF MinedOrdered, Acyclic
    <3>2. \A o \in Tx(m).inputs : o.tx \in mined \cup {"root"}
      BY DEF NodeInvariant, SpentOnce
    <3>3. "root" \notin A
      BY <1>1, NamesDisjoint DEF NodeInvariant, NamesKnown, OwnNames
    <3> QED BY <3>1, <3>2, <3>3
  <2>2. CASE T \cap mined = {}
    <3>1. T \in SUBSET mempool
      BY <2>2
    <3>2. NoCycle(ParentsOf) /\ DOMAIN ParentsOf = mempool
      BY DEF NodeInvariant, MempoolIsGraph, IsMempoolGraph, ParentsOf
    <3>3. PICK n \in T : ParentsOf[n] \cap T = {}
      BY <3>1, <3>2 DEF NoCycle
    <3>4. Parents(Tx(n)) \cap T = {}
      BY <3>1, <3>3 DEF ParentsOf
    <3> QED BY <3>1, <3>4 DEF Parents
  <2> QED BY <2>1, <2>2
<1> HIDE DEF A
<1>5. Consistent(A)
  BY <1>1, <1>2, <1>3, <1>4 DEF Consistent
<1> QED BY <1>5 DEF A

LEMMA ConsistentStays ==
  ASSUME NEW A, Consistent(A), DOMAIN own \subseteq DOMAIN own',
         \A m \in DOMAIN Pool \cup DOMAIN own : Tx(m)' = Tx(m)
  PROVE  Consistent(A)'
<1>1. A \subseteq DOMAIN Pool \cup DOMAIN own /\ \A m \in A : Tx(m)' = Tx(m)
  BY DEF Consistent
<1>2. Acyclic(A)'
  <2> SUFFICES ASSUME NEW T \in SUBSET A, T # {}
               PROVE  \E n \in T : \A o \in Tx(n)'.inputs : o.tx \notin T
    BY DEF Acyclic
  <2>1. PICK n \in T : \A o \in Tx(n).inputs : o.tx \notin T
    BY DEF Consistent, Acyclic
  <2> QED BY <1>1, <2>1
<1>3. /\ \A n \in A : \A o \in Tx(n)'.inputs : o.tx \in A \cup {"root"}
      /\ \A m, n \in A : m # n => Tx(m)'.inputs \cap Tx(n)'.inputs = {}
  BY <1>1 DEF Consistent
<1>4. A \subseteq DOMAIN Pool \cup DOMAIN own'
  BY <1>1
<1> QED BY <1>2, <1>3, <1>4 DEF Consistent

LEMMA FoundPathStays ==
  ASSUME FoundKnown, FoundPath, found' = found, end' = end,
         \A m \in DOMAIN Pool \cup DOMAIN own : Tx(m)' = Tx(m)
  PROVE  FoundPath'
<1> SUFFICES ASSUME NEW i \in DOMAIN found
             PROVE  /\ Place(i)' \in Tx(found[i].name)'.inputs
                    /\ \A m \in found[i].entry.depends : \E o \in Tx(found[i].name)'.inputs : o.tx = m
                    /\ i # Len(found) => Tx(found[i].name)'.leaves
  BY DEF FoundPath
<1>1. Tx(found[i].name)' = Tx(found[i].name)
  BY DEF FoundKnown
<1>2. Place(i)' = Place(i)
  BY DEF Place
<1> QED BY <1>1, <1>2 DEF FoundPath

\* What spends the output that is looked at spends that of the last place.
LEMMA AtIsPlace ==
  ASSUME NodeInvariant, FoundKnown, AtIsNext, phase \in Looking, NEW n \in mempool, at \in Tx(n).inputs
  PROVE  /\ at = Place(Len(found) + 1)
         /\ found # << >> => Tx(found[Len(found)].name).leaves
<1>1. Len(found) \in Nat /\ (found # << >> => Len(found) >= 1 /\ Last(found) = found[Len(found)])
  BY AppendIs DEF FoundKnown
<1>2. at = IF found = << >> THEN end
           ELSE IF Tx(Last(found).name).leaves THEN Convert(Last(found).name) ELSE Nowhere
  BY DEF AtIsNext
<1>3. at # Nowhere
  <2>1. at.tx \in mined \cup mempool \cup {"root"}
    BY DEF NodeInvariant, SpentOnce
  <2>2. None \notin mined \cup mempool \cup {"root"}
    BY NamesDisjoint DEF NodeInvariant, NamesKnown, None, OwnNames
  <2> QED BY <2>1, <2>2 DEF Nowhere, Convert
<1>4. CASE found = << >>
  <2>1. Len(found) = 0
    BY <1>4, EmptyIsSequence
  <2> QED BY <2>1, <1>2, <1>4 DEF Place
<1>5. CASE found # << >>
  <2>1. Len(found) + 1 # 1 /\ (Len(found) + 1) - 1 = Len(found)
    BY <1>1, <1>5
  <2> QED BY <2>1, <1>1, <1>2, <1>3, <1>5 DEF Place
<1> QED BY <1>4, <1>5

LEMMA PathGrows ==
  ASSUME NodeInvariant, FoundKnown, AtIsNext, FoundPath, MinedOrdered, phase = "walk",
         NEW n \in mempool, at \in Tx(n).inputs,
         found' = Append(found, [name |-> n, entry |-> Entry(n)]), end' = end, own' = own
  PROVE  PathOK'
<1> DEFINE new == [name |-> n, entry |-> Entry(n)]
           k == Len(found)
<1>0. \A m : Tx(m)' = Tx(m)
  BY DEF Tx
<1>1. new.name = n /\ \A m \in new.entry.depends : \E o \in Tx(n).inputs : o.tx = m
  BY DEF Entry, Parents
<1> HIDE DEF new
<1>2. /\ k \in Nat /\ DOMAIN found = 1..k /\ DOMAIN found' = 1..(k + 1) /\ Len(found') = k + 1
      /\ \A i \in 1..k : found'[i] = found[i]
      /\ found'[k + 1] = new
      /\ found # << >> <=> k # 0
  <2>1. IsSequence(found) /\ found' = Append(found, new)
    BY DEF FoundKnown, new
  <2> QED BY <2>1, AppendIs, EmptyIsSequence
<1>3. at = Place(k + 1) /\ (k # 0 => Tx(found[k].name).leaves)
  BY <1>2, AtIsPlace DEF Looking
<1> HIDE DEF k
<1>4. ASSUME NEW i \in 1..(k + 1) PROVE Place(i)' = Place(i)
  <2>1. i # 1 => i - 1 \in 1..k /\ found'[i - 1] = found[i - 1]
    BY <1>2
  <2> QED BY <2>1 DEF Place
<1>5. ASSUME NEW i \in 1..(k + 1)
      PROVE  /\ Place(i) \in Tx(found'[i].name).inputs
             /\ \A m \in found'[i].entry.depends : \E o \in Tx(found'[i].name).inputs : o.tx = m
             /\ i # k + 1 => Tx(found'[i].name).leaves
  <2>1. CASE i = k + 1
    BY <2>1, <1>1, <1>2, <1>3
  <2>2. CASE i # k + 1
    <3>1. i \in 1..k /\ found'[i] = found[i]
      BY <2>2, <1>2
    <3>2. /\ Place(i) \in Tx(found[i].name).inputs
          /\ \A m \in found[i].entry.depends : \E o \in Tx(found[i].name).inputs : o.tx = m
          /\ i # k => Tx(found[i].name).leaves
      BY <3>1, <1>2 DEF FoundPath, k
    <3>3. i = k => Tx(found[i].name).leaves
      BY <3>1, <1>3
    <3> QED BY <3>1, <3>2, <3>3
  <2> QED BY <2>1, <2>2
<1>6. FoundPath'
  BY <1>0, <1>2, <1>4, <1>5 DEF FoundPath
<1>7. ASSUME NEW i \in 1..(k + 1) PROVE found'[i].name \in DOMAIN Pool \cup DOMAIN own
  <2>1. CASE i = k + 1
    BY <2>1, <1>1, <1>2 DEF NodeInvariant, NamesKnown
  <2>2. CASE i # k + 1
    <3>1. i \in 1..k /\ found'[i] = found[i]
      BY <2>2, <1>2
    <3> QED BY <3>1, <1>2 DEF FoundKnown
  <2> QED BY <2>1, <2>2
<1>8. PICK A : A = mempool \cup mined
  OBVIOUS
<1>9. Consistent(A)
  BY <1>8, NodeConsistent
\* From the last one, each is what the one behind it spends.
<1>10. ASSUME NEW i \in 1..(k + 1) PROVE found'[i].name \in A
  <2> DEFINE Bad == {j \in Nat : j <= k /\ found'[k + 1 - j].name \notin A}
  <2>1. Bad = {}
    <3> SUFFICES ASSUME Bad # {} PROVE FALSE
      OBVIOUS
    <3>1. PICK j \in Bad : \A l \in Bad : j <= l
      <4>1. Bad \in SUBSET Nat
        OBVIOUS
      <4> HIDE DEF Bad
      <4> QED BY <4>1, LeastNatural
    <3>2. j \in Nat /\ j <= k /\ found'[k + 1 - j].name \notin A
      BY <3>1
    <3>3. j # 0
      <4>1. j = 0 => k + 1 - j = k + 1
        BY <1>2, <3>2
      <4>2. found'[k + 1].name \in A
        BY <1>1, <1>2, <1>8
      <4> QED BY <4>1, <4>2, <3>2
    <3>4. /\ j - 1 \in Nat /\ j - 1 <= k /\ ~(j <= j - 1)
          /\ k + 1 - (j - 1) \in 1..(k + 1) /\ k + 1 - (j - 1) # 1
          /\ (k + 1 - (j - 1)) - 1 = k + 1 - j /\ k + 1 - j \in 1..(k + 1)
      BY <3>2, <3>3, <1>2
    <3>5. found'[k + 1 - (j - 1)].name \in A
      BY <3>1, <3>4
    <3>6. Convert(found'[k + 1 - j].name) \in Tx(found'[k + 1 - (j - 1)].name).inputs
      <4>1. PICK i0 \in 1..(k + 1) : i0 = k + 1 - (j - 1) /\ i0 # 1 /\ i0 - 1 = k + 1 - j
        BY <3>4
      <4>2. Place(i0)' = Convert(found'[i0 - 1].name)
        BY <4>1 DEF Place
      <4>3. Place(i0)' = Place(i0) /\ Place(i0) \in Tx(found'[i0].name).inputs
        BY <4>1, <1>4, <1>5
      <4>4. Convert(found'[k + 1 - j].name) \in Tx(found'[i0].name).inputs
        BY <4>1, <4>2, <4>3
      <4> QED BY <4>1, <4>4
    <3>7. found'[k + 1 - j].name \in A \cup {"root"}
      BY <3>5, <3>6, <1>9 DEF Consistent, Convert
    <3>8. found'[k + 1 - j].name # "root"
      BY <3>4, <1>7, NamesDisjoint DEF NodeInvariant, NamesKnown, OwnNames
    <3> QED BY <3>2, <3>7, <3>8
  <2>2. k + 1 - i \in Nat /\ k + 1 - i <= k /\ k + 1 - (k + 1 - i) = i
    BY <1>2
  <2>3. k + 1 - i \notin Bad
    BY <2>1
  <2> QED BY <2>2, <2>3
<1>11. FoundNames' \subseteq A
  BY <1>2, <1>10 DEF FoundNames
<1>12. Consistent(A)'
  BY <1>0, <1>9, ConsistentStays
<1>13. FoundTogether'
  BY <1>11, <1>12 DEF FoundTogether
<1> QED BY <1>6, <1>13 DEF PathOK

LEMMA PathKept ==
  ASSUME NodeInvariant, PhaseOK, FoundOK, MinedOrdered, PathOK, Next
  PROVE  PathOK'
<1>1. /\ \A m \in DOMAIN Pool \cup DOMAIN own : Tx(m)' = Tx(m)
      /\ DOMAIN own \subseteq DOMAIN own'
  BY TxStays
<1>2. ASSUME found' = found, end' = end, phase' \in {"walk", "simulate"} => phase \in {"walk", "simulate"}
      PROVE  PathOK'
  <2>1. FoundPath'
    BY <1>1, <1>2, FoundPathStays DEF FoundOK, PathOK
  <2>2. FoundTogether'
    <3> SUFFICES ASSUME phase' \in {"walk", "simulate"}
                 PROVE  \E A : FoundNames' \subseteq A /\ Consistent(A)'
      BY DEF FoundTogether
    <3>1. PICK A : FoundNames \subseteq A /\ Consistent(A)
      BY <1>2 DEF PathOK, FoundTogether
    <3>2. FoundNames' = FoundNames
      BY <1>2 DEF FoundNames
    <3> QED BY <3>1, <3>2, <1>1, ConsistentStays
  <2> QED BY <2>1, <2>2 DEF PathOK
<1>3. CASE Early
  <2>1. found' = << >>
    BY <1>3, EarlyIs
  <2>2. FoundPath'
    BY <2>1, EmptyIsSequence DEF FoundPath
  <2>3. FoundNames' \subseteq {} /\ Consistent({})'
    BY <2>1, EmptyIsSequence DEF FoundNames, Consistent, Acyclic
  <2>4. FoundTogether'
    BY <2>3 DEF FoundTogether
  <2> QED BY <2>2, <2>4 DEF PathOK
<1>4. CASE Outside
  BY <1>2, <1>4, OutsideIs DEF lookupVars
<1>5. ASSUME NEW n \in candidates, Look(n) PROVE PathOK'
  <2>1. phase = "walk"
    BY <1>5 DEF Look, Fail, Request
  <2>2. CASE found' = found
    <3>1. end' = end
      BY <1>5 DEF Look, Fail, lookupVars
    <3> QED BY <2>1, <2>2, <3>1, <1>2
  <2>3. CASE found' # found
    <3>1. /\ n \in mempool /\ at \in Tx(n).inputs
          /\ found' = Append(found, [name |-> n, entry |-> Entry(n)]) /\ end' = end /\ own' = own
      BY <1>5, <2>3 DEF Look, Fail, lookupVars, nodeVars
    <3> QED BY <2>1, <3>1, PathGrows DEF FoundOK, PathOK
  <2> QED BY <2>2, <2>3
<1>6. CASE WalkEnds
  BY <1>2, <1>6 DEF WalkEnds, Request
<1>7. CASE Simulate
  BY <1>2, <1>7 DEF Simulate, Request
<1>8. CASE DependsGone
  BY <1>2, <1>8 DEF DependsGone, Fail, Request, lookupVars
<1>9. CASE \E c \in Commands : Choose(c)
  BY <1>2, <1>9 DEF Choose
<1>10. CASE Send
  BY <1>2, <1>10 DEF Send, Request, lookupVars
<1> QED BY <1>3, <1>4, <1>5, <1>6, <1>7, <1>8, <1>9, <1>10
        DEF Next, Lookup, LookupStep, Early, Outside

-----------------------------------------------------------------------------
(***************************************************************************)
(* The inductive invariant: the amounts.                                   *)
(***************************************************************************)
PrevsRight ==
  phase = "choose" =>
    \A X : seen = {X} =>
      \E c : /\ IsPath(c, X) /\ prevs[1] = X.supply
            /\ \A i \in 2..(Len(found) + 1) : prevs[i] = c[i].supply
\* What is reported is of the entries, or of the place in the next block.
Promised(c, X) ==
  /\ draft.place = 1 => Reported(X.supply)
  /\ draft.place # 1 => Reported(c[draft.place].supply)
PlaceRight ==
  phase = "send" \/ "convert" \in DOMAIN own =>
    /\ draft.place \in 1..(Len(found) + 1)
    /\ draft.place # 1 => Tx(found[draft.place - 1].name).leaves
    /\ \A X : seen = {X} => \E c : IsPath(c, X) /\ Promised(c, X)
OwnSpends == "convert" \in DOMAIN own => own["convert"].inputs = {Place(draft.place), Coin}
InPlace(y, X) ==
  /\ y.end = Place(draft.place)
  /\ draft.place > 1 /\ y.height = X.height + 1 => Reported(y.supply)
  /\ draft.place = 1 => Reported(X.supply) /\ y = Rewarded(X, y.height)
MinedRight == "convert" \in mined => \A X : seen = {X} => InPlace(converted, X)
AmountsOK == PrevsRight /\ PlaceRight /\ OwnSpends /\ MinedRight

LEMMA PathStays ==
  ASSUME NEW c, NEW x, IsPath(c, x), FoundKnown, found' = found,
         \A m \in DOMAIN Pool \cup DOMAIN own : Tx(m)' = Tx(m)
  PROVE  IsPath(c, x)'
<1> SUFFICES ASSUME NEW i \in DOMAIN found PROVE c[i + 1] = After(c[i], found[i].name)'
  BY DEF IsPath
<1>1. PICK n : n = found[i].name
  OBVIOUS
<1>2. n = found[i].name /\ n = found'[i].name /\ Tx(n)' = Tx(n)
  BY <1>1 DEF FoundKnown
<1>3. After(c[i], n)' = After(c[i], n)
  BY <1>2, AfterStays
<1> QED BY <1>2, <1>3 DEF IsPath

LEMMA InPlaceStays ==
  ASSUME NEW y, NEW X, InPlace(y, X), lookupVars' = lookupVars
  PROVE  InPlace(y, X)'
<1>1. draft' = draft /\ command' = command /\ found' = found /\ end' = end
  BY DEF lookupVars
<1>2. Place(draft.place)' = Place(draft.place)
  BY <1>1 DEF Place
<1>3. ASSUME NEW s PROVE Reported(s)' = Reported(s)
  BY <1>1 DEF Reported
<1>4. PICK a, b : a = y.supply /\ b = X.supply
  OBVIOUS
<1>5. Reported(a)' = Reported(a) /\ Reported(b)' = Reported(b)
  BY <1>3
<1> QED BY <1>1, <1>2, <1>4, <1>5 DEF InPlace

\* The supplies that were read.
LEMMA SupplyRead ==
  ASSUME SeenOK, StatesKnown, NEW X, seen = {X}, phase \notin {"start", "ease", "end"}
  PROVE  state = X.supply /\ IsChain(X) /\ end = X.end
<1>1. IsState(X) /\ IsSupply(state)
  BY DEF SeenOK, StatesKnown
<1>2. state[ID0] = X.supply[ID0] /\ state[ID1] = X.supply[ID1] /\ end = X.end
  BY DEF SeenOK
<1>3. \A r \in Rune : state[r] = X.supply[r]
  BY <1>2 DEF Rune
<1>4. state = [r \in Rune |-> state[r]] /\ X.supply = [r \in Rune |-> X.supply[r]]
  BY <1>1 DEF IsSupply, IsState
<1>5. state = X.supply
  BY <1>3, <1>4
<1> QED BY <1>1, <1>2, <1>5 DEF IsState

\* All that the found transactions depend on could be in blocks with them.
LEMMA BlockIsOrdered ==
  ASSUME NodeInvariant, FoundKnown, FoundPath, Depends \subseteq mempool,
         NEW A, FoundNames \subseteq A, Consistent(A)
  PROVE  \E S \in SUBSET A : /\ IsFiniteSet(S) /\ FoundNames \subseteq S
                             /\ MiniBlock \in SetToSeqs(S) /\ ParentsFirst(MiniBlock)
<1> DEFINE S == FoundNames \cup Ancestors(Depends)
           T == A \cap mempool
<1>1. Depends \subseteq A
  <2> SUFFICES ASSUME NEW m \in Depends PROVE m \in A
    OBVIOUS
  <2>1. PICK i \in DOMAIN found : m \in found[i].entry.depends
    BY DEF Depends
  <2>2. PICK o \in Tx(found[i].name).inputs : o.tx = m
    BY <2>1 DEF FoundPath
  <2>3. m \in A \cup {"root"}
    BY <2>2 DEF FoundNames, Consistent
  <2>4. m # "root"
    BY NamesDisjoint DEF NodeInvariant, NamesKnown, OwnNames
  <2> QED BY <2>3, <2>4
<1>2. \A m \in T : Parents(Tx(m)) \subseteq T
  <2> SUFFICES ASSUME NEW m \in T, NEW n \in Parents(Tx(m)) PROVE n \in T
    OBVIOUS
  <2>1. n \in mempool /\ n \in A \cup {"root"}
    BY DEF Parents, Consistent
  <2>2. n # "root"
    BY <2>1, NamesDisjoint DEF NodeInvariant, NamesKnown, OwnNames
  <2> QED BY <2>1, <2>2
<1>3. Ancestors(Depends) \subseteq T
  <2>1. T \in SUBSET mempool /\ Depends \subseteq T
    BY <1>1
  <2> HIDE DEF T
  <2> QED BY <1>2, <2>1 DEF Ancestors
<1>4. S \in SUBSET A
  BY <1>3
<1>5. IsFiniteSet(S)
  <2>1. IsFiniteSet({"test"} \cup {"convert"})
    <3>1. IsFiniteSet({"test"})
      BY FS_Singleton
    <3>2. IsFiniteSet({"convert"})
      BY FS_Singleton
    <3> QED BY <3>1, <3>2, FS_Union
  <2>2. IsFiniteSet(DOMAIN Pool \cup ({"test"} \cup {"convert"}))
    BY <2>1, PoolAssumption, FS_Union
  <2>3. S \subseteq DOMAIN Pool \cup ({"test"} \cup {"convert"})
    BY <1>4 DEF Consistent, NodeInvariant, NamesKnown, OwnNames
  <2> HIDE DEF S
  <2> QED BY <2>2, <2>3, FS_Subset
<1>6. Acyclic(S)
  <2> HIDE DEF S
  <2> QED BY <1>4 DEF Consistent, Acyclic
<1>7. MiniBlock = CHOOSE list \in SetToSeqs(S) : ParentsFirst(list)
  BY DEF MiniBlock, ParentsFirst
<1> HIDE DEF S
<1>8. \E list \in SetToSeqs(S) : ParentsFirst(list)
  BY <1>5, <1>6, OrderExists
<1>9. MiniBlock \in SetToSeqs(S) /\ ParentsFirst(MiniBlock)
  BY <1>7, <1>8
<1>10. FoundNames \subseteq S
  BY DEF S
<1> QED BY <1>4, <1>5, <1>9, <1>10

LEMMA BehindIs ==
  ASSUME NEW K \in Nat, NEW s, NEW g, g = [i \in 1..K |-> g[i]]
  PROVE  /\ (<<s>> \o g)[1] = s
         /\ \A i \in 1..K : (<<s>> \o g)[i + 1] = g[i]
<1> DEFINE R == {s} \cup {g[i] : i \in 1..K}
<1>1. g \in [1..K -> R]
  BY Zenon
<1>2. s \in R
  OBVIOUS
<1> HIDE DEF R
<1>3. g \in Seq(R) /\ Len(g) = K /\ <<s>> \in Seq(R) /\ Len(<<s>>) = 1
  BY <1>1, <1>2
<1> QED BY <1>3

LEMMA SimulateRight ==
  ASSUME NodeInvariant, FoundKnown, PathOK, SeenOK, StatesKnown, Simulate, NEW X, seen' = {X}
  PROVE  \E c : /\ IsPath(c, X) /\ prevs'[1] = X.supply
               /\ \A i \in 2..(Len(found) + 1) : prevs'[i] = c[i].supply
<1> DEFINE K == Len(found)
           g == [i \in 1..K |-> SupplyAfter(SubSeq(MiniBlock, 1, Position(MiniBlock, found[i].name)))]
<1>1. K \in Nat /\ DOMAIN found = 1..K
  BY PlacesKnown
<1>2. phase = "simulate" /\ seen' = seen \cup {index} /\ Depends \subseteq mempool
      /\ prevs' = <<state>> \o g
  BY <1>1 DEF Simulate, Request, Saw
<1> HIDE DEF g
<1>3. seen = {X} /\ index = X
  BY <1>2 DEF SeenOK
<1>4. state = X.supply /\ IsChain(X) /\ end = X.end
  BY <1>2, <1>3, SupplyRead
<1>5. PICK A : FoundNames \subseteq A /\ Consistent(A)
  BY <1>2 DEF PathOK, FoundTogether
<1>6. PICK S \in SUBSET A : /\ IsFiniteSet(S) /\ FoundNames \subseteq S
                            /\ MiniBlock \in SetToSeqs(S) /\ ParentsFirst(MiniBlock)
  BY <1>2, <1>5, BlockIsOrdered DEF PathOK
<1> HIDE DEF K
<1>11. PICK x : x = Issued(X)
  OBVIOUS
<1>7. PICK c : /\ IsPath(c, X)
               /\ \A k \in DOMAIN found :
                    AfterAll(x, SubSeq(MiniBlock, 1, Position(MiniBlock, found[k].name))) = c[k + 1]
  <2>1. IsChain(x) /\ x.end = end
    BY <1>4, <1>11, IssuedIs
  <2> QED BY <2>1, <1>5, <1>6, <1>11, BlockFollows DEF PathOK
<1>8. \A i \in 1..K : g[i] = c[i + 1].supply
  <2>1. x = Issued(index)
    BY <1>3, <1>11
  <2> QED BY <1>1, <2>1, <1>7 DEF g, SupplyAfter
<1>9. prevs'[1] = X.supply /\ \A i \in 1..K : prevs'[i + 1] = g[i]
  <2>1. g = [i \in 1..K |-> g[i]]
    BY DEF g
  <2> QED BY <2>1, <1>1, <1>2, <1>4, BehindIs
<1>10. ASSUME NEW i \in 2..(K + 1) PROVE prevs'[i] = c[i].supply
  <2>1. i - 1 \in 1..K /\ (i - 1) + 1 = i
    BY <1>1
  <2>2. prevs'[(i - 1) + 1] = g[i - 1] /\ g[i - 1] = c[(i - 1) + 1].supply
    BY <2>1, <1>8, <1>9
  <2> QED BY <2>1, <2>2
<1> QED BY <1>7, <1>9, <1>10 DEF K


\* Nothing but the node moves after the conversion was sent.
LEMMA SentIs ==
  ASSUME PhaseOK, "convert" \in DOMAIN own, Next
  PROVE  Outside
<1>1. phase = "done"
  BY DEF PhaseOK
<1>2. LookupStep => phase # "done"
  <2> USE DEF Request
  <2>1. ReadSupplies => phase # "done"
    BY DEF ReadSupplies, ReadSupply
  <2>2. Later => phase # "done"
    BY DEF Later, ReadMempool, TestAccept, TestSent, OldFeerate, FeesTooLow, RefusedOtherwise,
           Look, WalkEnds, Simulate, DependsGone, Fail, Choose, Send
  <2>3. ReadEnd => phase # "done"
    BY DEF ReadEnd
  <2> QED BY <2>1, <2>2, <2>3 DEF LookupStep, Later
<1> QED BY <1>1, <1>2 DEF Next, Lookup, Outside

\* What is mined as "convert" is the conversion.
LEMMA ConvertIsOwn ==
  ASSUME NodeInvariant, "convert" \in mempool \cup mined
  PROVE  "convert" \in DOMAIN own /\ Tx("convert") = own["convert"]
BY NamesDisjoint DEF NodeInvariant, NamesKnown, OwnNames, Tx

\* The chain after the rewards of some blocks.
AreRewards(R, x, b, n) == R = [i \in b..(b + n) |-> IF i = b THEN x ELSE Issued(R[i - 1])]

LEMMA RewardsExist ==
  ASSUME NEW x, NEW b \in Nat, NEW n \in Nat
  PROVE  \E R : AreRewards(R, x, b, n)
<1> DEFINE Bad == {k \in Nat : ~\E R : AreRewards(R, x, b, k)}
<1>1. SUFFICES ASSUME Bad # {} PROVE FALSE
  OBVIOUS
<1>2. PICK k \in Bad : \A m \in Bad : k <= m
  <2>1. Bad \in SUBSET Nat
    OBVIOUS
  <2> HIDE DEF Bad
  <2> QED BY <1>1, <2>1, LeastNatural
<1>3. k \in Nat /\ ~\E R : AreRewards(R, x, b, k)
  BY <1>2
<1>4. CASE k = 0
  <2> DEFINE R == [i \in b..(b + 0) |-> x]
  <2>1. \A i \in b..(b + 0) : i = b
    OBVIOUS
  <2>2. R = [i \in b..(b + 0) |-> IF i = b THEN x ELSE Issued(R[i - 1])]
    BY <2>1
  <2>3. AreRewards(R, x, b, k)
    BY <2>2, <1>4 DEF AreRewards
  <2> QED BY <2>3, <1>3
<1>5. CASE k # 0
  <2>1. k - 1 \in Nat /\ ~(k <= k - 1)
    BY <1>3, <1>5
  <2>2. PICK Q : AreRewards(Q, x, b, k - 1)
    BY <1>2, <2>1
  <2> DEFINE h == b + k
             R == [i \in b..h |-> IF i = h THEN Issued(Q[h - 1]) ELSE Q[i]]
  <2>3. h \in Nat /\ h - 1 \in b..h /\ h # b /\ h - 1 # h /\ b + (k - 1) = h - 1
    BY <1>3, <1>5
  <2> HIDE DEF h
  <2>4. \A i \in b..(h - 1) : Q[i] = IF i = b THEN x ELSE Issued(Q[i - 1])
    BY <2>2, <2>3 DEF AreRewards
  <2>5. ASSUME NEW i \in b..h PROVE R[i] = IF i = b THEN x ELSE Issued(R[i - 1])
    <3>1. CASE i = h
      <4>1. R[h - 1] = Q[h - 1] /\ R[i] = Issued(Q[h - 1])
        BY <2>3, <3>1
      <4> HIDE DEF R
      <4> QED BY <4>1, <3>1, <2>3
    <3>2. CASE i # h
      <4>1. i \in b..(h - 1) /\ R[i] = Q[i]
        BY <3>2, <2>3
      <4>2. i # b => i - 1 \in b..h /\ i - 1 # h /\ R[i - 1] = Q[i - 1]
        BY <3>2, <2>3
      <4> HIDE DEF R
      <4> QED BY <4>1, <4>2, <2>4
    <3> QED BY <3>1, <3>2
  <2>6. R = [i \in b..h |-> R[i]]
    OBVIOUS
  <2> HIDE DEF R
  <2>7. R = [i \in b..h |-> IF i = b THEN x ELSE Issued(R[i - 1])]
    BY <2>5, <2>6
  <2> QED BY <2>7, <1>3 DEF AreRewards, h
<1> QED BY <1>4, <1>5

LEMMA RewardsAgree ==
  ASSUME NEW x, NEW b \in Nat, NEW n \in Nat, NEW m \in Nat, n <= m,
         NEW Q, NEW R, AreRewards(Q, x, b, n), AreRewards(R, x, b, m)
  PROVE  Q[b + n] = R[b + n]
<1> DEFINE Bad == {k \in Nat : k <= n /\ Q[b + k] # R[b + k]}
<1>1. SUFFICES ASSUME Bad # {} PROVE FALSE
  OBVIOUS
<1>2. PICK k \in Bad : \A i \in Bad : k <= i
  <2>1. Bad \in SUBSET Nat
    OBVIOUS
  <2> HIDE DEF Bad
  <2> QED BY <1>1, <2>1, LeastNatural
<1>3. k \in Nat /\ k <= n /\ Q[b + k] # R[b + k]
  BY <1>2
<1>4. PICK h : h = b + k
  OBVIOUS
<1>5. h \in b..(b + n) /\ h \in b..(b + m) /\ (h # b <=> k # 0)
  BY <1>3, <1>4
<1>6. Q[h] = IF h = b THEN x ELSE Issued(Q[h - 1])
  BY <1>5 DEF AreRewards
<1>7. R[h] = IF h = b THEN x ELSE Issued(R[h - 1])
  BY <1>5 DEF AreRewards
<1>8. k # 0 => k - 1 \in Nat /\ k - 1 <= n /\ ~(k <= k - 1) /\ b + (k - 1) = h - 1
  BY <1>3, <1>4
<1>9. k # 0 => Q[h - 1] = R[h - 1]
  BY <1>2, <1>8
<1> QED BY <1>3, <1>4, <1>5, <1>6, <1>7, <1>9

LEMMA RewardedIsLast ==
  ASSUME NEW x, x.height \in Nat, NEW n \in Nat
  PROVE  \E R : AreRewards(R, x, x.height, n) /\ Rewarded(x, x.height + n) = R[x.height + n]
<1> DEFINE R == CHOOSE R : R = [i \in x.height..(x.height + n) |->
                                 IF i = x.height THEN x ELSE Issued(R[i - 1])]
<1>1. AreRewards(R, x, x.height, n)
  <2>1. \E F : AreRewards(F, x, x.height, n)
    BY RewardsExist
  <2>2. \E F : F = [i \in x.height..(x.height + n) |-> IF i = x.height THEN x ELSE Issued(F[i - 1])]
    BY <2>1, Zenon DEF AreRewards
  <2>3. R = [i \in x.height..(x.height + n) |-> IF i = x.height THEN x ELSE Issued(R[i - 1])]
    BY <2>2, Zenon
  <2> HIDE DEF R
  <2> QED BY <2>3 DEF AreRewards
<1>2. Rewarded(x, x.height + n) = R[x.height + n]
  BY DEF Rewarded
<1> HIDE DEF R
<1> QED BY <1>1, <1>2

LEMMA RewardedIs ==
  ASSUME NEW x, x.height \in Nat
  PROVE  /\ Rewarded(x, x.height) = x
         /\ \A h \in Nat : h >= x.height => Rewarded(x, h + 1) = Issued(Rewarded(x, h))
<1>1. PICK b \in Nat : b = x.height
  OBVIOUS
<1>2. Rewarded(x, b) = x
  <2>1. PICK R : AreRewards(R, x, b, 0) /\ Rewarded(x, b + 0) = R[b + 0]
    BY <1>1, RewardedIsLast
  <2>2. b + 0 = b /\ b \in b..(b + 0)
    OBVIOUS
  <2>3. R[b] = x
    BY <2>1, <2>2 DEF AreRewards
  <2> QED BY <2>1, <2>2, <2>3
<1>3. ASSUME NEW h \in Nat, h >= b PROVE Rewarded(x, h + 1) = Issued(Rewarded(x, h))
  <2>1. PICK n \in Nat : h = b + n /\ b + (n + 1) = h + 1 /\ n + 1 \in Nat /\ n <= n + 1
    <3>1. h - b \in Nat /\ h = b + (h - b) /\ b + ((h - b) + 1) = h + 1
      BY <1>3
    <3> QED BY <3>1
  <2>2. PICK Q : AreRewards(Q, x, b, n) /\ Rewarded(x, b + n) = Q[b + n]
    BY <1>1, RewardedIsLast
  <2>3. PICK R : AreRewards(R, x, b, n + 1) /\ Rewarded(x, b + (n + 1)) = R[b + (n + 1)]
    BY <1>1, <2>1, RewardedIsLast
  <2>4. Q[b + n] = R[b + n]
    BY <2>1, <2>2, <2>3, RewardsAgree
  <2>5. h + 1 \in b..(b + (n + 1)) /\ h + 1 # b /\ (h + 1) - 1 = h
    BY <1>3, <2>1
  <2>6. R[h + 1] = Issued(R[h])
    BY <2>3, <2>5 DEF AreRewards
  <2> QED BY <2>1, <2>2, <2>3, <2>4, <2>6
<1> QED BY <1>1, <1>2, <1>3

\* When the conversion is mined, all conversions in front of its place are, and
\* no other is.
LEMMA MinedInPlace ==
  ASSUME NodeInvariant, PhaseOK, FoundOK, ChainInvariant, SeenOK, PathOK, AmountsOK,
         "convert" \in mempool, Parents(Tx("convert")) = {}, NEW X, seen = {X}
  PROVE  InPlace(tip, X)
<1> DEFINE K == Len(found)
           p == draft.place
<1>1. K \in Nat /\ DOMAIN found = 1..K /\ \A i \in 1..K : found[i].name \in DOMAIN Pool \cup DOMAIN own
  BY PlacesKnown DEF FoundOK, FoundKnown
<1>2. "convert" \in DOMAIN own /\ Tx("convert") = own["convert"] /\ "convert" \notin mined
  BY ConvertIsOwn DEF NodeInvariant, NamesKnown
<1>3. p \in 1..(K + 1) /\ (p # 1 => Tx(found[p - 1].name).leaves) /\ Place(p) \in Tx("convert").inputs
  BY <1>2 DEF AmountsOK, PlaceRight, OwnSpends
<1>4. PICK c : IsPath(c, X) /\ Promised(c, X)
  BY <1>2 DEF AmountsOK, PlaceRight
<1>5. phase = "done" /\ IsChain(X) /\ X.end = end
  <2>1. phase = "done"
    BY <1>2 DEF PhaseOK
  <2> QED BY <2>1, SupplyRead DEF ChainInvariant
<1> HIDE DEF p
<1>6. ASSUME NEW j \in 1..p, j # p PROVE j \in 1..K /\ Tx(found[j].name).leaves /\ Place(j + 1) = Convert(found[j].name)
  <2>1. j \in 1..K /\ j + 1 # 1 /\ (j + 1) - 1 = j
    BY <1>1, <1>3, <1>6
  <2>2. CASE j = K
    <3>1. p - 1 = j /\ p # 1
      BY <2>2, <1>1, <1>3, <1>6
    <3> QED BY <2>1, <3>1, <1>3 DEF Place
  <2>3. CASE j # K
    BY <2>1, <2>3, <1>1 DEF PathOK, FoundPath, Place
  <2> QED BY <2>2, <2>3
<1> HIDE DEF K
<1>7. ASSUME NEW j \in 1..K PROVE Place(j) \in Tx(found[j].name).inputs
  BY <1>1 DEF PathOK, FoundPath
\* The places in front are spent in blocks: what is spent in a block is in one.
<1>8. ASSUME NEW j \in 1..p, j # p PROVE found[j].name \in mined
  <2> DEFINE Bad == {i \in Nat : i + 1 < p /\ found[p - 1 - i].name \notin mined}
  <2>1. Bad = {}
    <3> SUFFICES ASSUME Bad # {} PROVE FALSE
      OBVIOUS
    <3>1. PICK i \in Bad : \A l \in Bad : i <= l
      <4>1. Bad \in SUBSET Nat
        OBVIOUS
      <4> HIDE DEF Bad
      <4> QED BY <4>1, LeastNatural
    <3>2. i \in Nat /\ i + 1 < p /\ found[p - 1 - i].name \notin mined
      BY <3>1
    <3>3. PICK m \in 1..K : m = p - 1 - i /\ m + 1 \in 1..p /\ m + 1 # 1 /\ (m + 1) - 1 = m
      BY <3>2, <1>1, <1>3
    <3>4. \E t : Place(m + 1) \in Tx(t).inputs /\ t \in mined \cup {"convert"}
      <4>1. CASE i = 0
        BY <4>1, <3>3, <1>1, <1>3
      <4>2. CASE i # 0
        <5>1. i - 1 \in Nat /\ ~(i <= i - 1) /\ (i - 1) + 1 < p /\ p - 1 - (i - 1) = m + 1 /\ m + 1 \in 1..K
          BY <4>2, <3>2, <3>3, <1>1, <1>3
        <5>2. found[m + 1].name \in mined
          BY <3>1, <5>1
        <5> QED BY <5>1, <5>2, <1>7
      <4> QED BY <4>1, <4>2
    <3>5. Place(m + 1).tx \in mined \cup {"root"}
      <4>1. PICK t \in mined \cup {"convert"} : Place(m + 1) \in Tx(t).inputs
        BY <3>4
      <4>2. CASE t = "convert"
        BY <4>1, <4>2, MinedSpends
      <4>3. CASE t \in mined
        BY <4>1, <4>3 DEF NodeInvariant, SpentOnce
      <4> QED BY <4>2, <4>3
    <3>6. Place(m + 1) = Convert(found[m].name)
      BY <3>3 DEF Place
    <3>7. found[m].name \in mined \cup {"root"}
      BY <3>5, <3>6 DEF Convert
    <3>8. found[m].name # "root"
      BY <1>1, NamesDisjoint DEF NodeInvariant, NamesKnown, OwnNames
    <3> QED BY <3>2, <3>3, <3>7, <3>8
  <2>2. p - 1 - j \in Nat /\ (p - 1 - j) + 1 < p /\ p - 1 - (p - 1 - j) = j
    BY <1>1, <1>3, <1>8
  <2>3. p - 1 - j \notin Bad
    BY <2>1
  <2> QED BY <2>2, <2>3
<1>9. PICK d, q, k : IsRoute(d, q, k, X)
  BY DEF ChainInvariant, TipFollows, Follows
<1>10. /\ k \in Nat /\ d[0] = X /\ d[k] = tip /\ (k # 0 => d[1] = Issued(X))
       /\ \A i \in 1..k : Moves(q[i], d[i - 1], d[i])
  BY <1>9 DEF IsRoute
<1>11. PICK b \in Nat : b = X.height
  BY DEF ChainInvariant, StatesKnown, IsState
\* The blocks go the way that was found, and with the rewards of the heights.
<1> DEFINE Goes(y, j) ==
             /\ j \in 1..p /\ y.end = Place(j) /\ y.height \in Nat
             /\ j = 1 => y = Rewarded(X, y.height)
           Beyond(y, j) == Goes(y, j) /\ y.height > b /\ (y.height = b + 1 => y = c[j])
           AtPlace(i) ==
             /\ i = 0 => Goes(d[i], 1)
             /\ i # 0 => \E j \in 1..p : Beyond(d[i], j)
<1>12. Goes(X, 1) /\ c[1] = Issued(X)
  <2>1. 1 \in 1..p /\ Place(1) = X.end
    BY <1>1, <1>3, <1>5 DEF Place
  <2>2. X = Rewarded(X, X.height)
    BY <1>11, RewardedIs
  <2> QED BY <2>1, <2>2, <1>11, <1>4 DEF IsPath
<1>13. ASSUME NEW y, NEW j, Goes(y, j), y.height >= b PROVE Goes(Issued(y), j) /\ Issued(y).height = y.height + 1
  <2>1. Issued(y).end = y.end /\ Issued(y).height = y.height + 1
    BY IssuedIs
  <2>2. j = 1 => Issued(y) = Rewarded(X, y.height + 1)
    <3> SUFFICES ASSUME j = 1 PROVE Issued(y) = Rewarded(X, y.height + 1)
      OBVIOUS
    <3>1. y = Rewarded(X, y.height) /\ y.height \in Nat /\ y.height >= X.height
      BY <1>11, <1>13
    <3>2. PICK h \in Nat : h = y.height /\ h >= X.height
      BY <3>1
    <3>3. Rewarded(X, h + 1) = Issued(Rewarded(X, h))
      BY <3>2, <1>11, RewardedIs
    <3> QED BY <3>1, <3>2, <3>3
  <2> QED BY <2>1, <2>2, <1>13
<1>14. ASSUME NEW y, NEW j, Beyond(y, j) PROVE Beyond(Issued(y), j)
  <2>1. Goes(Issued(y), j) /\ Issued(y).height = y.height + 1 /\ y.height > b /\ y.height \in Nat
    BY <1>13, <1>14
  <2> HIDE DEF Goes
  <2> QED BY <2>1
<1>15. ASSUME NEW y, NEW j, Beyond(y, j), NEW n \in mined, y.end \in Tx(n).inputs
       PROVE  Beyond(After(y, n), j + 1)
  <2>1. j \in 1..p /\ y.end = Place(j) /\ y.height \in Nat /\ y.height > b /\ (y.height = b + 1 => y = c[j])
    BY <1>15
  <2>2. j # p
    <3> SUFFICES ASSUME j = p PROVE FALSE
      OBVIOUS
    <3>1. Place(p) \in Tx(n).inputs /\ n # "convert"
      BY <2>1, <1>2, <1>15
    <3> QED BY <3>1, <1>3, <1>15 DEF NodeInvariant, SpentOnce
  <2>3. /\ j \in 1..K /\ found[j].name \in mined /\ Place(j) \in Tx(found[j].name).inputs
        /\ Tx(found[j].name).leaves /\ Place(j + 1) = Convert(found[j].name)
    BY <2>1, <2>2, <1>6, <1>7, <1>8
  <2>4. n = found[j].name
    BY <2>1, <2>3, <1>15 DEF NodeInvariant, SpentOnce
  <2>5. After(y, n).end = Place(j + 1) /\ After(y, n).height = y.height
    BY <2>3, <2>4, <1>15, AfterIs
  <2>6. c[j + 1] = After(c[j], n)
    BY <2>3, <2>4, <1>1, <1>4 DEF IsPath
  <2>7. j + 1 \in 1..p /\ j + 1 # 1
    BY <2>1, <2>2, <1>1, <1>3
  <2> QED BY <2>1, <2>5, <2>6, <2>7
<1>16. ASSUME NEW i \in 0..k PROVE AtPlace(i)
  <2> DEFINE Bad == {j \in Nat : j <= k /\ ~AtPlace(j)}
  <2>1. Bad = {}
    <3> SUFFICES ASSUME Bad # {} PROVE FALSE
      OBVIOUS
    <3>1. PICK j \in Bad : \A l \in Bad : j <= l
      <4>1. Bad \in SUBSET Nat
        OBVIOUS
      <4> HIDE DEF Bad
      <4> QED BY <4>1, LeastNatural
    <3>2. j \in Nat /\ j <= k /\ ~AtPlace(j)
      BY <3>1
    <3>3. j # 0
      BY <3>2, <1>10, <1>12
    <3>4. j - 1 \in Nat /\ j - 1 <= k /\ ~(j <= j - 1) /\ j \in 1..k
      BY <3>2, <3>3, <1>10
    <3>5. AtPlace(j - 1)
      BY <3>1, <3>4
    <3>6. CASE j = 1
      <4>1. d[j] = Issued(X) /\ 1 \in 1..p
        BY <3>4, <3>6, <1>10, <1>1, <1>3
      <4>2. Goes(Issued(X), 1) /\ Issued(X).height = b + 1
        <5>1. X.height >= b /\ X.height = b
          BY <1>11
        <5> HIDE DEF Goes
        <5> QED BY <5>1, <1>12, <1>13
      <4>3. Beyond(Issued(X), 1)
        <5> HIDE DEF Goes
        <5> QED BY <4>2, <1>12
      <4> HIDE DEF Beyond
      <4> QED BY <3>2, <3>3, <4>1, <4>3
    <3>7. CASE j # 1
      <4>1. j - 1 # 0
        BY <3>4, <3>7
      <4> HIDE DEF Beyond
      <4>2. PICK m \in 1..p : Beyond(d[j - 1], m)
        BY <3>5, <4>1
      <4>3. Moves(q[j], d[j - 1], d[j])
        BY <3>4, <1>10
      <4>4. \E l : Beyond(d[j], l)
        <5>1. CASE d[j] = Issued(d[j - 1])
          <6>1. Beyond(Issued(d[j - 1]), m)
            BY <4>2, <1>14
          <6> QED BY <5>1, <6>1
        <5>2. CASE q[j] \in mined /\ d[j - 1].end \in Tx(q[j]).inputs /\ d[j] = After(d[j - 1], q[j])
          <6>1. Beyond(After(d[j - 1], q[j]), m + 1)
            BY <4>2, <5>2, <1>15
          <6> QED BY <5>2, <6>1
        <5> QED BY <4>3, <5>1, <5>2 DEF Moves
      <4>5. \E l \in 1..p : Beyond(d[j], l)
        BY <4>4 DEF Beyond
      <4> QED BY <3>2, <3>3, <4>5
    <3> QED BY <3>6, <3>7
  <2>2. i \notin Bad
    BY <2>1
  <2> HIDE DEF AtPlace
  <2> QED BY <2>2, <1>10
\* The place is behind all of those in front of it, as nothing in a block spends it.
<1>17. ASSUME NEW j \in 1..p, tip.end = Place(j) PROVE j = p
  <2> SUFFICES ASSUME j # p PROVE FALSE
    OBVIOUS
  <2>1. j \in 1..K /\ found[j].name \in mined /\ Place(j) \in Tx(found[j].name).inputs
    BY <1>6, <1>7, <1>8
  <2> QED BY <2>1, <1>17 DEF ChainInvariant, TipUnspent
<1>18. AtPlace(k) /\ k \in 0..k
  BY <1>10, <1>16
<1>19. \E j \in 1..p : Goes(tip, j) /\ (k # 0 => Beyond(tip, j))
  <2> HIDE DEF Goes
  <2>1. CASE k = 0
    BY <2>1, <1>1, <1>3, <1>10, <1>18
  <2>2. CASE k # 0
    BY <2>2, <1>10, <1>18
  <2> QED BY <2>1, <2>2
<1>20. Goes(tip, p) /\ (k # 0 => Beyond(tip, p))
  <2>1. PICK j \in 1..p : Goes(tip, j) /\ (k # 0 => Beyond(tip, j))
    BY <1>19
  <2>2. tip.end = Place(j)
    BY <2>1
  <2>3. j = p
    BY <2>2, <1>17
  <2> HIDE DEF Goes, Beyond
  <2> QED BY <2>1, <2>3
<1>21. tip.end = Place(p) /\ (p = 1 => tip = Rewarded(X, tip.height))
  BY <1>20
<1>22. tip.height = X.height + 1 => tip = c[p]
  <2> SUFFICES ASSUME tip.height = b + 1 PROVE tip = c[p]
    BY <1>11
  <2>1. k # 0
    <3>1. k = 0 => tip.height = b
      BY <1>10, <1>11
    <3> QED BY <3>1
  <2> QED BY <2>1, <1>20
<1>23. (p = 1 => Reported(X.supply)) /\ (p # 1 => Reported(c[p].supply))
  BY <1>4 DEF Promised, p
<1>24. p > 1 <=> p # 1
  BY <1>1, <1>3
<1> HIDE DEF Goes, Beyond
<1> QED BY <1>21, <1>22, <1>23, <1>24 DEF p, InPlace

\* The place and the amounts that are chosen.
LEMMA ChooseRight ==
  ASSUME PhaseOK, FoundOK, PathOK, PrevsRight, NEW c \in Commands, Choose(c)
  PROVE  PlaceRight'
<1> DEFINE limits == Parameters(c, TRUE, prevs, state)
           good == {i \in Places : Satisfies(c, prevs[i], limits)}
           best == Min({i \in good : \A j \in i..(Max(good) - 1) : Replaceable(c, j)})
           amounts == Amounts(c, prevs[best], limits)
<1>1. phase = "choose" /\ command' = c /\ found' = found /\ seen' = seen /\ own' = own
  BY DEF Choose, NodeUnchanged, nodeVars
<1>2. \A m : Tx(m)' = Tx(m)
  BY <1>1 DEF Tx
<1>3. SUFFICES ASSUME phase' = "send" PROVE PlaceRight'
  BY <1>1 DEF PhaseOK, PlaceRight
<1>4. draft' = [place |-> best, deepest |-> Max(good), input |-> amounts.input, output |-> amounts.output]
  BY <1>3 DEF Choose
<1> HIDE DEF best, good, limits
<1>5. PICK p : p = best
  OBVIOUS
<1>6. draft'.place = p /\ p \in 1..(Len(found) + 1) /\ p \in Places
  BY <1>1, <1>3, <1>4, <1>5, ChooseChooses DEF Chosen
<1>7. p # 1 => Tx(found[p - 1].name).leaves
  <2> SUFFICES ASSUME p # 1 PROVE Tx(found[p - 1].name).leaves
    OBVIOUS
  <2>1. Len(found) \in Nat /\ DOMAIN found = 1..Len(found)
    BY PlacesKnown DEF FoundOK
  <2>2. CASE p = Len(found) + 1
    <3>1. OpenEnd
      BY <2>1, <2>2, <1>6 DEF Places
    <3>2. found # << >>
      BY <2>2, EmptyIsSequence
    <3>3. Tx(Last(found).name).leaves
      BY <1>1, <3>1, <3>2 DEF OpenEnd, FoundOK, AtIsNext, Looking
    <3> QED BY <2>1, <2>2, <3>3 DEF Last
  <2>3. CASE p # Len(found) + 1
    <3>1. p - 1 \in 1..Len(found) /\ p - 1 # Len(found)
      BY <2>1, <2>3, <1>6
    <3> QED BY <2>1, <3>1 DEF PathOK, FoundPath
  <2> QED BY <2>2, <2>3
<1>8. PICK s : s = prevs[p]
  OBVIOUS
<1>9. Reported(s)'
  <2>1. amounts = Amounts(c, s, limits)
    BY <1>5, <1>8
  <2>2. draft'.input = amounts.input /\ draft'.output = amounts.output
    BY <1>4
  <2> HIDE DEF amounts
  <2>3. CASE c.exactInput
    <3>1. amounts.output = Expected(c, s, amounts.input)
      BY <2>1, <2>3 DEF Amounts
    <3> QED BY <3>1, <2>2, <2>3, <1>1 DEF Reported
  <2>4. CASE ~c.exactInput
    <3>1. amounts.input = Required(c, s, amounts.output)
      BY <2>1, <2>4 DEF Amounts
    <3> QED BY <3>1, <2>2, <2>4, <1>1 DEF Reported
  <2> QED BY <2>3, <2>4
<1>10. ASSUME NEW X, seen' = {X} PROVE \E d : IsPath(d, X)' /\ Promised(d, X)'
  <2>1. PICK d : /\ IsPath(d, X) /\ prevs[1] = X.supply
                 /\ \A i \in 2..(Len(found) + 1) : prevs[i] = d[i].supply
    BY <1>1, <1>10 DEF PrevsRight
  <2>2. (p = 1 => X.supply = s) /\ (p # 1 => d[p].supply = s)
    <3>1. p # 1 => p \in 2..(Len(found) + 1)
      BY <1>6, PlacesKnown DEF FoundOK
    <3> QED BY <2>1, <3>1, <1>8
  <2>3. IsPath(d, X)'
    BY <2>1, <1>1, <1>2, PathStays DEF FoundOK
  <2>4. PICK u, v : u = X.supply /\ v = d[p].supply
    OBVIOUS
  <2>5. (p = 1 => Reported(u)') /\ (p # 1 => Reported(v)')
    BY <2>2, <2>4, <1>9
  <2>6. Promised(d, X)'
    BY <2>4, <2>5, <1>6 DEF Promised
  <2> QED BY <2>3, <2>6
<1>11. Tx(found[p - 1].name)' = Tx(found[p - 1].name)
  <2>1. PICK n : n = found[p - 1].name
    OBVIOUS
  <2>2. n = found'[p - 1].name /\ Tx(n)' = Tx(n)
    BY <2>1, <1>1, <1>2
  <2> QED BY <2>1, <2>2
<1> QED BY <1>1, <1>6, <1>7, <1>10, <1>11 DEF PlaceRight

LEMMA PlaceStays ==
  ASSUME FoundKnown, PlaceRight, found' = found, draft' = draft, command' = command, seen' = seen,
         \A m \in DOMAIN Pool \cup DOMAIN own : Tx(m)' = Tx(m),
         phase' = "send" \/ "convert" \in DOMAIN own' => phase = "send" \/ "convert" \in DOMAIN own
  PROVE  PlaceRight'
<1> SUFFICES ASSUME phase = "send" \/ "convert" \in DOMAIN own
             PROVE  /\ draft.place \in 1..(Len(found) + 1)
                    /\ draft.place # 1 => Tx(found[draft.place - 1].name)'.leaves
                    /\ \A X : seen = {X} => \E c : IsPath(c, X)' /\ Promised(c, X)'
  BY DEF PlaceRight
<1>1. /\ draft.place \in 1..(Len(found) + 1)
      /\ draft.place # 1 => Tx(found[draft.place - 1].name).leaves
  BY DEF PlaceRight
<1>2. draft.place # 1 => Tx(found[draft.place - 1].name)' = Tx(found[draft.place - 1].name)
  <2> SUFFICES ASSUME draft.place # 1
               PROVE  Tx(found[draft.place - 1].name)' = Tx(found[draft.place - 1].name)
    OBVIOUS
  <2>1. draft.place - 1 \in DOMAIN found
    BY <1>1, PlacesKnown
  <2>2. PICK n : n = found[draft.place - 1].name
    OBVIOUS
  <2>3. n = found'[draft.place - 1].name /\ n = found'[draft'.place - 1].name /\ Tx(n)' = Tx(n)
    BY <2>1, <2>2 DEF FoundKnown
  <2> QED BY <2>2, <2>3
<1>3. ASSUME NEW X, seen = {X} PROVE \E c : IsPath(c, X)' /\ Promised(c, X)'
  <2>1. PICK c : IsPath(c, X) /\ Promised(c, X)
    BY <1>3 DEF PlaceRight
  <2>2. IsPath(c, X)'
    BY <2>1, PathStays
  <2>3. PICK u, v : u = X.supply /\ v = c[draft.place].supply
    OBVIOUS
  <2>4. Reported(u)' = Reported(u) /\ Reported(v)' = Reported(v)
    BY DEF Reported
  <2>5. Promised(c, X)'
    BY <2>1, <2>3, <2>4 DEF Promised
  <2> QED BY <2>2, <2>5
<1> QED BY <1>1, <1>2, <1>3

\* The supplies before the places are chosen from.
LEMMA PrevsKept ==
  ASSUME NodeInvariant, PhaseOK, FoundOK, StatesKnown, SeenOK, PathOK, PrevsRight, Next
  PROVE  PrevsRight'
<1> SUFFICES ASSUME phase' = "choose", NEW X, seen' = {X}
             PROVE  \E c : /\ IsPath(c, X)' /\ prevs'[1] = X.supply
                          /\ \A i \in 2..(Len(found') + 1) : prevs'[i] = c[i].supply
  BY DEF PrevsRight
<1>1. \A m \in DOMAIN Pool \cup DOMAIN own : Tx(m)' = Tx(m)
  BY TxStays
<1>2. CASE Outside
  <2>1. phase = "choose" /\ seen = {X} /\ found' = found /\ prevs' = prevs
    BY <1>2, OutsideIs, OutsideSeesNothing DEF lookupVars
  <2>2. PICK c : /\ IsPath(c, X) /\ prevs[1] = X.supply
                 /\ \A i \in 2..(Len(found) + 1) : prevs[i] = c[i].supply
    BY <2>1 DEF PrevsRight
  <2> QED BY <1>1, <2>1, <2>2, PathStays DEF FoundOK
<1>3. CASE WalkEnds
  <2>1. phase = "walk" /\ seen' = seen /\ found' = found /\ found = << >> /\ prevs' = <<state>>
    BY <1>3 DEF WalkEnds, Request
  <2>2. state = X.supply
    BY <2>1, SupplyRead
  <2> DEFINE c == <<Issued(X)>>
  <2>3. c[1] = Issued(X) /\ prevs'[1] = state
    BY <2>1
  <2> HIDE DEF c
  <2>4. Len(found') = 0 /\ DOMAIN found' = {}
    BY <2>1, EmptyIsSequence
  <2>5. PICK d : d[1] = Issued(X)
    BY <2>3
  <2>6. IsPath(d, X)'
    BY <2>4, <2>5, IssuedStays DEF IsPath
  <2>7. 2..(Len(found') + 1) = {}
    BY <2>4
  <2> QED BY <2>2, <2>3, <2>6, <2>7
<1>4. CASE Simulate
  <2>1. found' = found
    BY <1>4 DEF Simulate
  <2>2. PICK c : /\ IsPath(c, X) /\ prevs'[1] = X.supply
                 /\ \A i \in 2..(Len(found) + 1) : prevs'[i] = c[i].supply
    BY <1>4, SimulateRight DEF FoundOK
  <2> QED BY <1>1, <2>1, <2>2, PathStays DEF FoundOK
<1>5. ~Early
  BY EarlyIs DEF Before, Testing
<1>6. ~(\E n \in candidates : Look(n))
  <2>1. ASSUME NEW n \in candidates, Look(n) PROVE phase' \in {"walk", "simulate", "done"}
    BY <2>1 DEF Look, Fail, Request
  <2> QED BY <2>1
<1>7. ~DependsGone /\ ~Send /\ ~(\E c \in Commands : Choose(c))
  BY DEF DependsGone, Fail, Send, Request, Choose
<1> QED BY <1>2, <1>3, <1>4, <1>5, <1>6, <1>7 DEF Next, Lookup, LookupStep, Early, Outside

LEMMA AmountsKept ==
  ASSUME NodeInvariant, PhaseOK, FoundOK, ChainInvariant, SeenOK, PathOK, AmountsOK, Next
  PROVE  AmountsOK'
<1>1. /\ \A m \in DOMAIN Pool \cup DOMAIN own : Tx(m)' = Tx(m)
      /\ DOMAIN own \subseteq DOMAIN own'
  BY TxStays
<1>2. PrevsRight'
  BY PrevsKept DEF AmountsOK, ChainInvariant
<1>3. CASE Outside
  <2>1. phase' = phase /\ lookupVars' = lookupVars /\ own' = own /\ seen' = seen
    BY <1>3, OutsideIs, OutsideSeesNothing
  <2>2. PlaceRight'
    BY <1>1, <2>1, PlaceStays DEF AmountsOK, FoundOK, lookupVars
  <2>3. Place(draft.place)' = Place(draft.place)
    BY <2>1 DEF Place, lookupVars
  <2>4. OwnSpends'
    BY <2>1, <2>3 DEF AmountsOK, OwnSpends
  <2>5. ASSUME NEW y, NEW X, InPlace(y, X) PROVE InPlace(y, X)'
    BY <2>1, <2>5, InPlaceStays
  <2>6. MinedRight'
    <3>1. CASE \E n \in mempool : Mine(n)
      <4>1. PICK n \in mempool : Mine(n)
        BY <3>1
      <4>2. /\ Parents(Tx(n)) = {} /\ mined' = mined \cup {n}
            /\ converted' = IF n = "convert" THEN tip ELSE converted
        BY <4>1, MineIs
      <4>3. PICK y : y = converted'
        OBVIOUS
      <4>4. ASSUME NEW X, seen' = {X}, "convert" \in mined' PROVE InPlace(y, X)
        <5>1. CASE n = "convert"
          <6>1. InPlace(tip, X)
            BY <2>1, <4>2, <4>4, <5>1, MinedInPlace
          <6> QED BY <4>2, <4>3, <5>1, <6>1
        <5>2. CASE n # "convert"
          BY <2>1, <4>2, <4>3, <4>4, <5>2 DEF AmountsOK, MinedRight
        <5> QED BY <5>1, <5>2
      <4>5. ASSUME NEW X, seen' = {X}, "convert" \in mined' PROVE InPlace(y, X)'
        BY <2>5, <4>4, <4>5
      <4> QED BY <4>3, <4>5 DEF MinedRight
    <3>2. CASE mined' = mined /\ converted' = converted
      <4>1. PICK y : y = converted
        OBVIOUS
      <4>2. ASSUME NEW X, seen' = {X}, "convert" \in mined' PROVE InPlace(y, X)'
        <5>1. InPlace(y, X)
          BY <2>1, <3>2, <4>1, <4>2 DEF AmountsOK, MinedRight
        <5> QED BY <5>1, <2>5
      <4>3. y = converted'
        BY <4>1, <3>2
      <4> QED BY <4>2, <4>3 DEF MinedRight
    <3>3. BeginBlock => mined' = mined /\ converted' = converted
      BY DEF BeginBlock
    <3> QED BY <3>1, <3>2, <3>3, NodeMoves
  <2> QED BY <1>2, <2>2, <2>4, <2>6 DEF AmountsOK
<1>4. CASE ~Outside
  <2>1. "convert" \notin DOMAIN own /\ LookupStep
    BY <1>4, SentIs DEF Next, Lookup, Outside
  <2>2. "convert" \notin mined'
    <3>1. "convert" \notin mined
      BY <2>1, ConvertIsOwn
    <3>2. mined' = mined
      BY <1>4, NodeMoves DEF Outside
    <3> QED BY <3>1, <3>2
  <2>3. MinedRight'
    BY <2>2 DEF MinedRight
  <2>4. CASE Send
    <3>1. phase = "send" /\ lookupVars' = lookupVars /\ seen' = seen
      BY <2>4 DEF Send, Request
    <3>2. PlaceRight'
      BY <1>1, <3>1, PlaceStays DEF AmountsOK, FoundOK, lookupVars
    <3>3. Place(draft.place)' = Place(draft.place)
      BY <3>1 DEF Place, lookupVars
    <3>4. OwnSpends'
      <4>1. \/ own' = own
            \/ own'["convert"] = Conversion
        BY <2>4 DEF Send
      <4>2. Conversion.inputs = {Place(draft.place), Coin}
        BY DEF Conversion
      <4> QED BY <2>1, <3>3, <4>1, <4>2 DEF OwnSpends, Coin
    <3> QED BY <1>2, <2>3, <3>2, <3>4 DEF AmountsOK
  <2>5. CASE ~Send
    <3>1. "convert" \notin DOMAIN own'
      <4>1. CASE TestSent
        BY <4>1 DEF TestSent
      <4>2. CASE ReadMempool
        BY <2>1, <4>2 DEF ReadMempool, nodeVars
      <4>3. CASE Asking
        BY <2>1, <4>3, AskingIsQuiet DEF Quietly
      <4> QED BY <2>1, <2>5, <4>1, <4>2, <4>3 DEF LookupStep, Asking
    <3>2. OwnSpends'
      BY <3>1 DEF OwnSpends
    <3>3. PlaceRight'
      <4>1. CASE \E c \in Commands : Choose(c)
        BY <4>1, ChooseRight DEF AmountsOK
      <4>2. CASE ~\E c \in Commands : Choose(c)
        <5>1. phase' # "send"
          <6>1. Early => phase' # "send"
            BY EarlyIs DEF Before, Testing
          <6>2. ASSUME NEW n \in candidates, Look(n) PROVE phase' # "send"
            BY <6>2 DEF Look, Fail, Request
          <6>3. WalkEnds \/ Simulate \/ DependsGone => phase' # "send"
            BY DEF WalkEnds, Simulate, DependsGone, Fail, Request
          <6> QED BY <2>1, <2>5, <4>2, <6>1, <6>2, <6>3 DEF LookupStep, Early
        <5> QED BY <3>1, <5>1 DEF PlaceRight
      <4> QED BY <4>1, <4>2
    <3> QED BY <1>2, <2>3, <3>2, <3>3 DEF AmountsOK
  <2> QED BY <2>4, <2>5
<1> QED BY <1>3, <1>4

(***************************************************************************)
(* The invariant with the chain, what is read of it, and the amounts.      *)
(***************************************************************************)
ChainInv == Inv /\ ChainInvariant /\ SeenOK /\ PathOK /\ AmountsOK

LEMMA InitChain == Init => ChainInv
<1> SUFFICES ASSUME Init PROVE ChainInv
  OBVIOUS
<1>1. Inv
  BY InitInv
<1>2. /\ mined = {} /\ DOMAIN own = {} /\ phase = "start" /\ found = << >> /\ seen = {}
      /\ tip = [supply |-> Supply, end |-> Root, height |-> 0] /\ index = tip /\ state = Supply
      /\ ~mining
  BY DEF Init
<1>3. IsSupply(Supply)
  BY SupplyAssumption DEF IsSupply
<1>4. IsState(tip)
  BY <1>2, <1>3 DEF IsState, IsChain
<1>5. ChainInvariant
  BY <1>2, <1>4, TipIsFollowed
     DEF ChainInvariant, MinedOrdered, Acyclic, TipUnspent, StatesKnown, TipFollows
<1>6. SeenOK
  BY <1>2, <1>3, FS_EmptySet DEF SeenOK
<1>7. PathOK
  BY <1>2, EmptyIsSequence DEF PathOK, FoundPath, FoundTogether
<1>8. AmountsOK
  BY <1>2 DEF AmountsOK, PrevsRight, PlaceRight, OwnSpends, MinedRight
<1> QED BY <1>1, <1>5, <1>6, <1>7, <1>8 DEF ChainInv

LEMMA NextChain == ChainInv /\ [Next]_vars => ChainInv'
<1> SUFFICES ASSUME ChainInv, [Next]_vars PROVE ChainInv'
  OBVIOUS
<1>1. Inv'
  BY NextInv DEF ChainInv
<1>2. CASE Next
  BY <1>1, <1>2, ChainKept, SeenKept, PathKept, AmountsKept DEF ChainInv, Inv, ChainInvariant
<1>3. CASE UNCHANGED vars
  <2>1. /\ mempool' = mempool /\ mined' = mined /\ tip' = tip /\ index' = index /\ own' = own
        /\ phase' = phase /\ lookupVars' = lookupVars /\ seen' = seen /\ converted' = converted
        /\ command' = command /\ found' = found /\ end' = end /\ state' = state /\ prevs' = prevs
        /\ draft' = draft /\ mining' = mining
    BY <1>3 DEF vars, nodeVars, lookupVars
  <2>2. \A n : Tx(n)' = Tx(n)
    BY <2>1 DEF Tx
  <2>3. ChainInvariant'
    <3>1. ASSUME NEW x, Follows(x) PROVE Follows(x)'
      BY <2>1, <2>2, <3>1, RouteStays DEF Same
    <3>2. MinedOrdered'
      BY <2>1, <2>2 DEF ChainInv, ChainInvariant, MinedOrdered, Acyclic
    <3>3. TipUnspent' /\ StatesKnown' /\ TipFollows'
      BY <2>1, <2>2, <3>1 DEF ChainInv, ChainInvariant, TipUnspent, StatesKnown, TipFollows
    <3> QED BY <3>2, <3>3 DEF ChainInvariant
  <2>4. SeenOK'
    BY <2>1 DEF ChainInv, SeenOK
  <2>5. PathOK'
    <3>1. FoundPath'
      BY <2>1, <2>2, FoundPathStays DEF ChainInv, Inv, FoundOK, PathOK
    <3>2. FoundTogether'
      <4>1. FoundNames' = FoundNames
        BY <2>1 DEF FoundNames
      <4>2. ASSUME NEW A, Consistent(A) PROVE Consistent(A)'
        BY <2>1, <2>2, <4>2, ConsistentStays
      <4> QED BY <2>1, <4>1, <4>2 DEF ChainInv, PathOK, FoundTogether
    <3> QED BY <3>1, <3>2 DEF PathOK
  <2>6. AmountsOK'
    <3>1. ASSUME NEW c, NEW x, IsPath(c, x) PROVE IsPath(c, x)'
      BY <2>1, <2>2, <3>1, PathStays DEF ChainInv, Inv, FoundOK
    <3>2. PrevsRight'
      <4> SUFFICES ASSUME phase' = "choose", NEW X, seen' = {X}
                   PROVE  \E c : /\ IsPath(c, X)' /\ prevs'[1] = X.supply
                                /\ \A i \in 2..(Len(found') + 1) : prevs'[i] = c[i].supply
        BY DEF PrevsRight
      <4>1. PICK c : /\ IsPath(c, X) /\ prevs[1] = X.supply
                     /\ \A i \in 2..(Len(found) + 1) : prevs[i] = c[i].supply
        BY <2>1 DEF ChainInv, AmountsOK, PrevsRight
      <4> QED BY <2>1, <3>1, <4>1
    <3>3. PlaceRight'
      BY <2>1, <2>2, PlaceStays DEF ChainInv, Inv, FoundOK, AmountsOK
    <3>4. Place(draft.place)' = Place(draft.place)
      BY <2>1 DEF Place
    <3>5. OwnSpends'
      BY <2>1, <3>4 DEF ChainInv, AmountsOK, OwnSpends
    <3>6. PICK y : y = converted /\ y = converted'
      BY <2>1
    <3>7. ASSUME NEW X, InPlace(y, X) PROVE InPlace(y, X)'
      BY <2>1, <3>7, InPlaceStays
    <3>8. MinedRight'
      BY <2>1, <3>6, <3>7 DEF ChainInv, AmountsOK, MinedRight
    <3> QED BY <3>2, <3>3, <3>5, <3>8 DEF AmountsOK
  <2> QED BY <1>1, <2>3, <2>4, <2>5, <2>6 DEF ChainInv
<1> QED BY <1>2, <1>3

LEMMA ReportedFollows == ChainInv => ReportedIsConverted
BY DEF ChainInv, AmountsOK, MinedRight, InPlace, ReportedIsConverted

(***************************************************************************)
(* The place that is reported for (convert.rs:1044-1062) decides which     *)
(* conversions come first when the transaction is mined, whatever happened *)
(* to the mempool, the blocks and the index since the reads.  Behind       *)
(* others the amounts are those of the block that was simulated; in the    *)
(* first place only the rewards of blocks come between what was read and   *)
(* the conversion.                                                         *)
(***************************************************************************)
THEOREM ReportedConverted == Spec => []ReportedIsConverted
<1>1. Spec => []ChainInv
  BY InitChain, NextChain, PTL DEF Spec
<1> QED BY <1>1, ReportedFollows, PTL
=============================================================================
