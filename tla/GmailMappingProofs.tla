--------------------------- MODULE GmailMappingProofs ---------------------------
(***************************************************************************)
(* Theorems about GmailMapping, for trees of any size and depth: the walks *)
(* visit every part in document order, so that the body is the last text   *)
(* and the attachments are the files.                                      *)
(***************************************************************************)
EXTENDS GmailMapping, SequenceTheorems, TLAPS

\* Where a walk may be: a sequence of indices.
Place == Seq(Nat \ {0})

-----------------------------------------------------------------------------
(* Paths and document order.                                               *)

\* Indices are positive.
LEMMA Indices ==
    ASSUME NEW p \in Place
    PROVE  Len(p) \in Nat /\ \A i \in 1..Len(p) : p[i] \in Nat /\ p[i] # 0
BY LenProperties DEF Place

\* The path of an enclosing part.
LEMMA Enclosing ==
    ASSUME NEW p \in Place, NEW n \in Nat, n <= Len(p)
    PROVE  /\ SubSeq(p, 1, n) \in Place
           /\ Len(SubSeq(p, 1, n)) = n
           /\ \A i \in 1..n : SubSeq(p, 1, n)[i] = p[i]
<1>1. \A i \in 1..n : i \in 1..Len(p)
  BY Indices
<1> QED
  BY <1>1, Indices, SubSeqProperties DEF Place

\* What comes before a path, index by index.
LEMMA BeforeByIndex ==
    ASSUME NEW p \in Place, NEW q \in Place
    PROVE  Before(p, q) <=>
              \/ Len(p) < Len(q) /\ \A i \in 1..Len(p) : p[i] = q[i]
              \/ \E n \in 1..Len(p) : /\ n <= Len(q) /\ p[n] < q[n]
                                      /\ \A i \in 1..(n - 1) : p[i] = q[i]
<1>1. Len(p) \in Nat /\ Len(q) \in Nat
  BY LenProperties DEF Place
<1>2. ASSUME Len(p) < Len(q)
      PROVE  SubSeq(q, 1, Len(p)) = p <=> \A i \in 1..Len(p) : p[i] = q[i]
  <2>1. /\ SubSeq(q, 1, Len(p)) \in Place
        /\ Len(SubSeq(q, 1, Len(p))) = Len(p)
        /\ \A i \in 1..Len(p) : SubSeq(q, 1, Len(p))[i] = q[i]
    BY <1>1, <1>2, Enclosing
  <2>2. ASSUME \A i \in 1..Len(p) : p[i] = q[i]
        PROVE  SubSeq(q, 1, Len(p)) = p
    BY <2>1, <2>2, SeqEqual DEF Place
  <2> QED
    BY <2>1, <2>2
<1>3. ASSUME NEW n \in 1..Len(p), n <= Len(q)
      PROVE  SubSeq(p, 1, n - 1) = SubSeq(q, 1, n - 1) <=> \A i \in 1..(n - 1) : p[i] = q[i]
  <2>1. /\ SubSeq(p, 1, n - 1) \in Place /\ SubSeq(q, 1, n - 1) \in Place
        /\ Len(SubSeq(p, 1, n - 1)) = n - 1 /\ Len(SubSeq(q, 1, n - 1)) = n - 1
        /\ \A i \in 1..(n - 1) : /\ SubSeq(p, 1, n - 1)[i] = p[i]
                                 /\ SubSeq(q, 1, n - 1)[i] = q[i]
    <3>1. n - 1 \in Nat /\ n - 1 <= Len(p) /\ n - 1 <= Len(q)
      BY <1>1, <1>3
    <3> QED
      BY <3>1, Enclosing
  <2>2. ASSUME \A i \in 1..(n - 1) : p[i] = q[i]
        PROVE  SubSeq(p, 1, n - 1) = SubSeq(q, 1, n - 1)
    BY <2>1, <2>2, SeqEqual DEF Place
  <2> QED
    BY <2>1, <2>2
<1> QED
  BY <1>2, <1>3 DEF Before

\* A tree has every part around a part of it.
LEMMA PrefixIsPart ==
    ASSUME NEW tree, IsTree(tree), NEW p \in tree, NEW n \in 0..Len(p)
    PROVE  SubSeq(p, 1, n) \in tree
<1>1. p \in Place /\ Len(p) \in Nat
  BY LenProperties DEF IsTree, Place
<1>2. CASE n = 0
  <2>1. SubSeq(p, 1, 0) = <<>>
    BY <1>1 DEF Place
  <2> QED
    BY <1>2, <2>1 DEF IsTree
<1>3. CASE n # 0
  <2>1. n \in 1..Len(p) /\ p[n] \in 1..p[n]
    BY <1>1, <1>3 DEF Place
  <2>2. Append(SubSeq(p, 1, n - 1), p[n]) \in tree
    BY <2>1 DEF IsTree
  <2>3. Append(SubSeq(p, 1, n - 1), p[n]) = SubSeq(p, 1, n)
    <3> DEFINE s == SubSeq(p, 1, n - 1)
               t == SubSeq(p, 1, n)
    <3>1. /\ s \in Place /\ Len(s) = n - 1 /\ \A i \in 1..(n - 1) : s[i] = p[i]
          /\ t \in Place /\ Len(t) = n /\ \A i \in 1..n : t[i] = p[i]
      BY <1>1, <2>1, Enclosing
    <3>2. p[n] \in Nat \ {0}
      BY <1>1, <2>1 DEF Place
    <3> HIDE DEF s, t
    <3>3. /\ Append(s, p[n]) \in Place /\ Len(Append(s, p[n])) = n
          /\ \A i \in 1..n : Append(s, p[n])[i] = p[i]
      BY <3>1, <3>2, <2>1, AppendProperties DEF Place
    <3>4. Append(s, p[n]) = t
      BY <3>1, <3>3, SeqEqual DEF Place
    <3> QED
      BY <3>4 DEF s, t
  <2> QED
    BY <2>2, <2>3
<1> QED
  BY <1>2, <1>3

\* A tree that goes on at or after the last index of a path has that path.
LEMMA EarlierIsPart ==
    ASSUME NEW tree, IsTree(tree), NEW p \in tree, NEW q \in Place, q # <<>>,
           Len(q) <= Len(p), \A i \in 1..(Len(q) - 1) : p[i] = q[i], q[Len(q)] <= p[Len(q)]
    PROVE  q \in tree
<1> DEFINE n == Len(q)
<1>1. /\ p \in Place /\ Len(p) \in Nat
      /\ n \in Nat \ {0} /\ n \in 1..Len(p) /\ q[n] \in 1..p[n]
  <2>1. p \in Place /\ Len(p) \in Nat /\ n \in Nat \ {0}
    BY LenProperties, EmptySeq DEF IsTree, Place
  <2>2. n \in 1..Len(p) /\ q[n] \in Nat \ {0} /\ p[n] \in Nat \ {0}
    BY <2>1, ElementOfSeq DEF Place
  <2> QED
    BY <2>1, <2>2
<1>2. Append(SubSeq(p, 1, n - 1), q[n]) \in tree
  BY <1>1 DEF IsTree
<1>3. Append(SubSeq(p, 1, n - 1), q[n]) = q
  <2> DEFINE s == SubSeq(p, 1, n - 1)
  <2>1. s \in Place /\ Len(s) = n - 1 /\ \A i \in 1..(n - 1) : s[i] = q[i]
    <3>1. n - 1 \in Nat /\ n - 1 <= Len(p)
      BY <1>1
    <3> QED
      BY <1>1, <3>1, Enclosing
  <2>2. q[n] \in Nat \ {0}
    BY <1>1 DEF Place
  <2> HIDE DEF s
  <2>3. /\ Append(s, q[n]) \in Place /\ Len(Append(s, q[n])) = n
        /\ \A i \in 1..n : Append(s, q[n])[i] = q[i]
    BY <1>1, <2>1, <2>2, AppendProperties DEF Place
  <2>4. Append(s, q[n]) = q
    BY <2>3, SeqEqual DEF Place
  <2> QED
    BY <2>4 DEF s
<1> QED
  BY <1>2, <1>3

-----------------------------------------------------------------------------
(* The walk.                                                               *)

\* Going into a part leaves that part behind, and nothing else.
LEMMA IntoPart ==
    ASSUME NEW p \in Place, NEW q \in Place
    PROVE  Before(p, Append(q, 1)) <=> Before(p, q) \/ p = q
<1> DEFINE r == Append(q, 1)
<1>1. /\ r \in Place /\ Len(r) = Len(q) + 1 /\ r[Len(q) + 1] = 1
      /\ \A i \in 1..Len(q) : r[i] = q[i]
  BY AppendProperties DEF Place
<1>2. Len(p) \in Nat /\ Len(q) \in Nat
  BY LenProperties DEF Place
<1>3. \A i \in 1..Len(p) : p[i] \in Nat \ {0}
  BY DEF Place
<1> HIDE DEF r
<1>4. ASSUME Before(p, r)
      PROVE  Before(p, q) \/ p = q
  <2>1. CASE Len(p) < Len(r) /\ \A i \in 1..Len(p) : p[i] = r[i]
    <3>1. \A i \in 1..Len(p) : p[i] = q[i]
      BY <1>1, <1>2, <2>1
    <3>2. CASE Len(p) = Len(q)
      BY <3>1, <3>2, SeqEqual DEF Place
    <3>3. CASE Len(p) < Len(q)
      BY <3>1, <3>3, BeforeByIndex
    <3> QED
      BY <1>1, <1>2, <2>1, <3>2, <3>3
  <2>2. ASSUME NEW n \in 1..Len(p), n <= Len(r), p[n] < r[n],
               \A i \in 1..(n - 1) : p[i] = r[i]
        PROVE  Before(p, q)
    <3>1. n <= Len(q)
      BY <1>1, <1>2, <1>3, <2>2
    <3>2. p[n] < q[n] /\ \A i \in 1..(n - 1) : p[i] = q[i]
      BY <1>1, <1>2, <2>2, <3>1
    <3> QED
      BY <3>1, <3>2, BeforeByIndex
  <2> QED
    BY <1>1, <1>4, <2>1, <2>2, BeforeByIndex
<1>5. ASSUME Before(p, q)
      PROVE  Before(p, r)
  <2>1. CASE Len(p) < Len(q) /\ \A i \in 1..Len(p) : p[i] = q[i]
    <3>1. Len(p) < Len(r) /\ \A i \in 1..Len(p) : p[i] = r[i]
      BY <1>1, <1>2, <2>1
    <3> QED
      BY <1>1, <3>1, BeforeByIndex
  <2>2. ASSUME NEW n \in 1..Len(p), n <= Len(q), p[n] < q[n],
               \A i \in 1..(n - 1) : p[i] = q[i]
        PROVE  Before(p, r)
    <3>1. n <= Len(r) /\ p[n] < r[n] /\ \A i \in 1..(n - 1) : p[i] = r[i]
      BY <1>1, <1>2, <2>2
    <3> QED
      BY <1>1, <3>1, BeforeByIndex
  <2> QED
    BY <1>5, <2>1, <2>2, BeforeByIndex
<1>6. Before(q, r)
  BY <1>1, <1>2, BeforeByIndex
<1> QED
  BY <1>4, <1>5, <1>6 DEF r

\* Of a tree without the path q nothing lies between q and the next sibling of
\* the part around it.
LEMMA PastSiblings ==
    ASSUME NEW tree, IsTree(tree), NEW p \in tree, NEW q \in Place, q \notin tree,
           NEW r \in Place, r # <<>>, Len(q) = Len(r) + 1,
           \A i \in 1..(Len(r) - 1) : q[i] = r[i], r[Len(r)] = q[Len(r)] + 1
    PROVE  Before(p, r) <=> Before(p, q)
<1>1. /\ p \in Place /\ Len(p) \in Nat /\ Len(q) \in Nat /\ Len(r) \in Nat \ {0}
  BY LenProperties, EmptySeq DEF IsTree, Place
<1>2. /\ \A i \in 1..Len(p) : p[i] \in Nat
      /\ \A i \in 1..Len(q) : q[i] \in Nat
      /\ \A i \in 1..Len(r) : r[i] \in Nat
  BY <1>1, Indices
<1> DEFINE m == Len(r)
<1>0. /\ m \in Nat \ {0} /\ Len(r) = m /\ Len(q) = m + 1 /\ m \in 1..Len(q)
      /\ r[m] = q[m] + 1 /\ \A i \in 1..(m - 1) : q[i] = r[i]
  BY <1>1
<1> HIDE DEF m
<1>3. ASSUME Before(p, r)
      PROVE  Before(p, q)
  <2>1. CASE Len(p) < m /\ \A i \in 1..Len(p) : p[i] = r[i]
    <3>1. Len(p) < Len(q) /\ \A i \in 1..Len(p) : p[i] = q[i]
      BY <1>0, <1>1, <2>1
    <3> QED
      BY <1>0, <1>1, <3>1, BeforeByIndex
  <2>2. ASSUME NEW n \in 1..Len(p), n <= m, p[n] < r[n],
               \A i \in 1..(n - 1) : p[i] = r[i]
        PROVE  Before(p, q)
    <3>1. \A i \in 1..(n - 1) : p[i] = q[i]
      BY <1>0, <1>1, <2>2
    <3>2. CASE n < m \/ p[n] < q[n]
      <4>1. n <= Len(q) /\ p[n] < q[n]
        BY <1>0, <1>1, <1>2, <2>2, <3>2
      <4> QED
        BY <1>0, <1>1, <3>1, <4>1, BeforeByIndex
    <3>3. CASE n = m /\ p[n] = q[n]
      <4>1. \A i \in 1..m : p[i] = q[i]
        BY <1>0, <1>1, <3>1, <3>3
      <4>2. CASE Len(p) = m
        BY <1>0, <1>1, <4>1, <4>2, BeforeByIndex
      <4>3. CASE Len(p) > m
        <5>1. m + 1 \in 1..Len(p) /\ m + 1 <= Len(q) /\ m + 1 = Len(q)
          BY <1>0, <1>1, <4>3
        <5>2. ASSUME q[m + 1] <= p[m + 1]
              PROVE  FALSE
          <6>1. q # <<>>
            BY <1>0, EmptySeq
          <6>2. /\ Len(q) <= Len(p) /\ q[Len(q)] <= p[Len(q)]
                /\ \A i \in 1..(Len(q) - 1) : p[i] = q[i]
            BY <1>0, <1>1, <4>1, <5>1, <5>2
          <6> QED
            BY <6>1, <6>2, EarlierIsPart
        <5>3. p[m + 1] < q[m + 1]
          BY <1>0, <1>1, <1>2, <5>1, <5>2
        <5>4. \A i \in 1..(m + 1 - 1) : p[i] = q[i]
          BY <1>0, <1>1, <4>1
        <5> QED
          BY <1>0, <1>1, <5>1, <5>3, <5>4, BeforeByIndex
      <4> QED
        BY <1>0, <1>1, <2>2, <3>3, <4>2, <4>3
    <3> QED
      BY <1>0, <1>1, <1>2, <2>2, <3>2, <3>3
  <2> QED
    BY <1>0, <1>1, <1>3, <2>1, <2>2, BeforeByIndex
<1>4. ASSUME Before(p, q)
      PROVE  Before(p, r)
  <2>1. CASE Len(p) < Len(q) /\ \A i \in 1..Len(p) : p[i] = q[i]
    <3>1. CASE Len(p) < m
      <4>1. \A i \in 1..Len(p) : p[i] = r[i]
        BY <1>0, <1>1, <2>1, <3>1
      <4> QED
        BY <1>0, <1>1, <3>1, <4>1, BeforeByIndex
    <3>2. CASE Len(p) = m
      <4>1. m \in 1..Len(p) /\ p[m] < r[m] /\ \A i \in 1..(m - 1) : p[i] = r[i]
        BY <1>0, <1>1, <1>2, <2>1, <3>2
      <4> QED
        BY <1>0, <1>1, <4>1, BeforeByIndex
    <3> QED
      BY <1>0, <1>1, <2>1, <3>1, <3>2
  <2>2. ASSUME NEW n \in 1..Len(p), n <= Len(q), p[n] < q[n],
               \A i \in 1..(n - 1) : p[i] = q[i]
        PROVE  Before(p, r)
    <3>1. CASE n <= m
      <4>1. p[n] < r[n] /\ \A i \in 1..(n - 1) : p[i] = r[i]
        BY <1>0, <1>1, <1>2, <2>2, <3>1
      <4> QED
        BY <1>0, <1>1, <3>1, <4>1, BeforeByIndex
    <3>2. CASE n > m
      <4>1. m \in 1..Len(p) /\ p[m] < r[m] /\ \A i \in 1..(m - 1) : p[i] = r[i]
        BY <1>0, <1>1, <1>2, <2>2, <3>2
      <4> QED
        BY <1>0, <1>1, <4>1, BeforeByIndex
    <3> QED
      BY <1>0, <1>1, <3>1, <3>2
  <2> QED
    BY <1>0, <1>1, <1>4, <2>1, <2>2, BeforeByIndex
<1> QED
  BY <1>3, <1>4

\* A tree without a k-th part in the payload has nothing there or later.
LEMMA PastTheLast ==
    ASSUME NEW tree, IsTree(tree), NEW p \in tree, NEW q \in Place, Len(q) = 1, q \notin tree
    PROVE  Before(p, q)
<1>1. p \in Place /\ Len(p) \in Nat /\ q[1] \in Nat
  BY LenProperties DEF IsTree, Place
<1>2. CASE Len(p) = 0
  BY <1>1, <1>2, BeforeByIndex
<1>3. CASE Len(p) > 0
  <2>1. p[1] \in Nat
    BY <1>1, <1>3 DEF Place
  <2>2. ASSUME q[1] <= p[1]
        PROVE  FALSE
    <3>1. q # <<>>
      BY EmptySeq
    <3>2. /\ Len(q) <= Len(p) /\ q[Len(q)] <= p[Len(q)]
          /\ \A i \in 1..(Len(q) - 1) : p[i] = q[i]
      BY <1>1, <1>3, <2>2
    <3> QED
      BY <3>1, <3>2, EarlierIsPart
  <2>3. 1 \in 1..Len(p) /\ 1 <= Len(q) /\ p[1] < q[1] /\ \A i \in 1..(1 - 1) : p[i] = q[i]
    BY <1>1, <1>3, <2>1, <2>2
  <2> QED
    BY <1>1, <2>3, BeforeByIndex
<1> QED
  BY <1>1, <1>2, <1>3

\* Before the payload's first part there is the payload.
LEMMA BeforeTheFirst ==
    ASSUME NEW p \in Place
    PROVE  Before(p, <<1>>) <=> p = <<>>
<1>1. <<1>> \in Place /\ Len(<<1>>) = 1 /\ <<1>>[1] = 1 /\ <<>> \in Place /\ Len(<<>>) = 0
  BY DEF Place
<1>2. Len(p) \in Nat /\ \A i \in 1..Len(p) : p[i] \in Nat \ {0}
  BY LenProperties DEF Place
<1>3. Len(p) = 0 <=> p = <<>>
  BY <1>2, EmptySeq DEF Place
<1> QED
  BY <1>1, <1>2, <1>3, BeforeByIndex

\* A payload with a part has a first one.
LEMMA FirstPart ==
    ASSUME NEW tree, IsTree(tree), tree # {<<>>}
    PROVE  <<1>> \in tree
<1>1. PICK p \in tree : p # <<>>
  BY DEF IsTree
<1>2. p \in Place /\ Len(p) \in Nat \ {0}
  BY <1>1, EmptySeq DEF IsTree, Place
<1>3. 1 \in 1..Len(p) /\ p[1] \in Nat \ {0}
  BY <1>2 DEF Place
<1>4. /\ <<1>> \in Place /\ <<1>> # <<>> /\ Len(<<1>>) <= Len(p)
      /\ \A i \in 1..(Len(<<1>>) - 1) : p[i] = <<1>>[i]
      /\ <<1>>[Len(<<1>>)] <= p[Len(<<1>>)]
  BY <1>2, <1>3 DEF Place
<1> QED
  BY <1>4, EarlierIsPart

-----------------------------------------------------------------------------
(* Type correctness.                                                       *)

\* Types, and between the walks no loop is under way.
TypeInv == TypeOK /\ (pc \in {"start", "done"} => at = <<>>)

\* A message is a tree, and its content is in leaves.
LEMMA PayloadIsTree ==
    ASSUME payload \in Payloads
    PROVE  /\ IsTree(Paths) /\ None \notin Paths
           /\ <<1>> \in Paths => <<>> \notin Texts("plain") \cup Texts("html") \cup Texts("text")
<1>1. PICK t \in Trees : payload \in [t -> Parts]
  BY DEF Payloads
<1>2. Paths = t
  BY <1>1 DEF Paths
<1>3. Append(<<>>, 1) = <<1>>
  OBVIOUS
<1>4. WellFormed(payload)
  BY DEF Payloads
<1> QED
  BY <1>2, <1>3, <1>4, MappingAssumption DEF WellFormed, Paths, Texts, IsTree

\* A loop that ends goes on with a sibling of the part around it.
LEMMA NextSibling ==
    ASSUME TypeInv, at # <<>>, Caller(at) # <<>>
    PROVE  LET next == [Caller(at) EXCEPT ![Len(Caller(at))] = @ + 1] IN
           /\ next \in Place /\ next # <<>> /\ Len(at) = Len(next) + 1
           /\ Caller(next) \in Paths
           /\ \A i \in 1..(Len(next) - 1) : at[i] = next[i]
           /\ next[Len(next)] = at[Len(next)] + 1
<1> DEFINE q == Caller(at)
           n == Len(q)
           next == [q EXCEPT ![n] = @ + 1]
<1>1. at \in Place /\ Len(at) \in Nat \ {0} /\ q \in Paths
  BY EmptySeq DEF TypeInv, TypeOK, Place
<1>2. /\ q \in Place /\ n = Len(at) - 1 /\ n \in Nat
      /\ \A i \in 1..n : q[i] = at[i]
  <2>1. Len(at) - 1 \in Nat /\ Len(at) - 1 <= Len(at)
    BY <1>1
  <2> QED
    BY <1>1, <2>1, Enclosing DEF Caller
<1>3. n \in 1..n /\ q[n] + 1 \in Nat \ {0} /\ q[n] = at[n]
  <2>1. n # 0
    BY <1>2, EmptySeq DEF Place
  <2> QED
    BY <1>2, <2>1, Indices
<1> HIDE DEF q, n
<1>4. /\ next \in Place /\ Len(next) = Len(q)
      /\ \A i \in 1..Len(q) : next[i] = IF i = n THEN q[n] + 1 ELSE q[i]
  BY <1>2, <1>3, ExceptSeq DEF Place, n
<1> HIDE DEF next
<1>5. Caller(next) = Caller(q)
  <2>1. /\ n - 1 \in Nat /\ n - 1 <= Len(q) /\ n - 1 <= Len(next)
        /\ Len(q) = n /\ Len(next) = n
    BY <1>2, <1>3, <1>4 DEF n
  <2>2. /\ Caller(q) \in Place /\ Len(Caller(q)) = n - 1
        /\ \A i \in 1..(n - 1) : Caller(q)[i] = q[i]
    BY <1>2, <2>1, Enclosing DEF Caller
  <2>3. /\ Caller(next) \in Place /\ Len(Caller(next)) = n - 1
        /\ \A i \in 1..(n - 1) : Caller(next)[i] = next[i]
    BY <1>4, <2>1, Enclosing DEF Caller
  <2>4. \A i \in 1..(n - 1) : next[i] = q[i]
    BY <1>4, <2>1
  <2> QED
    BY <2>2, <2>3, <2>4, SeqEqual DEF Place
<1>6. Caller(q) \in Paths
  <2>1. n - 1 \in 0..Len(q)
    BY <1>2, <1>3 DEF n
  <2> QED
    BY <1>1, <2>1, PayloadIsTree, PrefixIsPart DEF Caller, TypeInv, TypeOK, n
<1>7. /\ Len(at) = Len(next) + 1
      /\ \A i \in 1..(Len(next) - 1) : at[i] = next[i]
      /\ next[Len(next)] = at[Len(next)] + 1
      /\ next # <<>>
  BY <1>1, <1>2, <1>3, <1>4, EmptySeq DEF n
<1> QED
  BY <1>4, <1>5, <1>6, <1>7 DEF q, n, next

\* Going into a part starts a loop over the parts of a part.
LEMMA LoopStarts ==
    ASSUME NEW p \in Place
    PROVE  Append(p, 1) \in Place /\ Append(p, 1) # <<>> /\ Caller(Append(p, 1)) = p
<1> DEFINE q == Append(p, 1)
<1>1. /\ q \in Place /\ Len(q) = Len(p) + 1 /\ Len(p) \in Nat /\ Len(p) <= Len(q)
      /\ \A i \in 1..Len(p) : q[i] = p[i]
  BY AppendProperties, LenProperties DEF Place
<1> HIDE DEF q
<1>2. SubSeq(q, 1, Len(p)) = p
  BY <1>1, Enclosing, SeqEqual DEF Place
<1>3. Len(q) - 1 = Len(p) /\ Len(q) # 0
  BY <1>1
<1> QED
  BY <1>1, <1>2, <1>3, EmptySeq DEF q, Caller

\* Whatever the mapper does, the types are kept.
LEMMA TypeStep == TypeInv /\ [Next]_vars => TypeInv'
<1> SUFFICES ASSUME TypeInv, [Next]_vars
             PROVE  TypeInv'
  OBVIOUS
<1>0. at \in Place /\ Paths \subseteq Place /\ <<>> \in Paths
  BY PayloadIsTree DEF TypeInv, TypeOK, IsTree, Place
<1>1. <<1>> \in Place /\ <<1>> # <<>> /\ Caller(<<1>>) = <<>>
  <2>1. <<>> \in Place /\ Append(<<>>, 1) = <<1>>
    BY DEF Place
  <2> QED
    BY <2>1, LoopStarts
<1>2. CASE StartBody
  BY <1>0, <1>1, <1>2 DEF TypeInv, TypeOK, StartBody, Paths, Place
<1>3. CASE WalkBody
  <2>1. at' \in Place /\ at' # <<>> /\ Caller(at') = at /\ at \in Paths
    BY <1>0, <1>3, LoopStarts DEF WalkBody, WalkParts, HasPart
  <2> QED
    BY <1>3, <2>1 DEF TypeInv, TypeOK, WalkBody, KeepText, Paths, Place
<1>4. CASE StartFiles
  <2>1. <<<<>>>> \in Seq(Paths)
    BY <1>0
  <2> QED
    BY <1>0, <1>1, <1>4, <2>1 DEF TypeInv, TypeOK, StartFiles, Paths, Place
<1>5. CASE WalkFiles
  <2>1. at' \in Place /\ at' # <<>> /\ Caller(at') = at /\ at \in Paths
    BY <1>0, <1>5, LoopStarts DEF WalkFiles, WalkParts, HasPart
  <2>2. attachments' \in Seq(Paths)
    BY <1>5, <2>1, AppendProperties DEF TypeInv, TypeOK, WalkFiles
  <2> QED
    BY <1>5, <2>1, <2>2 DEF TypeInv, TypeOK, WalkFiles, Paths, Place
<1>6. CASE LoopEnds
  <2>1. at' \in Place /\ (at' # <<>> => Caller(at') \in Paths)
    BY <1>0, <1>6, NextSibling DEF LoopEnds, Place
  <2> QED
    BY <1>6, <2>1 DEF TypeInv, TypeOK, LoopEnds, Paths, Place
<1>7. CASE Finish
  BY <1>7 DEF TypeInv, TypeOK, Finish, Paths
<1>8. CASE UNCHANGED vars
  BY <1>8 DEF TypeInv, TypeOK, vars, Paths
<1> QED
  BY <1>2, <1>3, <1>4, <1>5, <1>6, <1>7, <1>8 DEF Next

LEMMA TypeInit == Init => TypeInv
<1> SUFFICES ASSUME Init
             PROVE  TypeInv
  OBVIOUS
<1>1. <<>> \in Seq(Nat \ {0}) /\ <<>> \in Seq(Paths)
  OBVIOUS
<1> QED
  BY <1>1 DEF Init, TypeInv, TypeOK

\* Every variable stays within its type, whatever the tree: the mapper never looks
\* at a part that is not there.
THEOREM TypeCorrect == Spec => []TypeOK
<1>1. TypeInv => TypeOK
  BY DEF TypeInv
<1> QED
  BY <1>1, TypeInit, TypeStep, PTL DEF Spec

-----------------------------------------------------------------------------
(* What a walk has seen.                                                   *)

\* The parts a walk has behind it: all that come before the one it looks at.
Seen == IF at = <<>> THEN Paths ELSE {p \in Paths : Before(p, at)}

\* A walk starts with the payload behind it, unless there is nothing to walk.
LEMMA SeenAtStart ==
    ASSUME TypeInv, UNCHANGED payload, at' = << 1 >>
    PROVE  Seen' = {<<>>}
<1>1. IsTree(Paths) /\ Paths' = Paths
  BY PayloadIsTree DEF TypeInv, TypeOK, Paths
<1>2. Paths \subseteq Place /\ <<>> \in Paths /\ at' # <<>>
  BY <1>1 DEF IsTree, Place
<1>3. Seen' = {p \in Paths : Before(p, <<1>>)}
  BY <1>1, <1>2 DEF Seen, Before
<1> QED
  BY <1>2, <1>3, BeforeTheFirst

\* Looking at a part adds it to those behind the walk.
LEMMA SeenIntoPart ==
    ASSUME TypeInv, UNCHANGED payload, HasPart(at), WalkParts(at)
    PROVE  Seen' = Seen \cup {at}
<1>1. at \in Place /\ Paths \subseteq Place /\ at \in Paths /\ at # <<>> /\ Paths' = Paths
  BY PayloadIsTree DEF TypeInv, TypeOK, IsTree, Place, HasPart, Paths
<1>2. at' = Append(at, 1) /\ at' # <<>>
  BY <1>1, LoopStarts DEF WalkParts
<1>3. Seen' = {p \in Paths : Before(p, Append(at, 1))}
  BY <1>1, <1>2 DEF Seen, Before
<1>4. Seen = {p \in Paths : Before(p, at)}
  BY <1>1 DEF Seen
<1> QED
  BY <1>1, <1>3, <1>4, IntoPart

\* A loop that ends has nothing more to show.
LEMMA SeenAtLoopEnd ==
    ASSUME TypeInv, LoopEnds
    PROVE  Seen' = Seen
<1>1. /\ at \in Place /\ Paths \subseteq Place /\ IsTree(Paths) /\ Paths' = Paths
      /\ at \notin Paths /\ at # <<>>
  BY PayloadIsTree DEF TypeInv, TypeOK, IsTree, Place, HasPart, Paths, LoopEnds
<1>2. Seen = {p \in Paths : Before(p, at)}
  BY <1>1 DEF Seen
<1>3. CASE Caller(at) = <<>>
  <2>1. at' = <<>>
    BY <1>3 DEF LoopEnds
  <2>2. Len(at) = 1
    <3>1. Len(at) - 1 \in Nat /\ Len(at) - 1 <= Len(at)
      BY <1>1, EmptySeq DEF Place
    <3>2. Len(Caller(at)) = Len(at) - 1 /\ Len(Caller(at)) = 0
      BY <1>1, <1>3, <3>1, Enclosing DEF Caller
    <3> QED
      BY <3>1, <3>2
  <2> QED
    BY <1>1, <1>2, <2>1, <2>2, PastTheLast DEF Seen
<1>4. CASE Caller(at) # <<>>
  <2>1. /\ at' \in Place /\ at' # <<>> /\ Len(at) = Len(at') + 1
        /\ \A i \in 1..(Len(at') - 1) : at[i] = at'[i]
        /\ at'[Len(at')] = at[Len(at')] + 1
    BY <1>1, <1>4, NextSibling DEF LoopEnds
  <2>2. \A p \in Paths : Before(p, at') <=> Before(p, at)
    BY <1>1, <2>1, PastSiblings
  <2>3. Seen' = {p \in Paths : Before(p, at')}
    BY <1>1, <2>1 DEF Seen, Before
  <2> QED
    BY <1>2, <2>2, <2>3
<1> QED
  BY <1>3, <1>4

-----------------------------------------------------------------------------
(* The body.                                                               *)

\* Of the texts seen so far the walk holds the last plain and the last HTML one.
BodyInv ==
    /\ TypeInv
    /\ pc = "start" => plainText = None /\ html = None /\ attachments = <<>>
    /\ pc # "start" =>
          LET seen == IF pc = "body" THEN Seen ELSE Paths IN
          /\ IsLast(plainText, Texts("plain") \cap seen)
          /\ IsLast(html, Texts("html") \cap seen)
    /\ pc = "done" => body = IF plainText # None THEN plainText ELSE html

\* The part looked at comes after all that the walk has behind it.
LEMMA LastSoFar ==
    ASSUME TypeInv, HasPart(at), NEW texts \in SUBSET Paths, NEW p, IsLast(p, texts \cap Seen)
    PROVE  IsLast(IF at \in texts THEN at ELSE p, texts \cap (Seen \cup {at}))
<1>1. Seen = {q \in Paths : Before(q, at)}
  BY DEF HasPart, Seen
<1> QED
  BY <1>1 DEF IsLast

\* Each text that is found replaces the one before it in document order.
LEMMA BodyStep == BodyInv /\ [Next]_vars => BodyInv'
<1> SUFFICES ASSUME BodyInv, [Next]_vars
             PROVE  BodyInv'
  OBVIOUS
<1>0. TypeInv /\ TypeInv'
  BY TypeStep DEF BodyInv
<1>1. /\ IsTree(Paths) /\ <<>> \in Paths /\ None \notin Paths
      /\ <<1>> \in Paths => <<>> \notin Texts("plain") \cup Texts("html") \cup Texts("text")
      /\ \A type : Texts(type) \subseteq Paths
  BY <1>0, PayloadIsTree DEF TypeInv, TypeOK, IsTree, Texts
<1>2. payload' = payload
  BY DEF Next, StartBody, WalkBody, StartFiles, WalkFiles, LoopEnds, Finish, vars
<1>3. Paths' = Paths /\ \A type : Texts(type)' = Texts(type)
  BY <1>2 DEF Paths, Texts
<1>4. CASE StartBody
  <2>1. plainText = None /\ html = None /\ attachments = <<>> /\ pc' = "body"
    BY <1>4 DEF BodyInv, StartBody
  <2>2. CASE \E type \in {"plain", "html", "text"} : <<>> \in Texts(type)
    <3>1. Paths = {<<>>}
      BY <1>1, <2>2, FirstPart
    <3>2. Seen' = {<<>>}
      BY <1>3, <1>4, <2>2, <3>1 DEF StartBody, Seen
    <3>3. /\ IsLast(plainText', Texts("plain") \cap {<<>>})
          /\ IsLast(html', Texts("html") \cap {<<>>})
      BY <1>4, <2>1 DEF StartBody, IsLast
    <3> QED
      BY <1>0, <1>3, <1>4, <2>1, <3>2, <3>3 DEF BodyInv, StartBody, IsLast, Before
  <2>3. CASE \A type \in {"plain", "html", "text"} : <<>> \notin Texts(type)
    <3>1. at' = <<1>> /\ plainText' = None /\ html' = None
      BY <1>4, <2>1, <2>3 DEF StartBody
    <3>2. Seen' = {<<>>}
      BY <1>0, <1>2, <3>1, SeenAtStart
    <3>3. IsLast(None, Texts("plain") \cap {<<>>}) /\ IsLast(None, Texts("html") \cap {<<>>})
      BY <2>3 DEF IsLast
    <3> QED
      BY <1>0, <1>3, <2>1, <3>1, <3>2, <3>3 DEF BodyInv, IsLast, Before
  <2> QED
    BY <2>2, <2>3
<1>5. CASE WalkBody
  <2>1. Seen' = Seen \cup {at} /\ pc = "body" /\ pc' = "body" /\ HasPart(at)
    BY <1>0, <1>5, SeenIntoPart DEF WalkBody
  <2>2. /\ IsLast(plainText', Texts("plain") \cap (Seen \cup {at}))
        /\ IsLast(html', Texts("html") \cap (Seen \cup {at}))
    BY <1>0, <1>1, <1>5, <2>1, LastSoFar DEF BodyInv, WalkBody, KeepText
  <2> QED
    BY <1>0, <1>3, <2>1, <2>2 DEF BodyInv, IsLast, Before
<1>6. CASE LoopEnds
  <2>1. Seen' = Seen /\ UNCHANGED <<pc, plainText, html, body>> /\ pc \in {"body", "files"}
    BY <1>0, <1>6, SeenAtLoopEnd DEF LoopEnds
  <2> QED
    BY <1>0, <1>3, <2>1 DEF BodyInv, IsLast, Before
<1>7. CASE StartFiles
  <2>1. Seen = Paths /\ UNCHANGED <<plainText, html, body>> /\ pc = "body" /\ pc' = "files"
    BY <1>7 DEF StartFiles, Seen
  <2> QED
    BY <1>0, <1>3, <2>1 DEF BodyInv, IsLast, Before
<1>8. CASE WalkFiles
  BY <1>0, <1>3, <1>8 DEF BodyInv, WalkFiles, IsLast, Before
<1>9. CASE Finish
  BY <1>0, <1>3, <1>9 DEF BodyInv, Finish, IsLast, Before
<1>10. CASE UNCHANGED vars
  <2>1. Seen' = Seen
    BY <1>3, <1>10 DEF vars, Seen, Before
  <2> QED
    BY <1>0, <1>3, <1>10, <2>1 DEF BodyInv, vars, IsLast, Before
<1> QED
  BY <1>4, <1>5, <1>6, <1>7, <1>8, <1>9, <1>10 DEF Next

\* Of a message of any shape, the body is the last plain text in document order at
\* any depth, else the last HTML, else nothing.
THEOREM LastTextIsBody == Spec => []BodyIsLastText
<1>1. Init => BodyInv
  BY TypeInit DEF Init, BodyInv
<1>2. BodyInv => BodyIsLastText
  <2> SUFFICES ASSUME BodyInv, pc = "done"
               PROVE  IsLast(body, IF Texts("plain") # {} THEN Texts("plain") ELSE Texts("html"))
    BY DEF BodyIsLastText
  <2>1. /\ Texts("plain") \cap Paths = Texts("plain") /\ Texts("html") \cap Paths = Texts("html")
        /\ None \notin Texts("plain")
    BY PayloadIsTree DEF BodyInv, TypeInv, TypeOK, Texts
  <2>2. IsLast(plainText, Texts("plain")) /\ IsLast(html, Texts("html"))
    BY <2>1 DEF BodyInv
  <2> QED
    BY <2>1, <2>2 DEF BodyInv, IsLast
<1> QED
  BY <1>1, <1>2, BodyStep, PTL DEF Spec

-----------------------------------------------------------------------------
(* The attachments.                                                        *)

\* The files that are to become attachments: not the payload if it has parts.
Wanted == {p \in Files : p = <<>> => Paths = {<<>>}}

\* The attachments are the files the walk has behind it, in document order.
FilesInv ==
    /\ TypeInv
    /\ {attachments[i] : i \in DOMAIN attachments} =
           CASE pc \in {"start", "body"} -> {}
             [] pc = "files" -> Wanted \cap Seen
             [] pc = "done" -> Wanted
    /\ \A i, j \in DOMAIN attachments : i < j => Before(attachments[i], attachments[j])

\* Each file that is found comes after those found before it.
LEMMA FilesStep == FilesInv /\ [Next]_vars => FilesInv'
<1> SUFFICES ASSUME FilesInv, [Next]_vars
             PROVE  FilesInv'
  OBVIOUS
<1>0. TypeInv /\ TypeInv'
  BY TypeStep DEF FilesInv
<1>1. /\ IsTree(Paths) /\ <<>> \in Paths /\ Wanted \subseteq Paths
      /\ attachments \in Seq(Paths)
  BY <1>0, PayloadIsTree DEF TypeInv, TypeOK, IsTree, Wanted, Files
<1>2. payload' = payload
  BY DEF Next, StartBody, WalkBody, StartFiles, WalkFiles, LoopEnds, Finish, vars
<1>3. Paths' = Paths /\ Files' = Files /\ Wanted' = Wanted
  BY <1>2 DEF Paths, Files, Wanted
<1>4. CASE StartBody
  BY <1>0, <1>4 DEF FilesInv, StartBody, Before
<1>5. CASE WalkBody
  BY <1>0, <1>5 DEF FilesInv, WalkBody, Before
<1>6. CASE StartFiles
  <2>1. pc = "body" /\ pc' = "files" /\ at = <<>>
    BY <1>6 DEF StartFiles
  <2>2. attachments = <<>>
    <3>1. Len(attachments) \in Nat /\ DOMAIN attachments = 1..Len(attachments)
      BY <1>1, LenProperties
    <3>2. DOMAIN attachments = {}
      BY <2>1 DEF FilesInv
    <3>3. Len(attachments) = 0
      BY <3>1, <3>2
    <3> QED
      BY <1>1, <3>3, EmptySeq
  <2>3. CASE <<1>> \in Paths
    <3>1. at' = <<1>> /\ attachments' = <<>>
      BY <1>6, <2>2, <2>3 DEF StartFiles
    <3>2. Seen' = {<<>>} /\ <<>> \notin Wanted
      BY <1>0, <1>2, <2>3, <3>1, SeenAtStart DEF Wanted
    <3> QED
      BY <1>0, <1>3, <2>1, <3>1, <3>2 DEF FilesInv, Before
  <2>4. CASE <<1>> \notin Paths
    <3>1. Paths = {<<>>}
      BY <1>1, <2>4, FirstPart
    <3>2. at' = <<>> /\ attachments' = IF <<>> \in Files THEN <<<<>>>> ELSE <<>>
      BY <1>6, <2>1, <2>2, <2>4 DEF StartFiles
    <3>3. Seen' = {<<>>} /\ Wanted = IF <<>> \in Files THEN {<<>>} ELSE {}
      BY <1>3, <3>1, <3>2 DEF Seen, Wanted, Files
    <3>4. {attachments'[i] : i \in DOMAIN attachments'} = Wanted \cap {<<>>}
      BY <3>2, <3>3
    <3>5. \A i, j \in DOMAIN attachments' : ~(i < j)
      BY <3>2
    <3> QED
      BY <1>0, <1>3, <2>1, <3>3, <3>4, <3>5 DEF FilesInv
  <2> QED
    BY <2>3, <2>4
<1>7. CASE WalkFiles
  <2>1. /\ Seen' = Seen \cup {at} /\ Seen = {p \in Paths : Before(p, at)}
        /\ pc = "files" /\ pc' = "files" /\ at \in Paths /\ at # <<>>
    BY <1>0, <1>7, SeenIntoPart DEF WalkFiles, HasPart, Seen
  <2>2. CASE at \notin Files
    <3>1. attachments' = attachments /\ at \notin Wanted
      BY <1>7, <2>2 DEF WalkFiles, Wanted
    <3>2. Wanted \cap Seen' = Wanted \cap Seen
      BY <2>1, <3>1
    <3>3. {attachments'[i] : i \in DOMAIN attachments'} = Wanted \cap Seen
      BY <2>1, <3>1 DEF FilesInv
    <3> QED
      BY <1>0, <1>3, <2>1, <3>1, <3>2, <3>3 DEF FilesInv, Before
  <2>3. CASE at \in Files
    <3> DEFINE n == Len(attachments)
    <3>1. at \in Wanted /\ attachments' = Append(attachments, at)
      BY <1>7, <2>1, <2>3 DEF WalkFiles, Wanted
    <3>2. /\ n \in Nat /\ DOMAIN attachments = 1..n /\ DOMAIN attachments' = 1..(n + 1)
          /\ attachments'[n + 1] = at /\ \A i \in 1..n : attachments'[i] = attachments[i]
      BY <1>1, <2>1, <3>1, AppendProperties, LenProperties
    <3> HIDE DEF n
    <3>3. {attachments'[i] : i \in DOMAIN attachments'} =
             {attachments[i] : i \in DOMAIN attachments} \cup {at}
      <4>1. 1..(n + 1) = (1..n) \cup {n + 1}
        BY <3>2
      <4> QED
        BY <3>2, <4>1
    <3>4. \A i \in 1..n : Before(attachments[i], at)
      BY <2>1, <3>2 DEF FilesInv
    <3>5. ASSUME NEW i \in DOMAIN attachments', NEW j \in DOMAIN attachments', i < j
          PROVE  Before(attachments'[i], attachments'[j])
      <4>1. i \in 1..n
        BY <3>2, <3>5
      <4>2. CASE j = n + 1
        BY <3>2, <3>4, <4>1, <4>2
      <4>3. CASE j \in 1..n
        BY <3>2, <3>5, <4>1, <4>3 DEF FilesInv
      <4> QED
        BY <3>2, <4>2, <4>3
    <3> QED
      BY <1>0, <1>3, <2>1, <3>1, <3>3, <3>5 DEF FilesInv, Before
  <2> QED
    BY <2>2, <2>3
<1>8. CASE LoopEnds
  <2>1. Seen' = Seen /\ UNCHANGED <<pc, attachments>>
    BY <1>0, <1>8, SeenAtLoopEnd DEF LoopEnds
  <2> QED
    BY <1>0, <1>3, <2>1 DEF FilesInv, Before
<1>9. CASE Finish
  <2>1. Seen = Paths /\ pc = "files" /\ pc' = "done" /\ UNCHANGED attachments
    BY <1>9 DEF Finish, Seen
  <2> QED
    BY <1>0, <1>1, <1>3, <2>1 DEF FilesInv, Before
<1>10. CASE UNCHANGED vars
  <2>1. Seen' = Seen
    BY <1>3, <1>10 DEF vars, Seen, Before
  <2> QED
    BY <1>0, <1>3, <1>10, <2>1 DEF FilesInv, vars, Before
<1> QED
  BY <1>4, <1>5, <1>6, <1>7, <1>8, <1>9, <1>10 DEF Next

\* Of a message of any shape, the attachments are its files, each of them once and
\* in document order, inside attached messages too.
THEOREM FilesAreAttachments == Spec => []FilesInOrder
<1>1. Init => FilesInv
  BY TypeInit DEF Init, FilesInv
<1>2. FilesInv => FilesInOrder
  BY DEF FilesInv, FilesInOrder, Wanted
<1> QED
  BY <1>1, <1>2, FilesStep, PTL DEF Spec

=============================================================================
