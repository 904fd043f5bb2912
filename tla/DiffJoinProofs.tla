---------------------------- MODULE DiffJoinProofs ----------------------------
(***************************************************************************)
(* Theorems about DiffJoin, for every number of object versions, tags and  *)
(* refs, with and without repeated and redacted ones: the four properties  *)
(* that its runs check.                                                    *)
(*                                                                         *)
(* The results of the queries are put together with FlattenSeq, which is   *)
(* recursive.  What it returns is shown with an induction on the number of *)
(* parts: a set that has 0 and with each number the next one has all of    *)
(* them (SetInduction), so that no theorem with an operator as parameter   *)
(* is needed.                                                              *)
(***************************************************************************)
EXTENDS DiffJoin, TLAPS, FiniteSetTheorems, SequenceTheorems, WellFoundedInduction

\* ORDER BY id, version.
SortedByKey(s) == \A i, j \in 1..Len(s) : i < j => s[i].key <= s[j].key

\* Something in s belongs to object version k.
Has(s, k) == \E i \in 1..Len(s) : s[i].key = k

\* How much of s belongs to object version k.
Count(s, k) == Cardinality({i \in 1..Len(s) : s[i].key = k})

\* The details of object version k are all there, in their order and each of
\* them as often as the object version is wanted.
Whole(details, count, k) ==
    LET all == Repeated(count, k) IN
    \E p \in 0..Len(details) :
        /\ p + Len(all) <= Len(details)
        /\ \A m \in 1..Len(all) : details[p + m] = [key |-> k, n |-> all[m]]
        /\ \A i \in 1..Len(details) : details[i].key = k => p < i /\ i <= p + Len(all)

\* A list of details, from the cursor on.
ListOK(details, count) ==
    /\ details \in Seq(Detail)
    /\ SortedByKey(details)
    /\ \A i \in 1..Len(details) : wanted[details[i].key] > 0 /\ count[details[i].key] > 0
    /\ \A k \in Key : Has(details, k) => Whole(details, count, k)

\* The cursor is at the beginning.
Fresh(details, count) ==
    \A k \in Key : wanted[k] > 0 /\ count[k] > 0 => Has(details, k)

\* An object version that was skipped has details up to k.
Blocked(count, k) == \E b \in redacted : b <= k /\ wanted[b] > 0 /\ count[b] > 0

\* Whose details are left when `rest' is left of the rows: those of the object
\* versions that are still to come, of one that is wanted twice only as long as
\* its first copy is.  A skipped object version blocks all that.
CursorOK(details, count, rest) ==
    /\ \A i \in 1..Len(details) : Has(rest, details[i].key) \/ Blocked(count, details[i].key)
    /\ \A k \in Key \ redacted :
          /\ wanted[k] > 0 /\ count[k] > 0 /\ Count(rest, k) = wanted[k] => Has(details, k)
          /\ Has(details, k) /\ Count(rest, k) < wanted[k] => Behind(count, k)

\* An object as it is written.
Object == [key : Key, tags : Seq(Nat), refs : Seq(Nat)]

\* The rows that are left; they say which object versions were redacted when
\* the objects were read, and nothing is redacted in the merge.
RowsOK ==
    /\ rows \in Seq(Row)
    /\ SortedByKey(rows)
    /\ \A i \in 1..Len(rows) : rows[i].ignored <=> rows[i].key \in redacted

\* What is in the diff and what is still to come.
DiffOK ==
    /\ diff \in Seq(Object)
    /\ SortedByKey(diff)
    /\ \A i \in 1..Len(diff), j \in 1..Len(rows) : diff[i].key <= rows[j].key
    /\ query = "merge" =>
          \A k \in Key : Count(diff, k) + (IF k \in redacted THEN 0 ELSE Count(rows, k))
                           = IF k \in redacted THEN 0 ELSE wanted[k]

\* The types of what is not a sequence.
Database ==
    /\ tagsOf \in [Key -> 0..MaxTags]
    /\ refsOf \in [Key -> 0..MaxRefs]
    /\ stampOf \in [Key -> Stamps]
    /\ redacted \subseteq Key
    /\ wanted \in [Key -> 0..2]
    /\ query \in {"tags", "refs", "rows", "merge"}
    /\ maxStamp \in {0} \cup Stamps

\* The inductive invariant.  Before the merge, both lists are as they were read;
\* in the merge, what is left of them belongs to rows that are left, unless a
\* skipped object version is in the way.
IInv ==
    /\ Database
    /\ ListOK(tags, tagsOf) /\ ListOK(refs, refsOf)
    /\ RowsOK
    /\ DiffOK
    /\ query # "merge" => rows = <<>> /\ diff = <<>>
    /\ query \in {"refs", "rows"} => Fresh(tags, tagsOf)
    /\ query = "rows" => Fresh(refs, refsOf)
    /\ query = "merge" => CursorOK(tags, tagsOf, rows) /\ CursorOK(refs, refsOf, rows)
    /\ AllOrNone
    /\ CompleteUpToSkipped

-----------------------------------------------------------------------------

\* Induction on the natural numbers, with a set instead of a predicate.
LEMMA SetInduction ==
    ASSUME NEW S, 0 \in S, \A n \in Nat : n \in S => n + 1 \in S
    PROVE  Nat \subseteq S
  <1> DEFINE T == Nat \ S
  <1> SUFFICES ASSUME T # {} PROVE FALSE
    OBVIOUS
  <1>1. T \subseteq Nat
    OBVIOUS
  <1>2. PICK n \in T : \A m \in T : ~(<<m, n>> \in OpToRel(<, Nat))
    BY <1>1, NatLessThanWellFounded, WFMin, Zenon
  <1>3. n \in Nat /\ n \notin S /\ n # 0
    OBVIOUS
  <1>4. n - 1 \in Nat /\ n - 1 < n /\ (n - 1) + 1 = n
    BY <1>3
  <1>5. n - 1 \notin S
    BY <1>3, <1>4
  <1>6. <<n - 1, n>> \in OpToRel(<, Nat)
    <2>1. PICK m : m = n - 1
      OBVIOUS
    <2>2. m \in Nat /\ m < n
      BY <1>4, <2>1
    <2> QED
      BY <1>3, <2>1, <2>2, Zenon DEF OpToRel
  <1> QED
    BY <1>2, <1>4, <1>5, <1>6

\* f has the parts of s put together up to each of them.
Flattens(f, s, n) ==
    f = [i \in 1..n |-> IF i = 1 THEN s[i] ELSE f[i - 1] \o s[i]]

\* The equation of f at one index ...
LEMMA FlattensAt ==
    ASSUME NEW f, NEW s, NEW n, Flattens(f, s, n)
    PROVE  \A i \in 1..n : f[i] = IF i = 1 THEN s[i] ELSE f[i - 1] \o s[i]
  <1> DEFINE e(i) == IF i = 1 THEN s[i] ELSE f[i - 1] \o s[i]
  <1>1. f = [i \in 1..n |-> e(i)]
    BY DEF Flattens
  <1>2. \A i \in 1..n : f[i] = e(i)
    <2> HIDE DEF e
    <2> QED
      BY <1>1
  <1> QED
    BY <1>2

\* ... and as a recurrence.
LEMMA FlattensNext ==
    ASSUME NEW f, NEW s, NEW n \in Nat, Flattens(f, s, n)
    PROVE  /\ n # 0 => f[1] = s[1]
           /\ \A i \in Nat \ {0} : i + 1 <= n => f[i + 1] = f[i] \o s[i + 1]
  <1> DEFINE e(i) == f[i - 1] \o s[i]
  <1>1. \A i \in 1..n : (i = 1 => f[i] = s[i]) /\ (i # 1 => f[i] = e(i))
    <2>1. \A i \in 1..n : f[i] = IF i = 1 THEN s[i] ELSE f[i - 1] \o s[i]
      BY FlattensAt
    <2> QED
      BY <2>1, Zenon
  <1>2. ASSUME NEW i \in Nat \ {0}, i + 1 <= n PROVE f[i + 1] = f[i] \o s[i + 1]
    <2>1. i + 1 \in 1..n /\ i + 1 # 1 /\ (i + 1) - 1 = i
      BY <1>2
    <2>2. f[i + 1] = e(i + 1)
      BY <1>1, <2>1, Zenon
    <2> QED
      BY <2>1, <2>2
  <1>3. ASSUME n # 0 PROVE f[1] = s[1]
    <2>1. 1 \in 1..n
      BY <1>3
    <2> QED
      BY <1>1, <2>1, Zenon
  <1> QED
    BY <1>2, <1>3

\* There is such an f for every number of parts.
LEMMA FlattenExists ==
    ASSUME NEW s, NEW k \in Nat
    PROVE  \E f : Flattens(f, s, k)
  <1> DEFINE S == {n \in Nat : \E f : Flattens(f, s, n)}
  <1>1. 0 \in S
    <2>1. Flattens([i \in 1..0 |-> 0], s, 0)
      BY DEF Flattens
    <2> QED
      BY <2>1
  <1>2. ASSUME NEW n \in Nat, n \in S PROVE n + 1 \in S
    <2>1. PICK f : Flattens(f, s, n)
      BY <1>2
    <2> DEFINE g == [i \in 1..(n + 1) |-> IF i <= n THEN f[i] ELSE IF i = 1 THEN s[i] ELSE f[i - 1] \o s[i]]
    <2>2. ASSUME NEW i \in 1..(n + 1) PROVE g[i] = IF i = 1 THEN s[i] ELSE g[i - 1] \o s[i]
      <3>0. \A j \in 1..n : f[j] = IF j = 1 THEN s[j] ELSE f[j - 1] \o s[j]
        BY <2>1, FlattensAt
      <3>1. CASE i = 1
        BY <3>0, <3>1
      <3>2. CASE i # 1
        <4>1. i - 1 \in 1..n /\ i - 1 \in 1..(n + 1) /\ i - 1 <= n
          BY <3>2
        <4>2. g[i - 1] = f[i - 1]
          BY <4>1
        <4>3. g[i] = f[i - 1] \o s[i]
          <5>1. CASE i <= n
            <6>1. f[i] = f[i - 1] \o s[i]
              <7>1. i \in 1..n
                BY <5>1
              <7>2. f[i] = IF i = 1 THEN s[i] ELSE f[i - 1] \o s[i]
                BY <3>0, <7>1, Zenon
              <7> QED
                BY <3>2, <7>2, Zenon
            <6>2. g[i] = f[i]
              BY <5>1
            <6> QED
              BY <6>1, <6>2
          <5>2. CASE ~(i <= n)
            BY <3>2, <5>2
          <5> QED
            BY <5>1, <5>2
        <4> QED
          BY <3>2, <4>2, <4>3
      <3> QED
        BY <3>1, <3>2
    <2>3. Flattens(g, s, n + 1)
      <3> HIDE DEF g
      <3>1. g = [i \in 1..(n + 1) |-> g[i]]
        BY DEF g
      <3> QED
        BY <2>2, <3>1 DEF Flattens
    <2> HIDE DEF g
    <2> QED
      BY <2>3
  <1> HIDE DEF S
  <1>3. k \in S
    BY <1>1, <1>2, SetInduction
  <1> QED
    BY <1>3 DEF S

\* FlattenSeq has all the parts put together.
LEMMA Flatten ==
    ASSUME NEW s, Len(s) \in Nat, Len(s) # 0
    PROVE  \E f : Flattens(f, s, Len(s)) /\ FlattenSeq(s) = f[Len(s)]
  <1> DEFINE f == CHOOSE g : Flattens(g, s, Len(s))
  <1>1. Flattens(f, s, Len(s))
    BY FlattenExists
  <1>2. FlattenSeq(s) = f[Len(s)]
    BY DEF FlattenSeq, Flattens
  <1> QED
    BY <1>1, <1>2

\* The first n parts of s in r: where each of them starts, one after the other.
Blocks(r, s, n, start) ==
    /\ start \in [1..n -> Nat]
    /\ \A i \in 1..n : /\ start[i] + Len(s[i]) <= Len(r)
                       /\ \A j \in 1..Len(s[i]) : r[start[i] + j] = s[i][j]
    /\ \A i, j \in 1..n : i < j => start[i] + Len(s[i]) <= start[j]
    /\ \A p \in 1..Len(r) : \E i \in 1..n : \E j \in 1..Len(s[i]) : p = start[i] + j

\* One part more.
LEMMA NextBlock ==
    ASSUME NEW V, NEW m \in Nat, NEW s \in [1..m -> Seq(V)], NEW n \in Nat, n + 1 <= m,
           NEW r \in Seq(V), NEW start, Blocks(r, s, n, start)
    PROVE  /\ r \o s[n + 1] \in Seq(V)
           /\ \E next : Blocks(r \o s[n + 1], s, n + 1, next)
  <1> DEFINE q == r \o s[n + 1]
             next == [i \in 1..(n + 1) |-> IF i <= n THEN start[i] ELSE Len(r)]
  <1>1. n + 1 \in 1..m /\ s[n + 1] \in Seq(V) /\ Len(r) \in Nat /\ Len(s[n + 1]) \in Nat
    OBVIOUS
  <1>2. /\ q \in Seq(V) /\ Len(q) = Len(r) + Len(s[n + 1])
        /\ \A p \in 1..Len(r) : q[p] = r[p]
        /\ \A j \in 1..Len(s[n + 1]) : q[Len(r) + j] = s[n + 1][j]
    BY <1>1
  <1>3. /\ start \in [1..n -> Nat]
        /\ \A i \in 1..n : start[i] \in Nat /\ i \in 1..m /\ s[i] \in Seq(V) /\ Len(s[i]) \in Nat
    BY DEF Blocks
  <1>4. /\ next \in [1..(n + 1) -> Nat] /\ next[n + 1] = Len(r)
        /\ \A i \in 1..n : next[i] = start[i]
    BY <1>1, <1>3
  <1> HIDE DEF q, next
  <1>5. ASSUME NEW i \in 1..(n + 1)
        PROVE  /\ next[i] + Len(s[i]) <= Len(q)
               /\ \A j \in 1..Len(s[i]) : q[next[i] + j] = s[i][j]
    <2>1. CASE i = n + 1
      BY <1>1, <1>2, <1>4, <2>1
    <2>2. CASE i # n + 1
      <3>1. i \in 1..n /\ start[i] + Len(s[i]) <= Len(r) /\ next[i] = start[i]
        BY <1>4, <2>2 DEF Blocks
      <3>2. ASSUME NEW j \in 1..Len(s[i]) PROVE q[next[i] + j] = s[i][j]
        <4>1. r[start[i] + j] = s[i][j]
          BY <3>1 DEF Blocks
        <4>2. start[i] + j \in 1..Len(r)
          BY <1>1, <1>3, <3>1
        <4> QED
          BY <1>2, <3>1, <4>1, <4>2
      <3> QED
        BY <1>1, <1>2, <1>3, <3>1, <3>2
    <2> QED
      BY <2>1, <2>2
  <1>6. ASSUME NEW i \in 1..(n + 1), NEW j \in 1..(n + 1), i < j
        PROVE  next[i] + Len(s[i]) <= next[j]
    <2>1. i \in 1..n
      BY <1>6
    <2>2. CASE j = n + 1
      BY <1>4, <2>1, <2>2 DEF Blocks
    <2>3. CASE j # n + 1
      BY <1>4, <1>6, <2>1, <2>3 DEF Blocks
    <2> QED
      BY <2>2, <2>3
  <1>7. ASSUME NEW p \in 1..Len(q)
        PROVE  \E i \in 1..(n + 1) : \E j \in 1..Len(s[i]) : p = next[i] + j
    <2>1. CASE p <= Len(r)
      <3>1. p \in 1..Len(r)
        BY <1>1, <2>1
      <3>2. PICK i \in 1..n : \E j \in 1..Len(s[i]) : p = start[i] + j
        BY <3>1 DEF Blocks
      <3> QED
        BY <1>4, <3>2
    <2>2. CASE ~(p <= Len(r))
      <3>1. p - Len(r) \in 1..Len(s[n + 1]) /\ p = Len(r) + (p - Len(r))
        BY <1>1, <1>2, <2>2
      <3>2. PICK j \in 1..Len(s[n + 1]) : p = Len(r) + j
        BY <3>1
      <3> QED
        BY <1>4, <3>2
    <2> QED
      BY <2>1, <2>2
  <1>8. Blocks(q, s, n + 1, next)
    BY <1>4, <1>5, <1>6, <1>7 DEF Blocks
  <1> QED
    BY <1>2, <1>8 DEF q

\* FlattenSeq puts the parts one after the other.
LEMMA FlattenBlocks ==
    ASSUME NEW V, NEW m \in Nat, NEW s \in [1..m -> Seq(V)]
    PROVE  /\ FlattenSeq(s) \in Seq(V)
           /\ \E start : Blocks(FlattenSeq(s), s, m, start)
  <1>0. s \in Seq(Seq(V)) /\ Len(s) = m
    OBVIOUS
  <1>1. Blocks(<<>>, s, 0, [i \in 1..0 |-> 0])
    BY DEF Blocks
  <1>2. <<>> \in Seq(V)
    OBVIOUS
  <1>3. CASE m = 0
    <2>1. s = <<>> /\ FlattenSeq(s) = s
      BY <1>0, <1>3 DEF FlattenSeq
    <2> QED
      BY <1>1, <1>2, <1>3, <2>1
  <1>4. CASE m # 0
    <2>1. PICK f : Flattens(f, s, m) /\ FlattenSeq(s) = f[m]
      BY <1>0, <1>4, Flatten
    <2>2. f[1] = s[1] /\ \A i \in Nat \ {0} : i + 1 <= m => f[i + 1] = f[i] \o s[i + 1]
      BY <1>4, <2>1, FlattensNext
    <2> DEFINE S == {n \in Nat : n \in 1..m => f[n] \in Seq(V) /\ \E start : Blocks(f[n], s, n, start)}
    <2>3. 0 \in S
      OBVIOUS
    <2>4. ASSUME NEW n \in Nat, n \in S PROVE n + 1 \in S
      <3> SUFFICES ASSUME n + 1 \in 1..m
                   PROVE  f[n + 1] \in Seq(V) /\ \E start : Blocks(f[n + 1], s, n + 1, start)
        OBVIOUS
      <3>1. CASE n = 0
        <4>1. f[1] = <<>> \o s[1]
          <5>1. 1 \in 1..m /\ s[1] \in Seq(V) /\ f[1] = s[1]
            BY <1>4, <2>2
          <5> QED
            BY <5>1
        <4>2. /\ <<>> \o s[0 + 1] \in Seq(V)
              /\ \E next : Blocks(<<>> \o s[0 + 1], s, 0 + 1, next)
          <5>1. 0 \in Nat /\ 0 + 1 <= m
            BY <1>4
          <5> QED
            BY <1>1, <1>2, <5>1, NextBlock
        <4>3. 0 + 1 = 1 /\ n + 1 = 1
          BY <3>1
        <4> QED
          BY <4>1, <4>2, <4>3
      <3>2. CASE n # 0
        <4>1. n \in 1..m /\ f[n + 1] = f[n] \o s[n + 1]
          <5>1. n \in Nat \ {0} /\ n \in 1..m /\ n + 1 <= m
            BY <3>2
          <5> QED
            BY <2>2, <5>1
        <4>2. f[n] \in Seq(V) /\ \E start : Blocks(f[n], s, n, start)
          BY <2>4, <4>1
        <4>3. PICK start : Blocks(f[n], s, n, start)
          BY <4>2
        <4>4. n + 1 <= m
          OBVIOUS
        <4>5. /\ f[n] \o s[n + 1] \in Seq(V)
              /\ \E next : Blocks(f[n] \o s[n + 1], s, n + 1, next)
          BY <4>2, <4>3, <4>4, NextBlock
        <4> QED
          BY <4>1, <4>5
      <3> QED
        BY <3>1, <3>2
    <2> HIDE DEF S
    <2>5. m \in S
      BY <2>3, <2>4, SetInduction
    <2> QED
      BY <1>4, <2>1, <2>5 DEF S
  <1> QED
    BY <1>3, <1>4

\* Parts of one element each.
LEMMA FlattenSingles ==
    ASSUME NEW V, NEW m \in Nat, NEW x \in [1..m -> V]
    PROVE  FlattenSeq([i \in 1..m |-> <<x[i]>>]) = x
  <1> DEFINE s == [i \in 1..m |-> <<x[i]>>]
  <1> SUFFICES FlattenSeq(s) = x
    OBVIOUS
  <1>s. \A i \in 1..m : s[i] = <<x[i]>>
    OBVIOUS
  <1>0. s \in Seq(Seq(V)) /\ Len(s) = m
    OBVIOUS
  <1> HIDE DEF s
  <1>1. CASE m = 0
    BY <1>0, <1>1 DEF FlattenSeq
  <1>2. CASE m # 0
    <2>1. PICK f : Flattens(f, s, m) /\ FlattenSeq(s) = f[m]
      BY <1>0, <1>2, Flatten
    <2>2. f[1] = <<x[1]>> /\ \A i \in Nat \ {0} : i + 1 <= m => f[i + 1] = f[i] \o <<x[i + 1]>>
      <3>1. f[1] = s[1] /\ \A i \in Nat \ {0} : i + 1 <= m => f[i + 1] = f[i] \o s[i + 1]
        BY <1>2, <2>1, FlattensNext
      <3>3. 1 \in 1..m /\ \A i \in Nat \ {0} : i + 1 <= m => i + 1 \in 1..m
        BY <1>2
      <3> QED
        BY <1>s, <3>1, <3>3
    <2> DEFINE S == {n \in Nat : n \in 1..m => f[n] = [i \in 1..n |-> x[i]]}
    <2>3. 0 \in S
      OBVIOUS
    <2>4. ASSUME NEW n \in Nat, n \in S PROVE n + 1 \in S
      <3> SUFFICES ASSUME n + 1 \in 1..m PROVE f[n + 1] = [i \in 1..(n + 1) |-> x[i]]
        OBVIOUS
      <3>1. CASE n = 0
        <4>1. f[1] = <<x[1]>> /\ n + 1 = 1
          BY <2>2, <3>1
        <4>2. <<x[1]>> = [i \in 1..1 |-> x[i]]
          OBVIOUS
        <4> QED
          BY <4>1, <4>2
      <3>2. CASE n # 0
        <4>1. n \in 1..m /\ f[n + 1] = f[n] \o <<x[n + 1]>>
          <5>1. n \in Nat \ {0} /\ n \in 1..m /\ n + 1 <= m
            BY <3>2
          <5> QED
            BY <2>2, <5>1
        <4>2. f[n] = [i \in 1..n |-> x[i]]
          BY <2>4, <4>1
        <4>3. [i \in 1..n |-> x[i]] \in Seq(V) /\ x[n + 1] \in V
          <5>1. \A i \in 1..n : i \in 1..m /\ x[i] \in V
            BY <4>1
          <5> QED
            BY <5>1
        <4>4. [i \in 1..n |-> x[i]] \o <<x[n + 1]>> = [i \in 1..(n + 1) |-> x[i]]
          BY <4>3
        <4> QED
          BY <4>1, <4>2, <4>4
      <3> QED
        BY <3>1, <3>2
    <2> HIDE DEF S
    <2>5. m \in S
      BY <2>3, <2>4, SetInduction
    <2>6. f[m] = [i \in 1..m |-> x[i]]
      BY <1>2, <2>5 DEF S
    <2> QED
      BY <2>1, <2>6
  <1> QED
    BY <1>1, <1>2

\* q is r and then v twice.
Twice(q, r, v, V) ==
    /\ q \in [1..(Len(r) + 2) -> V]
    /\ \A i \in 1..Len(r) : q[i] = r[i]
    /\ q[Len(r) + 1] = v /\ q[Len(r) + 2] = v

\* A sequence and the same element twice.
LEMMA TwoAppended ==
    ASSUME NEW V, NEW r \in Seq(V), NEW v \in V, NEW q, q = r \o <<v, v>>
    PROVE  Twice(q, r, v, V)
  <1>1. PICK e : e = <<v, v>>
    OBVIOUS
  <1>2. e \in Seq(V) /\ Len(e) = 2 /\ e[1] = v /\ e[2] = v /\ Len(r) \in Nat
    BY <1>1
  <1>3. e \in Seq(V)
    BY <1>2
  <1>4. q = r \o e
    BY <1>1
  <1>5. /\ q \in Seq(V) /\ Len(q) = Len(r) + 2
        /\ \A i \in 1..(Len(r) + 2) : q[i] = IF i <= Len(r) THEN r[i] ELSE e[i - Len(r)]
    <2>1. /\ r \o e \in Seq(V) /\ Len(r \o e) = Len(r) + Len(e)
          /\ \A i \in 1..(Len(r) + Len(e)) : (r \o e)[i] = IF i <= Len(r) THEN r[i] ELSE e[i - Len(r)]
      BY <1>3, ConcatProperties, Zenon
    <2>2. /\ q \in Seq(V) /\ Len(q) = Len(r) + Len(e)
          /\ \A i \in 1..(Len(r) + Len(e)) : q[i] = IF i <= Len(r) THEN r[i] ELSE e[i - Len(r)]
      BY <1>4, <2>1, Zenon
    <2> QED
      BY <1>2, <2>2
  <1>6. \A i \in 1..Len(r) : q[i] = r[i]
    BY <1>2, <1>5
  <1>7. q[Len(r) + 1] = v /\ q[Len(r) + 2] = v
    <2>1. (Len(r) + 1) - Len(r) = 1 /\ (Len(r) + 2) - Len(r) = 2
      BY <1>2
    <2> QED
      BY <1>2, <1>5, <2>1
  <1>8. q \in [1..(Len(r) + 2) -> V]
    <2>1. q \in [1..Len(q) -> V]
      BY <1>5, LenProperties
    <2> QED
      BY <1>5, <2>1
  <1> QED
    BY <1>6, <1>7, <1>8 DEF Twice

\* Parts of two equal elements each.
LEMMA FlattenPairs ==
    ASSUME NEW V, NEW m \in Nat, NEW x \in [1..m -> V]
    PROVE  FlattenSeq([i \in 1..m |-> <<x[i], x[i]>>]) = [i \in 1..(2 * m) |-> x[(i + 1) \div 2]]
  <1> DEFINE s == [i \in 1..m |-> <<x[i], x[i]>>]
             p(n) == [i \in 1..(2 * n) |-> x[(i + 1) \div 2]]
  <1> SUFFICES FlattenSeq(s) = p(m)
    OBVIOUS
  <1>s. \A i \in 1..m : s[i] = <<x[i], x[i]>>
    OBVIOUS
  <1>0. s \in Seq(Seq(V)) /\ Len(s) = m
    OBVIOUS
  <1> HIDE DEF s
  <1>1. CASE m = 0
    <2>1. FlattenSeq(s) = s /\ s = <<>>
      BY <1>0, <1>1 DEF FlattenSeq
    <2>2. 2 * m = 0
      BY <1>1
    <2>3. p(m) = <<>>
      BY <2>2
    <2> QED
      BY <2>1, <2>3
  <1>2. CASE m # 0
    <2>1. PICK f : Flattens(f, s, m) /\ FlattenSeq(s) = f[m]
      BY <1>0, <1>2, Flatten
    <2>2. f[1] = <<x[1], x[1]>> /\ \A i \in Nat \ {0} : i + 1 <= m => f[i + 1] = f[i] \o <<x[i + 1], x[i + 1]>>
      <3>1. f[1] = s[1] /\ \A i \in Nat \ {0} : i + 1 <= m => f[i + 1] = f[i] \o s[i + 1]
        BY <1>2, <2>1, FlattensNext
      <3>3. 1 \in 1..m /\ \A i \in Nat \ {0} : i + 1 <= m => i + 1 \in 1..m
        BY <1>2
      <3> QED
        BY <1>s, <3>1, <3>3
    <2> DEFINE S == {n \in Nat : n \in 1..m => f[n] = p(n)}
    <2>3. 0 \in S
      OBVIOUS
    <2>4. ASSUME NEW n \in Nat, n \in S PROVE n + 1 \in S
      <3> SUFFICES ASSUME n + 1 \in 1..m PROVE f[n + 1] = p(n + 1)
        OBVIOUS
      <3>1. CASE n = 0
        <4>1. f[1] = <<x[1], x[1]>> /\ n + 1 = 1
          BY <2>2, <3>1
        <4>2. <<x[1], x[1]>> = p(1)
          <5>1. 2 * 1 = 2 /\ (1 + 1) \div 2 = 1 /\ (2 + 1) \div 2 = 1
            OBVIOUS
          <5>2. \A i \in 1..2 : x[(i + 1) \div 2] = x[1]
            BY <5>1
          <5> QED
            BY <5>1, <5>2
        <4> QED
          BY <4>1, <4>2
      <3>2. CASE n # 0
        <4>1. n \in 1..m /\ f[n + 1] = f[n] \o <<x[n + 1], x[n + 1]>>
          <5>1. n \in Nat \ {0} /\ n \in 1..m /\ n + 1 <= m
            BY <3>2
          <5> QED
            BY <2>2, <5>1
        <4>2. f[n] = p(n)
          BY <2>4, <4>1
        <4>3. p(n) \in Seq(V) /\ Len(p(n)) = 2 * n /\ x[n + 1] \in V
              /\ \A i \in 1..(2 * n) : p(n)[i] = x[(i + 1) \div 2]
          <5>1. \A i \in 1..(2 * n) : (i + 1) \div 2 \in 1..m
            BY <4>1
          <5>2. \A i \in 1..(2 * n) : x[(i + 1) \div 2] \in V
            BY <5>1
          <5> QED
            BY <5>2
        <4>4. p(n + 1) = [i \in 1..(2 * n + 2) |-> x[(i + 1) \div 2]]
          <5>1. 2 * (n + 1) = 2 * n + 2
            OBVIOUS
          <5> QED
            BY <5>1
        <4>5. ((2 * n + 1) + 1) \div 2 = n + 1 /\ ((2 * n + 2) + 1) \div 2 = n + 1
          OBVIOUS
        <4> HIDE DEF p
        <4>6. p(n) \o <<x[n + 1], x[n + 1]>> = [i \in 1..(2 * n + 2) |-> x[(i + 1) \div 2]]
          <5> DEFINE q == p(n) \o <<x[n + 1], x[n + 1]>>
          <5>1. /\ q \in [1..(2 * n + 2) -> V]
                /\ \A i \in 1..(2 * n) : q[i] = p(n)[i]
                /\ q[2 * n + 1] = x[n + 1] /\ q[2 * n + 2] = x[n + 1]
            <6>1. PICK r \in Seq(V) : r = p(n)
              BY <4>3
            <6>2. PICK v \in V : v = x[n + 1]
              BY <4>3
            <6>3. PICK z : z = r \o <<v, v>>
              OBVIOUS
            <6>4. Twice(z, r, v, V)
              BY <6>3, TwoAppended, Zenon
            <6>5. q = z /\ Len(r) = 2 * n
              BY <4>3, <6>1, <6>2, <6>3
            <6> HIDE DEF q
            <6> QED
              BY <6>1, <6>2, <6>4, <6>5 DEF Twice
          <5> HIDE DEF q
          <5>2. ASSUME NEW i \in 1..(2 * n + 2) PROVE q[i] = x[(i + 1) \div 2]
            <6>1. CASE i \in 1..(2 * n)
              BY <4>3, <5>1, <6>1
            <6>2. CASE i = 2 * n + 1
              BY <4>5, <5>1, <6>2
            <6>3. CASE i = 2 * n + 2
              BY <4>5, <5>1, <6>3
            <6> QED
              BY <6>1, <6>2, <6>3
          <5>3. q = [i \in 1..(2 * n + 2) |-> x[(i + 1) \div 2]]
            BY <5>1, <5>2
          <5> QED
            BY <5>3 DEF q
        <4> QED
          BY <4>1, <4>2, <4>4, <4>6
      <3> QED
        BY <3>1, <3>2
    <2> HIDE DEF S
    <2>5. m \in S
      BY <2>3, <2>4, SetInduction
    <2>6. m \in 1..m
      BY <1>2
    <2>7. f[m] = p(m)
      <3> HIDE DEF p
      <3> QED
        BY <2>5, <2>6 DEF S
    <2> QED
      BY <2>1, <2>7
  <1> QED
    BY <1>1, <1>2

(***************************************************************************)
(* What the queries return.                                                *)
(***************************************************************************)

\* r has the parts of s for all keys, and nothing else; where each of them starts.
InParts(r, s, start) ==
    /\ start \in [Key -> Nat]
    /\ \A k \in Key : start[k] + Len(s[k]) <= Len(r)
    /\ \A k \in Key : \A j \in 1..Len(s[k]) : r[start[k] + j] = s[k][j]
    /\ \A p \in 1..Len(r) : \E k \in Key : \E j \in 1..Len(s[k]) :
           p = start[k] + j /\ r[p] = s[k][j]

\* When each part has the elements with its key, the result is sorted.
LEMMA JoinedParts ==
    ASSUME NEW V, NEW s \in [Key -> Seq(V)],
           \A k \in Key : \A j \in 1..Len(s[k]) : s[k][j].key = k
    PROVE  /\ FlattenSeq(s) \in Seq(V)
           /\ SortedByKey(FlattenSeq(s))
           /\ \E start : InParts(FlattenSeq(s), s, start)
  <1> DEFINE r == FlattenSeq(s)
  <1>0. Key = 1..MaxKey /\ MaxKey \in Nat /\ s \in [1..MaxKey -> Seq(V)]
    BY JoinBounds DEF Key
  <1>1. r \in Seq(V) /\ \E start : Blocks(r, s, MaxKey, start)
    BY <1>0, FlattenBlocks
  <1>2. PICK start : Blocks(r, s, MaxKey, start)
    BY <1>1
  <1> HIDE DEF r
  <1>3. /\ start \in [Key -> Nat]
        /\ \A k \in Key : start[k] + Len(s[k]) <= Len(r)
        /\ \A k \in Key : \A j \in 1..Len(s[k]) : r[start[k] + j] = s[k][j]
    BY <1>0, <1>2 DEF Blocks
  <1>4. ASSUME NEW p \in 1..Len(r)
        PROVE  \E k \in Key : \E j \in 1..Len(s[k]) : p = start[k] + j /\ r[p] = s[k][j]
    <2>1. PICK k \in Key : \E j \in 1..Len(s[k]) : p = start[k] + j
      BY <1>0, <1>2 DEF Blocks
    <2> QED
      BY <1>3, <2>1
  <1>5. SortedByKey(r)
    <2> SUFFICES ASSUME NEW p \in 1..Len(r), NEW q \in 1..Len(r), p < q
                 PROVE  r[p].key <= r[q].key
      BY DEF SortedByKey
    <2>1. PICK k \in Key : \E j \in 1..Len(s[k]) : p = start[k] + j /\ r[p] = s[k][j]
      BY <1>4
    <2>2. PICK j \in 1..Len(s[k]) : p = start[k] + j /\ r[p] = s[k][j]
      BY <2>1
    <2>3. PICK l \in Key : \E i \in 1..Len(s[l]) : q = start[l] + i /\ r[q] = s[l][i]
      BY <1>4
    <2>4. PICK i \in 1..Len(s[l]) : q = start[l] + i /\ r[q] = s[l][i]
      BY <2>3
    <2>5. r[p].key = k /\ r[q].key = l /\ k \in Int /\ l \in Int
      BY <1>0, <2>2, <2>4
    <2>6. ASSUME l < k PROVE FALSE
      <3>1. start[l] + Len(s[l]) <= start[k]
        BY <1>0, <1>2, <2>6 DEF Blocks
      <3>2. start[l] \in Nat /\ start[k] \in Nat /\ Len(s[l]) \in Nat /\ Len(s[k]) \in Nat
        BY <1>3
      <3> QED
        BY <2>2, <2>4, <3>1, <3>2
    <2> QED
      BY <2>5, <2>6
  <1>6. InParts(r, s, start)
    BY <1>3, <1>4 DEF InParts
  <1> QED
    BY <1>1, <1>5, <1>6 DEF r

\* What is expected of an object version that is wanted once or twice.
LEMMA RepeatedIs ==
    ASSUME wanted \in [Key -> 0..2], NEW count \in [Key -> Nat], NEW k \in Key
    PROVE  /\ Repeated(count, k) \in Seq(Nat)
           /\ wanted[k] = 1 => Repeated(count, k) = AllOf(count, k)
           /\ wanted[k] = 2 => Repeated(count, k) = [i \in 1..(2 * count[k]) |-> (i + 1) \div 2]
           /\ wanted[k] > 0 => (Len(Repeated(count, k)) > 0 <=> count[k] > 0)
           /\ count[k] = 0 => Repeated(count, k) = <<>>
  <1>1. PICK c \in Nat : c = count[k]
    OBVIOUS
  <1>2. PICK w \in 0..2 : w = wanted[k]
    OBVIOUS
  <1>3. Repeated(count, k) = [i \in 1..(c * w) |-> (i + w - 1) \div w]
    BY <1>1, <1>2 DEF Repeated
  <1>4. CASE w = 0
    <2>1. Repeated(count, k) = [i \in 1..0 |-> (i + w - 1) \div w]
      BY <1>3, <1>4
    <2>2. Repeated(count, k) = <<>>
      BY <2>1
    <2> QED
      BY <1>2, <1>4, <2>2
  <1>5. CASE w = 1
    <2>1. \A i \in 1..c : (i + w - 1) \div w = i
      BY <1>5
    <2>2. Repeated(count, k) = [i \in 1..c |-> i]
      BY <1>3, <1>5, <2>1
    <2> QED
      BY <1>1, <1>2, <1>5, <2>2 DEF AllOf
  <1>6. CASE w = 2
    <2>1. \A i \in 1..(2 * c) : (i + w - 1) \div w = (i + 1) \div 2 /\ (i + 1) \div 2 \in Nat
      BY <1>6
    <2>2. Repeated(count, k) = [i \in 1..(2 * c) |-> (i + 1) \div 2]
      BY <1>3, <1>6, <2>1
    <2>3. 2 * c \in Nat /\ (2 * c > 0 <=> c > 0) /\ \A i \in 1..(2 * c) : (i + 1) \div 2 \in Nat
      BY <1>6, <2>1
    <2>4. Repeated(count, k) \in Seq(Nat) /\ Len(Repeated(count, k)) = 2 * c
      BY <2>2, <2>3
    <2>5. c = 0 => Repeated(count, k) = <<>>
      BY <2>4
    <2> QED
      BY <1>1, <1>2, <1>6, <2>2, <2>3, <2>4, <2>5
  <1> QED
    BY <1>4, <1>5, <1>6

\* The details of one object version, each of them `wanted' times.
LEMMA DetailsOfOne ==
    ASSUME wanted \in [Key -> 0..2], NEW count \in [Key -> Nat], NEW k \in Key
    PROVE  /\ DetailsOf(count, k) \in Seq(Detail)
           /\ \A p \in 1..Len(DetailsOf(count, k)) :
                  DetailsOf(count, k)[p].key = k /\ wanted[k] > 0 /\ count[k] > 0
           /\ wanted[k] > 0 => DetailsOf(count, k) =
                 [i \in 1..Len(Repeated(count, k)) |-> [key |-> k, n |-> Repeated(count, k)[i]]]
  <1> DEFINE x == [n \in 1..count[k] |-> [key |-> k, n |-> n]]
             s == [n \in 1..count[k] |-> Times(wanted[k], [key |-> k, n |-> n])]
             d == FlattenSeq(s)
  <1>1. count[k] \in Nat /\ wanted[k] \in 0..2
    OBVIOUS
  <1>2. \A n \in 1..count[k] : [key |-> k, n |-> n] \in Detail
    BY <1>1 DEF Detail
  <1>3. x \in [1..count[k] -> Detail]
    BY <1>2
  <1>4. ASSUME NEW n \in 1..count[k]
        PROVE  s[n] \in Seq(Detail) /\ Len(s[n]) = wanted[k]
               /\ \A j \in 1..wanted[k] : s[n][j] = [key |-> k, n |-> n]
    <2>1. s[n] = [i \in 1..wanted[k] |-> [key |-> k, n |-> n]]
      BY DEF Times
    <2> QED
      BY <1>1, <1>2, <2>1
  <1>5. s \in [1..count[k] -> Seq(Detail)]
    <2>1. s = [n \in 1..count[k] |-> s[n]]
      OBVIOUS
    <2> HIDE DEF s
    <2> QED
      BY <1>4, <2>1
  <1> HIDE DEF s
  <1>6. d \in Seq(Detail) /\ \E start : Blocks(d, s, count[k], start)
    BY <1>1, <1>5, FlattenBlocks
  <1>7. PICK start : Blocks(d, s, count[k], start)
    BY <1>6
  <1> HIDE DEF d
  <1>8. \A p \in 1..Len(d) : d[p].key = k /\ wanted[k] > 0 /\ count[k] > 0
    <2> SUFFICES ASSUME NEW p \in 1..Len(d) PROVE d[p].key = k /\ wanted[k] > 0 /\ count[k] > 0
      OBVIOUS
    <2>0. PICK i \in 1..count[k] : \E j \in 1..Len(s[i]) : p = start[i] + j
      BY <1>7 DEF Blocks
    <2>1. \E j \in 1..Len(s[i]) : d[p] = s[i][j]
      BY <1>7, <2>0 DEF Blocks
    <2>2. PICK j \in 1..Len(s[i]) : d[p] = s[i][j]
      BY <2>1
    <2>3. j \in 1..wanted[k] /\ d[p] = [key |-> k, n |-> i]
      BY <1>4, <2>2
    <2> QED
      BY <1>1, <2>3
  <1> DEFINE all == Repeated(count, k)
             y == [i \in 1..Len(all) |-> [key |-> k, n |-> all[i]]]
  <1>9. ASSUME wanted[k] > 0 PROVE d = y
    <2>1. CASE wanted[k] = 1
      <3>1. \A n \in 1..count[k] : Times(wanted[k], [key |-> k, n |-> n]) = <<x[n]>>
        BY <2>1 DEF Times
      <3>2. s = [n \in 1..count[k] |-> <<x[n]>>]
        BY <3>1 DEF s
      <3>3. y = x
        <4>1. all = [i \in 1..count[k] |-> i]
          BY <1>1, <2>1, RepeatedIs DEF AllOf
        <4>2. Len(all) = count[k]
          BY <1>1, <4>1
        <4> QED
          BY <4>1, <4>2
      <3> HIDE DEF x, y
      <3>4. s = [i \in 1..count[k] |-> <<x[i]>>]
        BY <3>2
      <3>5. FlattenSeq([i \in 1..count[k] |-> <<x[i]>>]) = x
        BY <1>1, <1>3, FlattenSingles
      <3> QED
        BY <3>3, <3>4, <3>5 DEF d
    <2>2. CASE wanted[k] = 2
      <3>1. \A n \in 1..count[k] : Times(wanted[k], [key |-> k, n |-> n]) = <<x[n], x[n]>>
        BY <2>2 DEF Times
      <3>2. s = [n \in 1..count[k] |-> <<x[n], x[n]>>]
        BY <3>1 DEF s
      <3>3. y = [i \in 1..(2 * count[k]) |-> x[(i + 1) \div 2]]
        <4>1. all = [i \in 1..(2 * count[k]) |-> (i + 1) \div 2]
          BY <1>1, <2>2, RepeatedIs
        <4>2. Len(all) = 2 * count[k]
          BY <1>1, <4>1
        <4>3. \A i \in 1..(2 * count[k]) : (i + 1) \div 2 \in 1..count[k]
          BY <1>1
        <4>4. \A i \in 1..(2 * count[k]) : x[(i + 1) \div 2] = [key |-> k, n |-> (i + 1) \div 2]
          BY <4>3
        <4> QED
          BY <4>1, <4>2, <4>4
      <3> HIDE DEF x, y
      <3>4. s = [i \in 1..count[k] |-> <<x[i], x[i]>>]
        BY <3>2
      <3>5. FlattenSeq([i \in 1..count[k] |-> <<x[i], x[i]>>]) = [i \in 1..(2 * count[k]) |-> x[(i + 1) \div 2]]
        BY <1>1, <1>3, FlattenPairs
      <3> QED
        BY <3>3, <3>4, <3>5 DEF d
    <2> QED
      BY <1>1, <1>9, <2>1, <2>2
  <1>10. d = DetailsOf(count, k)
    BY DEF d, s, DetailsOf
  <1> QED
    BY <1>6, <1>8, <1>9, <1>10

\* get_tags, get_nodes, get_members.
LEMMA DetailsJoined ==
    ASSUME wanted \in [Key -> 0..2], NEW count \in [Key -> Nat],
           NEW result, result = FlattenSeq([k \in Key |-> DetailsOf(count, k)])
    PROVE  ListOK(result, count) /\ Fresh(result, count)
  <1> DEFINE s == [k \in Key |-> DetailsOf(count, k)]
  <1>1. s \in [Key -> Seq(Detail)] /\ \A k \in Key : \A j \in 1..Len(s[k]) : s[k][j].key = k
    BY DetailsOfOne
  <1>2. \A k \in Key : s[k] = DetailsOf(count, k) /\ Len(s[k]) \in Nat
    BY <1>1
  <1>3. result = FlattenSeq(s)
    OBVIOUS
  <1> HIDE DEF s
  <1>4. /\ result \in Seq(Detail) /\ SortedByKey(result)
        /\ \E start : InParts(result, s, start)
    <2>1. /\ FlattenSeq(s) \in Seq(Detail) /\ SortedByKey(FlattenSeq(s))
          /\ \E start : InParts(FlattenSeq(s), s, start)
      BY <1>1, JoinedParts, Zenon
    <2> QED
      BY <1>3, <2>1
  <1>5. PICK start : InParts(result, s, start)
    BY <1>4
  <1>6. ASSUME NEW p \in 1..Len(result)
        PROVE  wanted[result[p].key] > 0 /\ count[result[p].key] > 0
    <2>1. PICK k \in Key : \E j \in 1..Len(s[k]) : result[p] = s[k][j]
      BY <1>5 DEF InParts
    <2>2. PICK j \in 1..Len(s[k]) : result[p] = s[k][j]
      BY <2>1
    <2>3. result[p].key = k
      BY <1>1, <2>2
    <2>4. j \in 1..Len(DetailsOf(count, k))
      BY <1>2, <2>2
    <2> QED
      BY <2>3, <2>4, DetailsOfOne
  <1>7. ASSUME NEW k \in Key, wanted[k] > 0
        PROVE  Whole(result, count, k) /\ (count[k] > 0 => Has(result, k))
    <2>0. PICK all : all = Repeated(count, k)
      OBVIOUS
    <2>1. s[k] = [n \in 1..Len(all) |-> [key |-> k, n |-> all[n]]]
      <3>1. DetailsOf(count, k) =
                [i \in 1..Len(Repeated(count, k)) |-> [key |-> k, n |-> Repeated(count, k)[i]]]
        BY <1>7, DetailsOfOne, Zenon
      <3> QED
        BY <1>2, <2>0, <3>1
    <2>2. /\ all \in Seq(Nat) /\ Len(all) \in Nat /\ (Len(all) > 0 <=> count[k] > 0)
          /\ Len(s[k]) = Len(all) /\ \A n \in 1..Len(all) : s[k][n] = [key |-> k, n |-> all[n]]
      <3>1. all \in Seq(Nat) /\ (Len(all) > 0 <=> count[k] > 0)
        BY <1>7, <2>0, RepeatedIs
      <3>2. Len(all) \in Nat
        BY <3>1
      <3> QED
        BY <2>1, <3>1, <3>2
    <2>3. start[k] \in 0..Len(result) /\ start[k] + Len(all) <= Len(result)
      <3>1. start[k] \in Nat /\ start[k] + Len(s[k]) <= Len(result) /\ Len(result) \in Nat
        <4>1. result \in Seq(Detail) /\ Len(result) \in Nat
          BY <1>4
        <4>2. start \in [Key -> Nat] /\ start[k] + Len(s[k]) <= Len(result)
          BY <1>5, Zenon DEF InParts
        <4> QED
          BY <4>1, <4>2
      <3> QED
        BY <2>2, <3>1
    <2>4. \A n \in 1..Len(all) : result[start[k] + n] = [key |-> k, n |-> all[n]]
      BY <1>5, <2>2 DEF InParts
    <2>5. ASSUME NEW p \in 1..Len(result), result[p].key = k
          PROVE  start[k] < p /\ p <= start[k] + Len(all)
      <3>1. PICK l \in Key : \E j \in 1..Len(s[l]) : p = start[l] + j /\ result[p] = s[l][j]
        BY <1>5 DEF InParts
      <3>2. PICK j \in 1..Len(s[l]) : p = start[l] + j /\ result[p] = s[l][j]
        BY <3>1
      <3>3. l = k
        BY <1>1, <2>5, <3>2
      <3> QED
        BY <2>2, <2>3, <3>2, <3>3
    <2>6. ASSUME count[k] > 0 PROVE Has(result, k)
      <3>1. 1 \in 1..Len(all) /\ start[k] + 1 \in 1..Len(result)
        BY <2>2, <2>3, <2>6
      <3>2. result[start[k] + 1] = [key |-> k, n |-> all[1]]
        BY <2>4, <3>1
      <3> QED
        <4>1. PICK i : i = start[k] + 1
          OBVIOUS
        <4>2. i \in 1..Len(result) /\ result[i].key = k
          BY <3>1, <3>2, <4>1
        <4> QED
          BY <4>2 DEF Has
    <2>7. Whole(result, count, k)
      BY <2>0, <2>3, <2>4, <2>5 DEF Whole
    <2> QED
      BY <2>6, <2>7
  <1>8. ASSUME NEW k \in Key, Has(result, k) PROVE wanted[k] > 0
    BY <1>6, <1>8 DEF Has
  <1>9. ListOK(result, count)
    BY <1>4, <1>6, <1>7, <1>8 DEF ListOK
  <1> QED
    BY <1>7, <1>9 DEF Fresh

(***************************************************************************)
(* Counting.                                                               *)
(***************************************************************************)

\* What belongs to k is at the head or in the tail ...
LEMMA HasTail ==
    ASSUME NEW V, NEW s \in Seq(V), s # <<>>, NEW k
    PROVE  Has(s, k) <=> Head(s).key = k \/ Has(Tail(s), k)
  <1>1. /\ Len(s) \in Nat /\ Len(s) >= 1 /\ Head(s) = s[1] /\ Len(Tail(s)) = Len(s) - 1
        /\ \A i \in 1..Len(Tail(s)) : Tail(s)[i] = s[i + 1]
    OBVIOUS
  <1>2. ASSUME NEW i \in 1..Len(s), s[i].key = k PROVE Head(s).key = k \/ Has(Tail(s), k)
    <2>1. CASE i = 1
      BY <1>1, <1>2, <2>1
    <2>2. CASE i # 1
      <3>1. PICK j : j = i - 1
        OBVIOUS
      <3>2. j \in 1..Len(Tail(s)) /\ j + 1 = i
        BY <1>1, <2>2, <3>1
      <3> QED
        BY <1>1, <1>2, <3>2 DEF Has
    <2> QED
      BY <2>1, <2>2
  <1>3. ASSUME Head(s).key = k \/ Has(Tail(s), k) PROVE Has(s, k)
    <2>1. CASE Head(s).key = k
      <3>1. 1 \in 1..Len(s)
        BY <1>1
      <3> QED
        BY <1>1, <2>1, <3>1 DEF Has
    <2>2. CASE Has(Tail(s), k)
      <3>1. PICK j \in 1..Len(Tail(s)) : Tail(s)[j].key = k
        BY <2>2 DEF Has
      <3>2. PICK i : i = j + 1
        OBVIOUS
      <3>3. i \in 1..Len(s) /\ s[i].key = k
        BY <1>1, <3>1, <3>2
      <3> QED
        BY <3>3 DEF Has
    <2> QED
      BY <1>3, <2>1, <2>2
  <1> QED
    BY <1>2, <1>3 DEF Has

\* ... a count is a natural number, 0 when there is nothing to count ...
LEMMA CountType ==
    ASSUME NEW V, NEW s \in Seq(V), NEW k
    PROVE  /\ IsFiniteSet({i \in 1..Len(s) : s[i].key = k})
           /\ Count(s, k) \in Nat
           /\ Count(s, k) = 0 <=> ~Has(s, k)
  <1> DEFINE P == {i \in 1..Len(s) : s[i].key = k}
  <1>1. IsFiniteSet(1..Len(s)) /\ P \in SUBSET (1..Len(s))
    BY FS_Interval
  <1>2. IsFiniteSet(P)
    BY <1>1, FS_Subset
  <1>3. Cardinality(P) \in Nat /\ (Cardinality(P) = 0 <=> P = {})
    BY <1>2, FS_CardinalityType, FS_EmptySet
  <1> QED
    BY <1>2, <1>3 DEF Count, Has

\* ... without the head there is one less of its key ...
LEMMA CountTail ==
    ASSUME NEW V, NEW s \in Seq(V), s # <<>>, NEW k
    PROVE  Count(s, k) = Count(Tail(s), k) + (IF Head(s).key = k THEN 1 ELSE 0)
  <1> DEFINE T == {i \in 1..Len(Tail(s)) : Tail(s)[i].key = k}
             U == {i \in 2..Len(s) : s[i].key = k}
             f == [i \in T |-> i + 1]
  <1>1. /\ Len(s) \in Nat /\ Len(s) >= 1 /\ Head(s) = s[1] /\ Len(Tail(s)) = Len(s) - 1
        /\ \A i \in 1..Len(Tail(s)) : Tail(s)[i] = s[i + 1]
        /\ Tail(s) \in Seq(V)
    OBVIOUS
  <1>2. T \subseteq Nat /\ U \subseteq Nat /\ \A i \in T : i + 1 \in U /\ f[i] = i + 1
    BY <1>1
  <1>3. \A j \in U : j - 1 \in T /\ (j - 1) + 1 = j
    BY <1>1
  <1>4. f \in Bijection(T, U)
    <2>0. f \in [T -> U]
      BY <1>2
    <2>1. IsInjective(f)
      BY <1>2 DEF IsInjective
    <2>2. \A j \in U : \E i \in T : f[i] = j
      <3> SUFFICES ASSUME NEW j \in U PROVE \E i \in T : f[i] = j
        OBVIOUS
      <3>1. PICK i \in T : i + 1 = j
        BY <1>3
      <3> QED
        BY <1>2, <3>1
    <2> HIDE DEF T, U, f
    <2> QED
      BY <2>0, <2>1, <2>2 DEF Bijection, Injection, Surjection
  <1>5. IsFiniteSet(T)
    BY <1>1, CountType
  <1>6. ExistsBijection(T, U)
    <2> HIDE DEF T, U, f
    <2> QED
      BY <1>4 DEF ExistsBijection
  <1>7. IsFiniteSet(U) /\ Cardinality(U) = Cardinality(T)
    <2> HIDE DEF T, U, f
    <2> QED
      BY <1>5, <1>6, FS_Bijection
  <1>8. Cardinality(T) = Count(Tail(s), k) /\ Cardinality(T) \in Nat
    BY <1>1, CountType DEF Count
  <1>9. CASE Head(s).key = k
    <2>1. {i \in 1..Len(s) : s[i].key = k} = U \cup {1}
      BY <1>1, <1>9
    <2>2. 1 \notin U
      OBVIOUS
    <2>3. Cardinality(U \cup {1}) = Cardinality(U) + 1
      <3> HIDE DEF U
      <3> QED
        BY <1>7, <2>2, FS_AddElement
    <2> QED
      BY <1>7, <1>8, <1>9, <2>1, <2>3 DEF Count
  <1>10. CASE Head(s).key # k
    <2>1. {i \in 1..Len(s) : s[i].key = k} = U
      BY <1>1, <1>10
    <2>2. Count(s, k) = Cardinality(U)
      BY <2>1 DEF Count
    <2>3. Count(s, k) = Count(Tail(s), k)
      <3> HIDE DEF T, U
      <3> QED
        BY <1>7, <1>8, <2>2
    <2>4. Count(Tail(s), k) \in Nat
      BY <1>1, CountType
    <2> QED
      BY <1>10, <2>3, <2>4
  <1> QED
    BY <1>9, <1>10

\* ... and with one appended there is one more of its key.
LEMMA CountAppend ==
    ASSUME NEW V, NEW s \in Seq(V), NEW x \in V, NEW k
    PROVE  Count(Append(s, x), k) = Count(s, k) + (IF x.key = k THEN 1 ELSE 0)
  <1> DEFINE P == {i \in 1..Len(s) : s[i].key = k}
             Q == {i \in 1..Len(Append(s, x)) : Append(s, x)[i].key = k}
  <1>1. /\ Len(s) \in Nat /\ Len(Append(s, x)) = Len(s) + 1 /\ Append(s, x)[Len(s) + 1] = x
        /\ \A i \in 1..Len(s) : Append(s, x)[i] = s[i]
    OBVIOUS
  <1>2. IsFiniteSet(P) /\ Cardinality(P) \in Nat
    BY CountType, FS_CardinalityType
  <1>3. CASE x.key = k
    <2>1. Q = P \cup {Len(s) + 1} /\ Len(s) + 1 \notin P
      BY <1>1, <1>3
    <2>2. Cardinality(P \cup {Len(s) + 1}) = Cardinality(P) + 1
      <3> HIDE DEF P
      <3> QED
        BY <1>2, <2>1, FS_AddElement
    <2> QED
      BY <1>3, <2>1, <2>2 DEF Count
  <1>4. CASE x.key # k
    <2>1. Q = P
      BY <1>1, <1>4
    <2>2. Count(Append(s, x), k) = Count(s, k)
      <3> HIDE DEF P, Q
      <3>1. Count(Append(s, x), k) = Cardinality(Q) /\ Count(s, k) = Cardinality(P)
        BY DEF Count, P, Q
      <3> QED
        BY <2>1, <3>1
    <2>3. Count(s, k) \in Nat
      BY CountType
    <2> QED
      BY <1>4, <2>2, <2>3
  <1> QED
    BY <1>3, <1>4

(***************************************************************************)
(* The cursor.                                                             *)
(***************************************************************************)

\* add_tags, add_way_nodes, add_members: as long as the key is that of the
\* object.
LEMMA RunIs ==
    ASSUME NEW V, NEW details \in Seq(V), NEW k
    PROVE  LET n == RunLength(details, k)
           IN  /\ n \in 0..Len(details)
               /\ \A i \in 1..n : details[i].key = k
               /\ n < Len(details) => details[n + 1].key # k
  <1> DEFINE T == {i \in 1..Len(details) : details[i].key # k}
  <1>0. Len(details) \in Nat
    OBVIOUS
  <1>1. \E n \in 0..Len(details) :
            /\ \A i \in 1..n : details[i].key = k
            /\ n < Len(details) => details[n + 1].key # k
    <2>1. CASE T = {}
      <3>1. Len(details) \in 0..Len(details) /\ \A i \in 1..Len(details) : details[i].key = k
        BY <1>0, <2>1
      <3> QED
        BY <1>0, <3>1
    <2>2. CASE T # {}
      <3>1. T \subseteq Nat
        BY <1>0
      <3>2. PICK m \in T : \A j \in T : ~(<<j, m>> \in OpToRel(<, Nat))
        <4> HIDE DEF T
        <4> QED
          BY <2>2, <3>1, NatLessThanWellFounded, WFMin
      <3>3. \A j \in T : j < m => <<j, m>> \in OpToRel(<, Nat)
        <4> HIDE DEF T
        <4> QED
          BY <3>1, Zenon DEF OpToRel
      <3>4. \A j \in T : ~(j < m)
        BY <3>2, <3>3, Zenon
      <3>5. m \in 1..Len(details) /\ details[m].key # k
        OBVIOUS
      <3>6. PICK n : n = m - 1
        OBVIOUS
      <3>7. n \in 0..Len(details) /\ n + 1 = m
        BY <1>0, <3>5, <3>6
      <3>8. \A i \in 1..n : details[i].key = k
        BY <1>0, <3>4, <3>5, <3>6
      <3> QED
        BY <3>5, <3>7, <3>8
    <2> QED
      BY <2>1, <2>2
  <1> QED
    BY <1>1 DEF RunLength

\* The details are typed ...
LEMMA KeysOfDetails ==
    ASSUME NEW details \in Seq(Detail)
    PROVE  \A i \in 1..Len(details) :
               /\ details[i] \in Detail /\ details[i].key \in Key /\ details[i].key \in Nat
               /\ details[i].n \in Nat
  <1>1. \A i \in 1..Len(details) : details[i] \in Detail
    OBVIOUS
  <1>2. \A d \in Detail : d.key \in Key /\ d.n \in Nat
    BY DEF Detail
  <1>3. \A x \in Key : x \in Nat
    BY JoinBounds DEF Key
  <1> QED
    BY <1>1, <1>2, <1>3

\* ... and so are the rows, the first of which has the smallest key.
LEMMA KeysOfRows ==
    ASSUME NEW rest \in Seq(Row), rest # <<>>, SortedByKey(rest)
    PROVE  /\ Head(rest) \in Row /\ Head(rest).key \in Key /\ Head(rest).key \in Nat
           /\ Has(rest, Head(rest).key)
           /\ \A i \in 1..Len(rest) : rest[i].key \in Nat /\ Head(rest).key <= rest[i].key
  <1>1. \A i \in 1..Len(rest) : rest[i] \in Row
    OBVIOUS
  <1>2. \A r \in Row : r.key \in Key
    BY DEF Row
  <1>3. \A x \in Key : x \in Nat
    BY JoinBounds DEF Key
  <1>4. Len(rest) \in Nat /\ 1 \in 1..Len(rest) /\ Head(rest) = rest[1]
    OBVIOUS
  <1>5. \A i \in 1..Len(rest) : rest[i].key \in Nat
    BY <1>1, <1>2, <1>3
  <1>6. ASSUME NEW i \in 1..Len(rest) PROVE rest[1].key <= rest[i].key
    <2>1. CASE i = 1
      BY <1>4, <1>5, <2>1
    <2>2. CASE i # 1
      <3>1. 1 < i
        BY <1>4, <2>2
      <3> QED
        BY <1>4, <3>1 DEF SortedByKey
    <2> QED
      BY <2>1, <2>2
  <1>7. Has(rest, rest[1].key)
    BY <1>4 DEF Has
  <1> QED
    BY <1>1, <1>2, <1>3, <1>4, <1>5, <1>6, <1>7

\* The cursor has moved past n details of object version k: `left' is left.
Moved(details, k, n, left) ==
    /\ n \in Nat
    /\ n <= Len(details)
    /\ \A i \in 1..n : details[i].key = k
    /\ n > 0 => \A i \in 1..Len(details) : i > n => details[i].key # k
    /\ n = 0 => left = details /\ (details # <<>> => details[1].key # k)
    /\ left \in Seq(Detail)
    /\ Len(left) = Len(details) - n
    /\ \A i \in 1..Len(left) : left[i] = details[n + i]

\* The run of details at the cursor has all the details of the object version,
\* when the list is sorted and the cursor is at one of them.
LEMMA RunTakesAll ==
    ASSUME NEW details \in Seq(Detail), SortedByKey(details), NEW k \in Key
    PROVE  Moved(details, k, RunLength(details, k),
                 SubSeq(details, RunLength(details, k) + 1, Len(details)))
  <1> DEFINE n    == RunLength(details, k)
             left == SubSeq(details, n + 1, Len(details))
  <1>1. /\ n \in 0..Len(details)
        /\ \A i \in 1..n : details[i].key = k
        /\ n < Len(details) => details[n + 1].key # k
    BY RunIs
  <1> HIDE DEF n
  <1>2. Len(details) \in Nat /\ n \in Nat /\ n <= Len(details)
    BY <1>1
  <1>3. /\ left \in Seq(Detail) /\ Len(left) = Len(details) - n
        /\ \A i \in 1..Len(left) : left[i] = details[n + i]
    <2>1. \A i \in (n + 1)..Len(details) : i \in 1..Len(details)
      BY <1>2
    <2> QED
      BY <1>2, <2>1
  <1>4. ASSUME n > 0, NEW i \in 1..Len(details), i > n PROVE details[i].key # k
    <2>1. n \in 1..Len(details) /\ n \in 1..n /\ n + 1 \in 1..Len(details) /\ n < Len(details) /\ n < n + 1
      BY <1>2, <1>4
    <2>2. details[n + 1].key # k
      BY <1>1, <2>1
    <2>3. k <= details[n + 1].key
      <3>1. details[n].key <= details[n + 1].key
        BY <2>1 DEF SortedByKey
      <3> QED
        BY <1>1, <2>1, <3>1
    <2>4. details[n + 1].key \in Nat /\ details[i].key \in Nat
      BY <2>1, KeysOfDetails
    <2>5. details[n + 1].key <= details[i].key
      <3>1. CASE i = n + 1
        BY <2>4, <3>1
      <3>2. CASE i # n + 1
        <4>1. n + 1 < i
          BY <1>2, <1>4, <3>2
        <4> QED
          BY <2>1, <4>1 DEF SortedByKey
      <3> QED
        BY <3>1, <3>2
    <2>6. k \in Nat
      BY JoinBounds DEF Key
    <2> QED
      BY <2>2, <2>3, <2>4, <2>5, <2>6
  <1>5. ASSUME n = 0 PROVE left = details /\ (details # <<>> => details[1].key # k)
    <2>1. left = details
      BY <1>5
    <2>2. details # <<>> => 0 < Len(details) /\ 0 + 1 = 1
      BY <1>2
    <2> QED
      BY <1>1, <1>5, <2>1, <2>2
  <1> HIDE DEF left
  <1>6. Moved(details, k, n, left)
    BY <1>1, <1>2, <1>3, <1>4, <1>5 DEF Moved
  <1> QED
    BY <1>6 DEF n, left

\* Where the details that are left were.
LEMMA MovedBy ==
    ASSUME NEW details \in Seq(Detail), NEW k, NEW n, NEW left, Moved(details, k, n, left)
    PROVE  /\ Len(details) \in Nat /\ Len(left) \in Nat
           /\ \A i \in 1..Len(left) : /\ n + i \in 1..Len(details)
                                      /\ n + i > n
                                      /\ left[i] = details[n + i]
           /\ n > 0 => ~Has(left, k)
  <1>1. Len(details) \in Nat /\ Len(left) \in Nat /\ n \in Nat
    BY DEF Moved
  <1>2. Len(left) = Len(details) - n
    BY DEF Moved
  <1>3. ASSUME NEW i \in 1..Len(left) PROVE n + i \in 1..Len(details) /\ n + i > n
    BY <1>1, <1>2
  <1>4. \A i \in 1..Len(left) : left[i] = details[n + i]
    BY DEF Moved
  <1>5. ASSUME n > 0 PROVE ~Has(left, k)
    <2>1. \A i \in 1..Len(details) : i > n => details[i].key # k
      BY <1>5 DEF Moved
    <2>2. \A i \in 1..Len(left) : left[i].key # k
      BY <1>3, <1>4, <2>1
    <2> QED
      BY <2>2 DEF Has
  <1> QED
    BY <1>1, <1>3, <1>4, <1>5

\* A detail behind those the cursor moved past is left.
LEMMA MovedOn ==
    ASSUME NEW details \in Seq(Detail), NEW k, NEW n, NEW left, Moved(details, k, n, left),
           NEW i \in 1..Len(details), i > n
    PROVE  \E j \in 1..Len(left) : i = n + j
  <1>1. Len(details) \in Nat /\ Len(left) \in Nat /\ n \in Nat
    BY DEF Moved
  <1>2. Len(left) = Len(details) - n
    BY DEF Moved
  <1>3. i - n \in 1..Len(left) /\ i = n + (i - n)
    BY <1>1, <1>2
  <1> QED
    BY <1>3

\* The list after the cursor has moved.
LEMMA ListKept ==
    ASSUME wanted \in [Key -> 0..2], NEW count \in [Key -> Nat], NEW details, ListOK(details, count),
           NEW k \in Key, NEW n, NEW left, Moved(details, k, n, left)
    PROVE  ListOK(left, count)
  <1>1. details \in Seq(Detail) /\ SortedByKey(details)
    BY DEF ListOK
  <1>2. /\ Len(details) \in Nat /\ Len(left) \in Nat
        /\ \A i \in 1..Len(left) : /\ n + i \in 1..Len(details)
                                   /\ n + i > n
                                   /\ left[i] = details[n + i]
        /\ n > 0 => ~Has(left, k)
    BY <1>1, MovedBy
  <1>3. n \in Nat /\ left \in Seq(Detail) /\ Len(left) = Len(details) - n
    BY DEF Moved
  <1>4. SortedByKey(left)
    <2> SUFFICES ASSUME NEW i \in 1..Len(left), NEW j \in 1..Len(left), i < j
                 PROVE  left[i].key <= left[j].key
      BY DEF SortedByKey
    <2>1. n + i \in 1..Len(details) /\ n + j \in 1..Len(details)
      BY <1>2
    <2>2. n + i < n + j
      BY <1>2, <1>3
    <2>3. details[n + i].key <= details[n + j].key
      BY <1>1, <2>1, <2>2 DEF SortedByKey
    <2> QED
      BY <1>2, <2>3
  <1>5. \A i \in 1..Len(left) : wanted[left[i].key] > 0 /\ count[left[i].key] > 0
    BY <1>2 DEF ListOK
  <1>6. CASE n = 0
    <2>1. left = details
      BY <1>6 DEF Moved
    <2> QED
      BY <2>1
  <1>7. CASE n # 0
    <2>1. n > 0
      BY <1>3, <1>7
    <2> SUFFICES ASSUME NEW l \in Key, Has(left, l)
                 PROVE  Whole(left, count, l)
      BY <1>3, <1>4, <1>5 DEF ListOK
    <2>2. l # k
      BY <1>2, <2>1
    <2>3. PICK i \in 1..Len(left) : left[i].key = l
      BY DEF Has
    <2>4. n + i \in 1..Len(details) /\ details[n + i].key = l
      BY <1>2, <2>3
    <2>5. Has(details, l)
      BY <2>4, Zenon DEF Has
    <2>6. Whole(details, count, l)
      BY <2>5 DEF ListOK
    <2>a. PICK all : all = Repeated(count, l)
      OBVIOUS
    <2>7. PICK p \in 0..Len(details) :
              /\ p + Len(all) <= Len(details)
              /\ \A m \in 1..Len(all) : details[p + m] = [key |-> l, n |-> all[m]]
              /\ \A q \in 1..Len(details) : details[q].key = l => p < q /\ q <= p + Len(all)
      BY <2>6, <2>a DEF Whole
    <2>8. PICK c \in Nat : c = Len(all)
      <3>1. all \in Seq(Nat)
        BY <2>a, RepeatedIs
      <3> QED
        BY <3>1
    <2>9. p \in Nat /\ p + c <= Len(details) /\ c > 0
      <3>1. p \in Nat
        BY <1>2
      <3>2. count[l] > 0 /\ wanted[l] > 0
        BY <2>4 DEF ListOK
      <3>3. Len(all) > 0
        BY <2>a, <3>2, RepeatedIs
      <3> QED
        BY <2>7, <2>8, <3>1, <3>3
    <2>10. p >= n
      <3> SUFFICES ASSUME p < n PROVE FALSE
        BY <1>3, <2>9
      <3>1. 1 \in 1..c /\ p + 1 \in 1..n
        BY <1>3, <2>9
      <3>2. details[p + 1] = [key |-> l, n |-> all[1]]
        BY <2>7, <2>8, <3>1
      <3>3. details[p + 1].key = k
        BY <3>1 DEF Moved
      <3> QED
        BY <2>2, <3>2, <3>3
    <2>11. PICK o \in Nat : p = n + o
      <3>1. p - n \in Nat /\ p = n + (p - n)
        BY <1>3, <2>9, <2>10
      <3> QED
        BY <3>1
    <2>12. o \in 0..Len(left) /\ o + c <= Len(left)
      BY <1>2, <1>3, <2>9, <2>11
    <2>13. ASSUME NEW m \in 1..c PROVE left[o + m] = [key |-> l, n |-> all[m]]
      <3>1. o + m \in 1..Len(left) /\ n + (o + m) = p + m
        BY <1>2, <1>3, <2>11, <2>12
      <3>2. details[p + m] = [key |-> l, n |-> all[m]]
        BY <2>7, <2>8
      <3> QED
        BY <1>2, <3>1, <3>2
    <2>14. ASSUME NEW q \in 1..Len(left), left[q].key = l PROVE o < q /\ q <= o + c
      <3>1. n + q \in 1..Len(details) /\ details[n + q].key = l
        BY <1>2, <2>14
      <3>2. p < n + q /\ n + q <= p + c
        BY <2>7, <2>8, <3>1
      <3>3. q \in Nat
        OBVIOUS
      <3> QED
        BY <1>3, <2>9, <2>11, <3>2, <3>3
    <2> QED
      BY <2>a, <2>8, <2>12, <2>13, <2>14 DEF Whole
  <1> QED
    BY <1>6, <1>7

\* When the cursor is not at the details of the object version at hand though
\* there are some, a skipped object version is in the way.
LEMMA InTheWay ==
    ASSUME redacted \subseteq Key, NEW count, NEW details, ListOK(details, count),
           NEW rest \in Seq(Row), rest # <<>>, SortedByKey(rest), CursorOK(details, count, rest),
           details # <<>>, details[1].key # Head(rest).key, Has(details, Head(rest).key)
    PROVE  Behind(count, Head(rest).key)
  <1>1. PICK k : k = Head(rest).key
    OBVIOUS
  <1>2. k \in Nat /\ \A i \in 1..Len(rest) : rest[i].key \in Nat /\ k <= rest[i].key
    BY <1>1, KeysOfRows
  <1>3. details \in Seq(Detail) /\ SortedByKey(details)
    BY DEF ListOK
  <1>4. \A i \in 1..Len(details) : details[i].key \in Nat
    BY <1>3, KeysOfDetails
  <1>5. PICK i \in 1..Len(details) : details[i].key = k
    BY <1>1 DEF Has
  <1>6. 1 \in 1..Len(details) /\ 1 < i
    <2>1. Len(details) \in Nat
      BY <1>3
    <2>2. i # 1
      BY <1>1, <1>5
    <2> QED
      BY <2>1, <2>2
  <1>7. details[1].key < k
    <2>1. details[1].key <= k
      BY <1>3, <1>5, <1>6 DEF SortedByKey
    <2> QED
      BY <1>1, <1>2, <1>4, <1>6, <2>1
  <1>8. ~Has(rest, details[1].key)
    <2> SUFFICES ASSUME NEW j \in 1..Len(rest), rest[j].key = details[1].key PROVE FALSE
      BY DEF Has
    <2> QED
      BY <1>2, <1>4, <1>6, <1>7
  <1>9. Blocked(count, details[1].key)
    BY <1>6, <1>8 DEF CursorOK
  <1>10. PICK b \in redacted : b <= details[1].key /\ wanted[b] > 0 /\ count[b] > 0
    BY <1>9 DEF Blocked
  <1>11. b < k
    <2>1. b \in Nat
      BY JoinBounds DEF Key
    <2>2. details[1].key \in Nat
      BY <1>4, <1>6
    <2> QED
      BY <1>2, <1>7, <1>10, <2>1, <2>2
  <1> QED
    BY <1>1, <1>10, <1>11 DEF Behind

\* What an object gets that has so many rows left, its own included: all of
\* its details or none; when nothing is in the way, the first copy gets those
\* of all the copies.
Got(got, count, k, copies) ==
    /\ got \in Seq(Nat)
    /\ wanted[k] = 1 => got \in {<<>>, AllOf(count, k)}
    /\ ~Behind(count, k) => got = IF copies = wanted[k] THEN Repeated(count, k) ELSE <<>>

\* Both follow from what is left of the details when the object is at hand.
LEMMA GotAll ==
    ASSUME wanted \in [Key -> 0..2], redacted \subseteq Key,
           NEW count \in [Key -> Nat], NEW details, ListOK(details, count),
           NEW rest \in Seq(Row), rest # <<>>, SortedByKey(rest), CursorOK(details, count, rest),
           NEW k \in Key, k = Head(rest).key, k \notin redacted, Count(rest, k) <= wanted[k],
           NEW n, NEW left, Moved(details, k, n, left)
    PROVE  Got(Numbers(SubSeq(details, 1, n)), count, k, Count(rest, k))
  <1> DEFINE got == Numbers(SubSeq(details, 1, n))
  <1>1. details \in Seq(Detail) /\ Len(details) \in Nat
    BY DEF ListOK
  <1>2. n \in Nat /\ n <= Len(details) /\ \A i \in 1..n : i \in 1..Len(details)
    BY <1>1 DEF Moved
  <1>3. got = [i \in 1..n |-> details[i].n]
    <2>1. SubSeq(details, 1, n) = [i \in 1..n |-> details[i]]
      BY <1>1, <1>2
    <2>2. DOMAIN [i \in 1..n |-> details[i]] = 1..n
      OBVIOUS
    <2>3. got = [j \in 1..n |-> [i \in 1..n |-> details[i]][j].n]
      BY <2>1, <2>2, Zenon DEF Numbers
    <2> QED
      BY <2>3
  <1> HIDE DEF got
  <1>4. got \in Seq(Nat)
    <2>1. \A i \in 1..n : details[i].n \in Nat
      BY <1>1, <1>2, KeysOfDetails
    <2> QED
      BY <1>2, <1>3, <2>1
  <1>5. ASSUME n = 0 PROVE got = <<>>
    BY <1>3, <1>5
  <1>6. Has(rest, k) /\ wanted[k] > 0
    <2>1. Has(rest, k)
      BY KeysOfRows
    <2>2. Count(rest, k) \in Nat /\ Count(rest, k) # 0
      BY <2>1, CountType
    <2> QED
      BY <2>1, <2>2
  <1>7. PICK all : all = Repeated(count, k)
    OBVIOUS
  <1>8. /\ all \in Seq(Nat) /\ (wanted[k] = 1 => all = AllOf(count, k))
        /\ (count[k] = 0 => all = <<>>)
    BY <1>7, RepeatedIs
  <1>9. PICK c \in Nat : c = Len(all)
    BY <1>8
  <1>10. ASSUME n > 0 PROVE Has(details, k) /\ got = all
    <2>1. 1 \in 1..n /\ n \in 1..n
      BY <1>2, <1>10
    <2>2. 1 \in 1..Len(details) /\ n \in 1..Len(details) /\ details[1].key = k /\ details[n].key = k
      BY <1>2, <2>1 DEF Moved
    <2>3. Has(details, k)
      BY <2>2, Zenon DEF Has
    <2>4. Whole(details, count, k)
      BY <2>3 DEF ListOK
    <2>5. PICK p \in 0..Len(details) :
              /\ p + Len(all) <= Len(details)
              /\ \A m \in 1..Len(all) : details[p + m] = [key |-> k, n |-> all[m]]
              /\ \A q \in 1..Len(details) : details[q].key = k => p < q /\ q <= p + Len(all)
      BY <1>7, <2>4 DEF Whole
    <2>6. p = 0
      <3>1. p < 1 /\ p \in Nat
        BY <1>1, <2>2, <2>5
      <3> QED
        BY <3>1
    <2>7. n <= c /\ c <= Len(details)
      <3>1. n <= p + Len(all) /\ p + Len(all) <= Len(details)
        BY <2>2, <2>5
      <3> QED
        BY <1>9, <2>6, <3>1
    <2>8. \A m \in 1..c : details[m] = [key |-> k, n |-> all[m]]
      <3>1. \A m \in 1..c : details[0 + m] = [key |-> k, n |-> all[m]]
        BY <1>9, <2>5, <2>6
      <3>2. \A m \in 1..c : 0 + m = m
        OBVIOUS
      <3> QED
        BY <3>1, <3>2
    <2>9. n = c
      <3> SUFFICES ASSUME n < c PROVE FALSE
        BY <1>2, <2>7
      <3>1. n + 1 \in 1..c /\ n + 1 \in 1..Len(details) /\ n + 1 > n
        BY <1>2, <2>7
      <3>2. details[n + 1] = [key |-> k, n |-> all[n + 1]]
        BY <2>8, <3>1
      <3>3. details[n + 1].key # k
        BY <1>10, <3>1 DEF Moved
      <3> QED
        BY <3>2, <3>3
    <2>10. \A m \in 1..c : details[m].n = all[m]
      <3>1. \A m \in 1..c : [key |-> k, n |-> all[m]].n = all[m]
        OBVIOUS
      <3> QED
        BY <2>8, <3>1, Zenon
    <2>11. got = [i \in 1..c |-> details[i].n]
      BY <1>3, <2>9
    <2>12. all = [i \in 1..c |-> all[i]]
      BY <1>8, <1>9
    <2>13. got = all
      BY <2>10, <2>11, <2>12
    <2> QED
      BY <2>3, <2>13
  <1>11. ASSUME n > 0, ~Behind(count, k) PROVE Count(rest, k) = wanted[k]
    <2>1. Has(details, k)
      BY <1>10, <1>11
    <2>2. ~(Count(rest, k) < wanted[k])
      BY <1>11, <2>1 DEF CursorOK
    <2>3. Count(rest, k) \in Nat
      BY CountType
    <2> QED
      BY <2>2, <2>3
  <1>12. ASSUME n = 0, ~Behind(count, k), Count(rest, k) = wanted[k] PROVE all = <<>>
    <2>1. CASE count[k] = 0
      BY <1>8, <2>1
    <2>2. CASE count[k] # 0
      <3>1. count[k] > 0
        BY <2>2
      <3>2. Has(details, k)
        BY <1>6, <1>12, <3>1 DEF CursorOK
      <3>3. details # <<>>
        BY <3>2 DEF Has
      <3>4. details[1].key # k
        BY <1>12, <3>3 DEF Moved
      <3> QED
        BY <1>12, <3>2, <3>3, <3>4, InTheWay
    <2> QED
      BY <2>1, <2>2
  <1>13. wanted[k] = 1 => got \in {<<>>, AllOf(count, k)}
    BY <1>2, <1>5, <1>8, <1>10
  <1>14. ASSUME ~Behind(count, k)
         PROVE  got = IF Count(rest, k) = wanted[k] THEN Repeated(count, k) ELSE <<>>
    <2>1. CASE n > 0
      BY <1>7, <1>10, <1>11, <1>14, <2>1
    <2>2. CASE n = 0
      BY <1>5, <1>7, <1>12, <1>14, <2>2
    <2> QED
      BY <1>2, <2>1, <2>2
  <1>15. Got(got, count, k, Count(rest, k))
    BY <1>4, <1>13, <1>14 DEF Got
  <1> QED
    BY <1>15 DEF got

\* Whose details are left after an object was added ...
LEMMA CursorKept ==
    ASSUME wanted \in [Key -> 0..2], redacted \subseteq Key,
           NEW count \in [Key -> Nat], NEW details, ListOK(details, count),
           NEW rest \in Seq(Row), rest # <<>>, SortedByKey(rest), CursorOK(details, count, rest),
           NEW k \in Key, k = Head(rest).key, k \notin redacted, Count(rest, k) <= wanted[k],
           NEW n, NEW left, Moved(details, k, n, left)
    PROVE  CursorOK(left, count, Tail(rest))
  <1>1. details \in Seq(Detail) /\ n \in Nat
    BY DEF ListOK, Moved
  <1>2. /\ Len(details) \in Nat
        /\ \A i \in 1..Len(left) : n + i \in 1..Len(details) /\ left[i] = details[n + i]
    BY <1>1, MovedBy
  <1>5. n > 0 => ~Has(left, k)
    BY <1>1, MovedBy
  <1>3. ASSUME NEW i \in 1..Len(left)
        PROVE  Has(Tail(rest), left[i].key) \/ Blocked(count, left[i].key)
    <2>1. Has(rest, left[i].key) \/ Blocked(count, left[i].key)
      BY <1>2 DEF CursorOK
    <2>2. Has(rest, left[i].key) /\ left[i].key # k => Has(Tail(rest), left[i].key)
      BY HasTail
    <2>3. CASE left[i].key = k
      <3>1. Has(left, k)
        BY <2>3 DEF Has
      <3>2. n = 0
        BY <1>1, <1>5, <3>1
      <3>3. left = details /\ (details # <<>> => details[1].key # k)
        BY <3>2 DEF Moved
      <3>4. details # <<>>
        BY <3>1, <3>3 DEF Has
      <3>5. PICK b \in redacted : b < k /\ wanted[b] > 0 /\ count[b] > 0
        BY <3>1, <3>3, <3>4, InTheWay DEF Behind
      <3>6. b <= k
        <4>1. b \in Nat /\ k \in Nat
          BY JoinBounds DEF Key
        <4> QED
          BY <3>5, <4>1
      <3>7. Blocked(count, k)
        BY <3>5, <3>6 DEF Blocked
      <3> QED
        BY <2>3, <3>7
    <2> QED
      BY <2>1, <2>2, <2>3
  <1>4. ASSUME NEW l \in Key, Has(left, l) PROVE Has(details, l)
    <2>1. PICK i \in 1..Len(left) : left[i].key = l
      BY <1>4 DEF Has
    <2>2. PICK q : q = n + i
      OBVIOUS
    <2>3. q \in 1..Len(details) /\ details[q].key = l
      BY <1>2, <2>1, <2>2
    <2> QED
      BY <2>3 DEF Has
  <1>6. ASSUME NEW l \in Key, l # k, Has(details, l) PROVE Has(left, l)
    <2>1. PICK i \in 1..Len(details) : details[i].key = l
      BY <1>6 DEF Has
    <2>2. i > n
      <3> SUFFICES ASSUME ~(i > n) PROVE FALSE
        OBVIOUS
      <3>1. i \in 1..n
        BY <1>1, <1>2
      <3>2. details[i].key = k
        BY <3>1 DEF Moved
      <3> QED
        BY <1>6, <2>1, <3>2
    <2>3. PICK j \in 1..Len(left) : i = n + j
      BY <1>1, <2>2, MovedOn
    <2>4. left[j].key = l
      BY <1>2, <2>1, <2>3
    <2> QED
      BY <2>4 DEF Has
  <1>7. ASSUME Has(left, k) PROVE Behind(count, k)
    <2>1. n = 0
      BY <1>1, <1>5, <1>7
    <2>2. left = details /\ (details # <<>> => details[1].key # k)
      BY <2>1 DEF Moved
    <2>3. details # <<>>
      BY <1>7, <2>2 DEF Has
    <2> QED
      BY <1>7, <2>2, <2>3, InTheWay
  <1>8. ASSUME NEW l \in Key
        PROVE  /\ Count(rest, l) = Count(Tail(rest), l) + (IF k = l THEN 1 ELSE 0)
               /\ Count(Tail(rest), l) \in Nat /\ wanted[l] \in Nat
    <2>1. Count(rest, l) = Count(Tail(rest), l) + (IF Head(rest).key = l THEN 1 ELSE 0)
      BY CountTail
    <2>2. Tail(rest) \in Seq(Row)
      OBVIOUS
    <2>3. Count(Tail(rest), l) \in Nat
      BY <2>2, CountType
    <2> QED
      BY <2>1, <2>3
  <1>9. ASSUME NEW l \in Key \ redacted
        PROVE  /\ wanted[l] > 0 /\ count[l] > 0 /\ Count(Tail(rest), l) = wanted[l] => Has(left, l)
               /\ Has(left, l) /\ Count(Tail(rest), l) < wanted[l] => Behind(count, l)
    <2>1. CASE l = k
      <3>1. Count(Tail(rest), k) < wanted[k]
        BY <1>8
      <3> QED
        BY <1>7, <2>1, <3>1
    <2>2. CASE l # k
      <3>1. Count(Tail(rest), l) = Count(rest, l)
        BY <1>8, <2>2
      <3>2. /\ wanted[l] > 0 /\ count[l] > 0 /\ Count(rest, l) = wanted[l] => Has(details, l)
            /\ Has(details, l) /\ Count(rest, l) < wanted[l] => Behind(count, l)
        BY DEF CursorOK
      <3> QED
        BY <1>4, <1>6, <2>2, <3>1, <3>2
    <2> QED
      BY <2>1, <2>2
  <1> QED
    BY <1>3, <1>9 DEF CursorOK

\* ... and after one was skipped.
LEMMA CursorSkips ==
    ASSUME NEW count, NEW details, ListOK(details, count),
           NEW rest \in Seq(Row), rest # <<>>, SortedByKey(rest), CursorOK(details, count, rest),
           Head(rest).key \in redacted
    PROVE  CursorOK(details, count, Tail(rest))
  <1>1. ASSUME NEW i \in 1..Len(details)
        PROVE  Has(Tail(rest), details[i].key) \/ Blocked(count, details[i].key)
    <2>1. Has(rest, details[i].key) \/ Blocked(count, details[i].key)
      BY DEF CursorOK
    <2>2. CASE details[i].key = Head(rest).key
      <3>1. wanted[Head(rest).key] > 0 /\ count[Head(rest).key] > 0
        BY <2>2 DEF ListOK
      <3>2. Head(rest).key <= Head(rest).key
        BY KeysOfRows
      <3>3. Blocked(count, Head(rest).key)
        BY <3>1, <3>2 DEF Blocked
      <3> QED
        BY <2>2, <3>3
    <2>3. CASE details[i].key # Head(rest).key
      BY <2>1, <2>3, HasTail
    <2> QED
      BY <2>2, <2>3
  <1>2. ASSUME NEW l \in Key \ redacted PROVE Count(Tail(rest), l) = Count(rest, l)
    <2>1. Count(rest, l) = Count(Tail(rest), l) + (IF Head(rest).key = l THEN 1 ELSE 0)
      BY CountTail
    <2>2. Tail(rest) \in Seq(Row) /\ Head(rest).key # l
      OBVIOUS
    <2>3. Count(Tail(rest), l) \in Nat
      BY <2>2, CountType
    <2> QED
      BY <2>1, <2>2, <2>3
  <1> QED
    BY <1>1, <1>2 DEF CursorOK

\* The query for the objects.
LEMMA RowsJoined ==
    ASSUME wanted \in [Key -> 0..2], stampOf \in [Key -> Stamps], NEW result,
           result = FlattenSeq([k \in Key |-> Times(wanted[k],
                        [key |-> k, stamp |-> stampOf[k], ignored |-> k \in redacted])])
    PROVE  /\ result \in Seq(Row)
           /\ SortedByKey(result)
           /\ \A i \in 1..Len(result) : result[i].ignored <=> result[i].key \in redacted
           /\ \A k \in Key : Count(result, k) = wanted[k] /\ (wanted[k] > 0 => Has(result, k))
  <1> DEFINE x(k) == [key |-> k, stamp |-> stampOf[k], ignored |-> k \in redacted]
             s == [k \in Key |-> Times(wanted[k], x(k))]
  <1>1. ASSUME NEW k \in Key
        PROVE  /\ x(k) \in Row /\ x(k).key = k /\ (x(k).ignored <=> k \in redacted)
               /\ wanted[k] \in Nat
    <2>1. stampOf[k] \in Stamps /\ wanted[k] \in Nat
      OBVIOUS
    <2>2. x(k).key = k
      OBVIOUS
    <2>3. x(k).ignored <=> k \in redacted
      BY Zenon
    <2>4. x(k) \in Row
      <3>1. (k \in redacted) \in BOOLEAN
        BY SMT
      <3>2. PICK b \in BOOLEAN : b = (k \in redacted)
        BY <3>1, Zenon
      <3>3. [key |-> k, stamp |-> stampOf[k], ignored |-> b] \in Row
        BY <2>1 DEF Row
      <3> QED
        BY <3>2, <3>3, Zenon
    <2> QED
      BY <2>1, <2>2, <2>3, <2>4
  <1>2. ASSUME NEW k \in Key
        PROVE  s[k] \in Seq(Row) /\ Len(s[k]) = wanted[k] /\ \A j \in 1..wanted[k] : s[k][j] = x(k)
    <2> HIDE DEF x
    <2>1. s[k] = [i \in 1..wanted[k] |-> x(k)]
      BY DEF Times
    <2>2. x(k) \in Row /\ wanted[k] \in Nat
      BY <1>1
    <2> HIDE DEF s
    <2> QED
      BY <2>1, <2>2
  <1> HIDE DEF x
  <1>3. s \in [Key -> Seq(Row)]
    <2>1. s = [k \in Key |-> s[k]]
      OBVIOUS
    <2> HIDE DEF s
    <2> QED
      BY <1>2, <2>1
  <1>4. result = FlattenSeq(s)
    BY DEF x
  <1> HIDE DEF s
  <1>5. \A k \in Key : \A j \in 1..Len(s[k]) : s[k][j].key = k
    BY <1>1, <1>2
  <1>6. /\ FlattenSeq(s) \in Seq(Row) /\ SortedByKey(FlattenSeq(s))
        /\ \E start : InParts(FlattenSeq(s), s, start)
    BY <1>3, <1>5, JoinedParts, Zenon
  <1>7. result \in Seq(Row) /\ SortedByKey(result) /\ Len(result) \in Nat
    BY <1>4, <1>6
  <1>8. PICK start : InParts(result, s, start)
    BY <1>4, <1>6
  <1>9. ASSUME NEW p \in 1..Len(result)
        PROVE  \E k \in Key : \E j \in 1..wanted[k] : p = start[k] + j /\ result[p] = x(k)
    <2>1. PICK k \in Key : \E j \in 1..Len(s[k]) : p = start[k] + j /\ result[p] = s[k][j]
      BY <1>8 DEF InParts
    <2> QED
      BY <1>2, <2>1
  <1>10. ASSUME NEW p \in 1..Len(result) PROVE result[p].ignored <=> result[p].key \in redacted
    <2>1. PICK k \in Key : result[p] = x(k)
      BY <1>9
    <2> QED
      BY <1>1, <2>1
  <1>11. ASSUME NEW k \in Key
         PROVE  Count(result, k) = wanted[k] /\ (wanted[k] > 0 => Has(result, k))
    <2>1. PICK a \in Nat : a = start[k]
      BY <1>8 DEF InParts
    <2>2. PICK w \in Nat : w = wanted[k]
      BY <1>1
    <2>3. a + w <= Len(result)
      <3>1. start[k] + Len(s[k]) <= Len(result)
        BY <1>8 DEF InParts
      <3> QED
        BY <1>2, <2>1, <2>2, <3>1
    <2>4. ASSUME NEW p \in 1..Len(result), result[p].key = k PROVE p \in (a + 1)..(a + w)
      <3>1. PICK l \in Key : \E j \in 1..wanted[l] : p = start[l] + j /\ result[p] = x(l)
        BY <1>9
      <3>2. l = k
        BY <1>1, <2>4, <3>1
      <3>3. PICK j \in 1..w : p = a + j
        BY <2>1, <2>2, <3>1, <3>2
      <3> QED
        BY <3>3
    <2>5. ASSUME NEW p \in (a + 1)..(a + w) PROVE p \in 1..Len(result) /\ result[p].key = k
      <3>1. PICK j \in 1..w : p = a + j
        <4>1. p - a \in 1..w /\ p = a + (p - a)
          OBVIOUS
        <4> QED
          BY <4>1
      <3>2. p \in 1..Len(result)
        BY <1>7, <2>3, <3>1
      <3>3. j \in 1..Len(s[k]) /\ s[k][j].key = k
        BY <1>1, <1>2, <2>2
      <3>4. result[start[k] + j] = s[k][j]
        BY <1>8, <3>3 DEF InParts
      <3> QED
        BY <2>1, <3>1, <3>2, <3>3, <3>4
    <2>6. {p \in 1..Len(result) : result[p].key = k} = (a + 1)..(a + w)
      BY <2>4, <2>5
    <2>7. Cardinality((a + 1)..(a + w)) = w
      <3>1. a + 1 \in Int /\ a + w \in Int
        OBVIOUS
      <3>2. Cardinality((a + 1)..(a + w)) = IF a + 1 > a + w THEN 0 ELSE (a + w) - (a + 1) + 1
        BY <3>1, FS_Interval
      <3> QED
        BY <3>2
    <2>8. Count(result, k) = w
      BY <2>6, <2>7 DEF Count
    <2>9. w > 0 => Has(result, k)
      <3>1. Count(result, k) = 0 <=> ~Has(result, k)
        BY <1>7, CountType
      <3> QED
        BY <2>8, <3>1
    <2> QED
      BY <2>2, <2>8, <2>9
  <1> QED
    BY <1>7, <1>10, <1>11

\* Sorted sequences at their ends.
LEMMA SortedTail ==
    ASSUME NEW rest \in Seq(Row), rest # <<>>, SortedByKey(rest)
    PROVE  /\ Tail(rest) \in Seq(Row) /\ Len(Tail(rest)) \in Nat
           /\ SortedByKey(Tail(rest))
           /\ \A i \in 1..Len(Tail(rest)) : i + 1 \in 1..Len(rest) /\ Tail(rest)[i] = rest[i + 1]
  <1>1. /\ Tail(rest) \in Seq(Row) /\ Len(Tail(rest)) \in Nat /\ Len(rest) \in Nat
        /\ Len(Tail(rest)) = Len(rest) - 1
        /\ \A i \in 1..Len(Tail(rest)) : Tail(rest)[i] = rest[i + 1]
    OBVIOUS
  <1>2. \A i \in 1..Len(Tail(rest)) : i + 1 \in 1..Len(rest)
    BY <1>1
  <1>3. SortedByKey(Tail(rest))
    <2> SUFFICES ASSUME NEW i \in 1..Len(Tail(rest)), NEW j \in 1..Len(Tail(rest)), i < j
                 PROVE  Tail(rest)[i].key <= Tail(rest)[j].key
      BY DEF SortedByKey
    <2>1. i + 1 \in 1..Len(rest) /\ j + 1 \in 1..Len(rest) /\ i + 1 < j + 1
      BY <1>1, <1>2
    <2>2. rest[i + 1].key <= rest[j + 1].key
      BY <2>1 DEF SortedByKey
    <2> QED
      BY <1>1, <2>2
  <1> QED
    BY <1>1, <1>2, <1>3

(***************************************************************************)
(* The invariant.                                                          *)
(***************************************************************************)

\* Before a query, its result is empty.
LEMMA NothingRead ==
    ASSUME NEW count
    PROVE  ListOK(<<>>, count)
  <1>1. <<>> \in Seq(Detail) /\ Len(<<>>) = 0
    OBVIOUS
  <1>2. \A k : ~Has(<<>>, k)
    BY <1>1 DEF Has
  <1>3. SortedByKey(<<>>)
    BY <1>1 DEF SortedByKey
  <1> QED
    BY <1>1, <1>2, <1>3 DEF ListOK

\* What is in the diff is in it at some place.
LEMMA InDiffIs ==
    ASSUME diff \in Seq(Object)
    PROVE  /\ InDiff \subseteq Object
           /\ \A o \in InDiff : \E i \in 1..Len(diff) : o = diff[i]
  <1> QED
    BY DEF InDiff, Range

\* create-diff starts with nothing read and nothing written.
THEOREM InitIInv == Init => IInv
  <1> SUFFICES ASSUME Init PROVE IInv
    OBVIOUS
  <1>1. tags = <<>> /\ refs = <<>> /\ rows = <<>> /\ diff = <<>> /\ query = "tags"
    BY DEF Init
  <1>2. Len(<<>>) = 0 /\ <<>> \in Seq(Row) /\ <<>> \in Seq(Object)
    OBVIOUS
  <1>3. Database
    <2>1. stampOf \in [Key -> Stamps]
      BY DEF Init, Stamps
    <2>2. wanted \in [Key -> 0..2]
      <3>1. PICK m \in {1, 2} : wanted \in [Key -> 0..m]
        BY DEF Init
      <3> QED
        BY <3>1
    <2>3. redacted = {} /\ maxStamp = 0 /\ tagsOf \in [Key -> 0..MaxTags] /\ refsOf \in [Key -> 0..MaxRefs]
      BY DEF Init
    <2> QED
      BY <1>1, <2>1, <2>2, <2>3 DEF Database
  <1>4. ListOK(tags, tagsOf) /\ ListOK(refs, refsOf)
    BY <1>1, NothingRead
  <1>5. RowsOK
    BY <1>1, <1>2 DEF RowsOK, SortedByKey
  <1>6. DiffOK
    BY <1>1, <1>2 DEF DiffOK, SortedByKey
  <1>7. InDiff = {}
    BY <1>1, <1>2, InDiffIs
  <1>8. DOMAIN diff = {}
    BY <1>1
  <1> QED
    BY <1>1, <1>3, <1>4, <1>5, <1>6, <1>7, <1>8 DEF IInv, AllOrNone, CompleteUpToSkipped

\* As long as nothing is written, the properties of what is written hold.
LEMMA NothingWritten ==
    ASSUME rows' = <<>>, diff' = <<>>, query' # "merge"
    PROVE  RowsOK' /\ DiffOK' /\ AllOrNone' /\ CompleteUpToSkipped'
  <1>1. Len(<<>>) = 0 /\ <<>> \in Seq(Row) /\ <<>> \in Seq(Object)
    OBVIOUS
  <1>2. RowsOK'
    BY <1>1 DEF RowsOK, SortedByKey
  <1>3. DiffOK'
    BY <1>1 DEF DiffOK, SortedByKey
  <1>4. InDiff' = {} /\ DOMAIN diff' = {}
    BY <1>1 DEF InDiff, Range
  <1> QED
    BY <1>2, <1>3, <1>4 DEF AllOrNone, CompleteUpToSkipped

\* What is expected does not change as long as the database does not.
LEMMA SameRepeated ==
    ASSUME UNCHANGED <<tagsOf, refsOf, wanted>>
    PROVE  \A k : /\ Repeated(tagsOf, k)' = Repeated(tagsOf, k)
                  /\ Repeated(refsOf, k)' = Repeated(refsOf, k)
  <1> QED
    BY DEF Repeated

\* So a list that is as it should be stays so.
LEMMA SameLists ==
    ASSUME UNCHANGED <<tagsOf, refsOf, wanted>>, NEW d
    PROVE  /\ tags' = d /\ ListOK(d, tagsOf) => ListOK(tags, tagsOf)'
           /\ refs' = d /\ ListOK(d, refsOf) => ListOK(refs, refsOf)'
  <1>1. ASSUME tags' = d, ListOK(d, tagsOf) PROVE ListOK(tags, tagsOf)'
    <2>1. \A k \in Key : Has(tags, k)' => Whole(tags, tagsOf, k)'
      BY <1>1, SameRepeated DEF ListOK, Whole, Has
    <2> QED
      BY <1>1, <2>1 DEF ListOK
  <1>2. ASSUME refs' = d, ListOK(d, refsOf) PROVE ListOK(refs, refsOf)'
    <2>1. \A k \in Key : Has(refs, k)' => Whole(refs, refsOf, k)'
      BY <1>2, SameRepeated DEF ListOK, Whole, Has
    <2> QED
      BY <1>2, <2>1 DEF ListOK
  <1> QED
    BY <1>1, <1>2

\* Neither do those that nothing is taken from.
LEMMA ListsStay ==
    ASSUME UNCHANGED <<tagsOf, refsOf, wanted>>
    PROVE  /\ UNCHANGED tags /\ ListOK(tags, tagsOf) => ListOK(tags, tagsOf)'
           /\ UNCHANGED refs /\ ListOK(refs, refsOf) => ListOK(refs, refsOf)'
  <1>1. ASSUME UNCHANGED tags, ListOK(tags, tagsOf) PROVE ListOK(tags, tagsOf)'
    <2>1. PICK d : d = tags
      OBVIOUS
    <2> QED
      BY <1>1, <2>1, SameLists
  <1>2. ASSUME UNCHANGED refs, ListOK(refs, refsOf) PROVE ListOK(refs, refsOf)'
    <2>1. PICK d : d = refs
      OBVIOUS
    <2> QED
      BY <1>2, <2>1, SameLists
  <1> QED
    BY <1>1, <1>2

\* The query for the tags.
LEMMA GetTagsKeeps ==
    ASSUME IInv, GetTags
    PROVE  IInv'
  <1>1. /\ query = "tags" /\ query' = "refs" /\ rows = <<>> /\ diff = <<>>
        /\ UNCHANGED <<tagsOf, refsOf, stampOf, wanted, redacted, refs, rows, diff, maxStamp>>
    BY DEF IInv, GetTags, database
  <1>2. Database'
    BY <1>1 DEF IInv, Database
  <1>3. wanted \in [Key -> 0..2] /\ tagsOf \in [Key -> Nat]
    <2>1. tagsOf \in [Key -> 0..MaxTags] /\ \A m \in 0..MaxTags : m \in Nat
      BY JoinBounds DEF IInv, Database
    <2> QED
      BY <2>1 DEF IInv, Database
  <1>4. PICK r : r = tags'
    OBVIOUS
  <1>5. r = FlattenSeq([k \in Key |-> DetailsOf(tagsOf, k)])
    BY <1>4 DEF GetTags, Joined
  <1>6. ListOK(r, tagsOf) /\ Fresh(r, tagsOf)
    BY <1>3, <1>5, DetailsJoined
  <1>7. ListOK(tags, tagsOf)' /\ Fresh(tags, tagsOf)'
    BY <1>1, <1>4, <1>6, SameLists DEF Fresh
  <1>8. ListOK(refs, refsOf)'
    BY <1>1, ListsStay DEF IInv
  <1>9. RowsOK' /\ DiffOK' /\ AllOrNone' /\ CompleteUpToSkipped'
    BY <1>1, NothingWritten
  <1> QED
    BY <1>1, <1>2, <1>7, <1>8, <1>9 DEF IInv

\* The query for the way nodes or the members.
LEMMA GetRefsKeeps ==
    ASSUME IInv, GetRefs
    PROVE  IInv'
  <1>1. /\ query = "refs" /\ query' = "rows" /\ rows = <<>> /\ diff = <<>>
        /\ UNCHANGED <<tagsOf, refsOf, stampOf, wanted, redacted, tags, rows, diff, maxStamp>>
    BY DEF IInv, GetRefs, database
  <1>2. Database'
    BY <1>1 DEF IInv, Database
  <1>3. wanted \in [Key -> 0..2] /\ refsOf \in [Key -> Nat]
    <2>1. refsOf \in [Key -> 0..MaxRefs] /\ \A m \in 0..MaxRefs : m \in Nat
      BY JoinBounds DEF IInv, Database
    <2> QED
      BY <2>1 DEF IInv, Database
  <1>4. PICK r : r = refs'
    OBVIOUS
  <1>5. r = FlattenSeq([k \in Key |-> DetailsOf(refsOf, k)])
    BY <1>4 DEF GetRefs, Joined
  <1>6. ListOK(r, refsOf) /\ Fresh(r, refsOf)
    BY <1>3, <1>5, DetailsJoined
  <1>7. ListOK(refs, refsOf)' /\ Fresh(refs, refsOf)'
    BY <1>1, <1>4, <1>6, SameLists DEF Fresh
  <1>8. ListOK(tags, tagsOf)' /\ Fresh(tags, tagsOf)'
    BY <1>1, ListsStay DEF IInv, Fresh
  <1>9. RowsOK' /\ DiffOK' /\ AllOrNone' /\ CompleteUpToSkipped'
    BY <1>1, NothingWritten
  <1> QED
    BY <1>1, <1>2, <1>7, <1>8, <1>9 DEF IInv

\* A redaction between two queries: nothing is written yet.
LEMMA RedactKeeps ==
    ASSUME IInv, NEW k \in Key, Redact(k)
    PROVE  IInv'
  <1>1. /\ query # "merge" /\ query' = query /\ rows = <<>> /\ diff = <<>>
        /\ UNCHANGED <<tagsOf, refsOf, stampOf, wanted, tags, refs, rows, diff, maxStamp>>
        /\ redacted' = redacted \cup {k}
    BY DEF IInv, Redact, database
  <1>2. Database'
    BY <1>1 DEF IInv, Database
  <1>3. ListOK(tags, tagsOf)' /\ ListOK(refs, refsOf)'
    BY <1>1, ListsStay DEF IInv
  <1>4. (Fresh(tags, tagsOf) => Fresh(tags, tagsOf)') /\ (Fresh(refs, refsOf) => Fresh(refs, refsOf)')
    BY <1>1 DEF Fresh
  <1>5. RowsOK' /\ DiffOK' /\ AllOrNone' /\ CompleteUpToSkipped'
    BY <1>1, NothingWritten
  <1> QED
    BY <1>1, <1>2, <1>3, <1>4, <1>5 DEF IInv

\* At the beginning of the merge, the rows have every object version that has details.
LEMMA CursorsReady ==
    ASSUME wanted \in [Key -> 0..2],
           NEW count, NEW details, ListOK(details, count), Fresh(details, count), NEW rest,
           \A k \in Key : Count(rest, k) = wanted[k] /\ (wanted[k] > 0 => Has(rest, k))
    PROVE  CursorOK(details, count, rest)
  <1>1. \A i \in 1..Len(details) : details[i].key \in Key /\ wanted[details[i].key] > 0
    <2>1. details \in Seq(Detail)
      BY DEF ListOK
    <2> QED
      BY <2>1, KeysOfDetails DEF ListOK
  <1>2. \A k \in Key : ~(Count(rest, k) < wanted[k])
    BY DEF Count
  <1> QED
    BY <1>1, <1>2 DEF CursorOK, Fresh

\* The query for the objects begins the merge.
LEMMA GetRowsKeeps ==
    ASSUME IInv, GetRows
    PROVE  IInv'
  <1>1. /\ query = "rows" /\ query' = "merge" /\ diff = <<>>
        /\ UNCHANGED <<tagsOf, refsOf, stampOf, wanted, redacted, tags, refs, diff, maxStamp>>
    BY DEF IInv, GetRows, database
  <1>2. Database'
    BY <1>1 DEF IInv, Database
  <1>3. wanted \in [Key -> 0..2] /\ stampOf \in [Key -> Stamps]
    BY DEF IInv, Database
  <1>4. ListOK(tags, tagsOf)' /\ ListOK(refs, refsOf)'
    BY <1>1, ListsStay DEF IInv
  <1>5. PICK r : r = rows'
    OBVIOUS
  <1>6. r = FlattenSeq([k \in Key |-> Times(wanted[k],
                [key |-> k, stamp |-> stampOf[k], ignored |-> k \in redacted])])
    BY <1>5 DEF GetRows, Joined
  <1>7. /\ r \in Seq(Row) /\ SortedByKey(r)
        /\ \A i \in 1..Len(r) : r[i].ignored <=> r[i].key \in redacted
        /\ \A k \in Key : Count(r, k) = wanted[k] /\ (wanted[k] > 0 => Has(r, k))
    BY <1>3, <1>6, RowsJoined
  <1>8. RowsOK'
    BY <1>1, <1>5, <1>7 DEF RowsOK
  <1>9. Len(<<>>) = 0 /\ <<>> \in Seq(Object)
    OBVIOUS
  <1>10. DiffOK'
    <2>1. \A k : Count(<<>>, k) = 0
      <3>1. \A k : {i \in 1..Len(<<>>) : <<>>[i].key = k} = {}
        BY <1>9
      <3> QED
        BY <3>1, FS_EmptySet DEF Count
    <2>2. \A k \in Key : Count(<<>>, k) + (IF k \in redacted THEN 0 ELSE Count(r, k))
                           = IF k \in redacted THEN 0 ELSE wanted[k]
      BY <1>3, <1>7, <2>1
    <2> QED
      BY <1>1, <1>5, <1>9, <2>2 DEF DiffOK, SortedByKey
  <1>11. CursorOK(tags, tagsOf, r) /\ CursorOK(refs, refsOf, r)
    BY <1>1, <1>3, <1>7, CursorsReady DEF IInv
  <1>12. CursorOK(tags, tagsOf, rows)' /\ CursorOK(refs, refsOf, rows)'
    BY <1>1, <1>5, <1>11 DEF CursorOK, Blocked, Behind
  <1>13. InDiff' = {} /\ DOMAIN diff' = {}
    BY <1>1, <1>9 DEF InDiff, Range
  <1> QED
    BY <1>1, <1>2, <1>4, <1>8, <1>10, <1>12, <1>13 DEF IInv, AllOrNone, CompleteUpToSkipped

\* A redacted object version is skipped.
LEMMA SkipKeeps ==
    ASSUME IInv, SkipRedacted
    PROVE  IInv'
  <1>1. /\ query = "merge" /\ query' = query /\ rows # <<>> /\ Head(rows).ignored
        /\ rows' = Tail(rows) /\ maxStamp' = Newer(Head(rows).stamp)
        /\ UNCHANGED <<tagsOf, refsOf, stampOf, wanted, redacted, tags, refs, diff>>
    BY DEF SkipRedacted, database
  <1>2. rows \in Seq(Row) /\ SortedByKey(rows)
        /\ \A i \in 1..Len(rows) : rows[i].ignored <=> rows[i].key \in redacted
    BY DEF IInv, RowsOK
  <1>3. Head(rows) \in Row /\ Head(rows) = rows[1] /\ 1 \in 1..Len(rows)
    BY <1>1, <1>2
  <1>4. Head(rows).key \in redacted
    BY <1>1, <1>2, <1>3
  <1>5. /\ Tail(rows) \in Seq(Row) /\ SortedByKey(Tail(rows))
        /\ \A i \in 1..Len(Tail(rows)) : i + 1 \in 1..Len(rows) /\ Tail(rows)[i] = rows[i + 1]
    BY <1>1, <1>2, SortedTail
  <1>6. Database'
    <2>1. maxStamp' \in {0} \cup Stamps
      BY <1>1, <1>3 DEF IInv, Database, Newer, Row
    <2> QED
      BY <1>1, <2>1 DEF IInv, Database
  <1>7. ListOK(tags, tagsOf)' /\ ListOK(refs, refsOf)'
    BY <1>1, ListsStay DEF IInv
  <1>8. RowsOK'
    <2>1. \A i \in 1..Len(Tail(rows)) : Tail(rows)[i].ignored <=> Tail(rows)[i].key \in redacted
      BY <1>2, <1>5
    <2> QED
      BY <1>1, <1>5, <2>1 DEF RowsOK
  <1>9. DiffOK'
    <2>1. \A i \in 1..Len(diff), j \in 1..Len(Tail(rows)) : diff[i].key <= Tail(rows)[j].key
      BY <1>5 DEF IInv, DiffOK
    <2>2. ASSUME NEW k \in Key
          PROVE  Count(diff, k) + (IF k \in redacted THEN 0 ELSE Count(Tail(rows), k))
                     = IF k \in redacted THEN 0 ELSE wanted[k]
      <3>1. Count(diff, k) + (IF k \in redacted THEN 0 ELSE Count(rows, k))
                = IF k \in redacted THEN 0 ELSE wanted[k]
        BY <1>1 DEF IInv, DiffOK
      <3>2. k \notin redacted => Head(rows).key # k
        BY <1>4
      <3>3. Count(rows, k) = Count(Tail(rows), k) + (IF Head(rows).key = k THEN 1 ELSE 0)
        BY <1>1, <1>2, CountTail
      <3>4. Count(Tail(rows), k) \in Nat
        BY <1>5, CountType
      <3> QED
        BY <3>1, <3>2, <3>3, <3>4
    <2> QED
      BY <1>1, <2>1, <2>2 DEF IInv, DiffOK
  <1>10. CursorOK(tags, tagsOf, Tail(rows)) /\ CursorOK(refs, refsOf, Tail(rows))
    BY <1>1, <1>2, <1>4, CursorSkips DEF IInv
  <1>11. CursorOK(tags, tagsOf, rows)' /\ CursorOK(refs, refsOf, rows)'
    BY <1>1, <1>10 DEF CursorOK, Blocked, Behind
  <1>12. AllOrNone' /\ CompleteUpToSkipped'
    <2>1. InDiff' = InDiff
      BY <1>1 DEF InDiff
    <2> QED
      BY <1>1, <2>1 DEF IInv, AllOrNone, CompleteUpToSkipped, AllOf, Behind, Repeated
  <1> QED
    BY <1>1, <1>6, <1>7, <1>8, <1>9, <1>11, <1>12 DEF IInv

\* The object at hand is written with what is at the cursors.
LEMMA AddKeeps ==
    ASSUME IInv, AddObject
    PROVE  IInv'
  <1>1. /\ query = "merge" /\ query' = query /\ rows # <<>> /\ ~Head(rows).ignored
        /\ rows' = Tail(rows) /\ maxStamp' = Newer(Head(rows).stamp)
        /\ UNCHANGED <<tagsOf, refsOf, stampOf, wanted, redacted>>
    BY DEF AddObject, database
  <1>2. rows \in Seq(Row) /\ SortedByKey(rows)
        /\ \A i \in 1..Len(rows) : rows[i].ignored <=> rows[i].key \in redacted
    BY DEF IInv, RowsOK
  <1>3. /\ Head(rows) \in Row /\ Head(rows) = rows[1] /\ 1 \in 1..Len(rows)
        /\ Head(rows).stamp \in Stamps
    <2>1. Head(rows) \in Row /\ Head(rows) = rows[1] /\ 1 \in 1..Len(rows)
      BY <1>1, <1>2
    <2> QED
      BY <2>1 DEF Row
  <1>4. /\ Tail(rows) \in Seq(Row) /\ SortedByKey(Tail(rows)) /\ Len(Tail(rows)) \in Nat
        /\ \A i \in 1..Len(Tail(rows)) : i + 1 \in 1..Len(rows) /\ Tail(rows)[i] = rows[i + 1]
    BY <1>1, <1>2, SortedTail
  <1>5. PICK k \in Key : k = Head(rows).key
    BY <1>1, <1>2, KeysOfRows
  <1>6. k \notin redacted
    BY <1>1, <1>2, <1>3, <1>5
  <1>7. /\ wanted \in [Key -> 0..2] /\ redacted \subseteq Key
        /\ tagsOf \in [Key -> Nat] /\ refsOf \in [Key -> Nat]
    <2>1. tagsOf \in [Key -> 0..MaxTags] /\ \A m \in 0..MaxTags : m \in Nat
      BY JoinBounds DEF IInv, Database
    <2>2. refsOf \in [Key -> 0..MaxRefs] /\ \A m \in 0..MaxRefs : m \in Nat
      BY JoinBounds DEF IInv, Database
    <2> QED
      BY <2>1, <2>2 DEF IInv, Database
  <1>8. ListOK(tags, tagsOf) /\ ListOK(refs, refsOf)
        /\ CursorOK(tags, tagsOf, rows) /\ CursorOK(refs, refsOf, rows)
    BY <1>1 DEF IInv
  <1>9. PICK nt : nt = RunLength(tags, k)
    OBVIOUS
  <1>10. PICK nr : nr = RunLength(refs, k)
    OBVIOUS
  <1>11. PICK tagsLeft : tagsLeft = SubSeq(tags, nt + 1, Len(tags))
    OBVIOUS
  <1>12. PICK refsLeft : refsLeft = SubSeq(refs, nr + 1, Len(refs))
    OBVIOUS
  <1>13. PICK o : o = [key |-> k, tags |-> Numbers(SubSeq(tags, 1, nt)),
                       refs |-> Numbers(SubSeq(refs, 1, nr))]
    OBVIOUS
  <1>14. diff' = Append(diff, o) /\ tags' = tagsLeft /\ refs' = refsLeft
    BY <1>5, <1>9, <1>10, <1>11, <1>12, <1>13 DEF AddObject
  <1>15. Moved(tags, k, nt, tagsLeft) /\ Moved(refs, k, nr, refsLeft)
    <2>1. /\ tags \in Seq(Detail) /\ SortedByKey(tags)
          /\ refs \in Seq(Detail) /\ SortedByKey(refs)
      BY <1>8 DEF ListOK
    <2>2. Moved(tags, k, RunLength(tags, k), SubSeq(tags, RunLength(tags, k) + 1, Len(tags)))
      BY <2>1, RunTakesAll
    <2>3. Moved(refs, k, RunLength(refs, k), SubSeq(refs, RunLength(refs, k) + 1, Len(refs)))
      BY <2>1, RunTakesAll
    <2> QED
      BY <1>9, <1>10, <1>11, <1>12, <2>2, <2>3
  <1>16. Database'
    <2>1. maxStamp' \in {0} \cup Stamps
      BY <1>1, <1>3 DEF IInv, Database, Newer
    <2> QED
      BY <1>1, <2>1 DEF IInv, Database
  <1>17. ListOK(tags, tagsOf)' /\ ListOK(refs, refsOf)'
    <2>1. ListOK(tagsLeft, tagsOf) /\ ListOK(refsLeft, refsOf)
      BY <1>7, <1>8, <1>15, ListKept
    <2> QED
      BY <1>1, <1>14, <2>1, SameLists
  <1>18. RowsOK'
    <2>1. \A i \in 1..Len(Tail(rows)) : Tail(rows)[i].ignored <=> Tail(rows)[i].key \in redacted
      BY <1>2, <1>4
    <2> QED
      BY <1>1, <1>4, <2>1 DEF RowsOK
  <1>19. ASSUME NEW l \in Key
         PROVE  /\ Count(diff, l) + (IF l \in redacted THEN 0 ELSE Count(rows, l))
                       = IF l \in redacted THEN 0 ELSE wanted[l]
                /\ Count(rows, l) = Count(Tail(rows), l) + (IF l = k THEN 1 ELSE 0)
                /\ Count(Tail(rows), l) \in Nat /\ Count(diff, l) \in Nat
    <2>1. Count(rows, l) = Count(Tail(rows), l) + (IF Head(rows).key = l THEN 1 ELSE 0)
      BY <1>1, <1>2, CountTail
    <2>2. Count(Tail(rows), l) \in Nat
      BY <1>4, CountType
    <2>3. Count(diff, l) \in Nat
      BY CountType DEF IInv, DiffOK
    <2>4. Count(diff, l) + (IF l \in redacted THEN 0 ELSE Count(rows, l))
              = IF l \in redacted THEN 0 ELSE wanted[l]
      BY <1>1 DEF IInv, DiffOK
    <2> QED
      BY <1>5, <2>1, <2>2, <2>3, <2>4
  <1>20. /\ Count(diff, k) + Count(rows, k) = wanted[k]
         /\ Count(rows, k) <= wanted[k]
    BY <1>6, <1>19
  <1>21. CursorOK(tags, tagsOf, rows)' /\ CursorOK(refs, refsOf, rows)'
    <2>1. CursorOK(tagsLeft, tagsOf, Tail(rows))
      BY <1>1, <1>2, <1>5, <1>6, <1>7, <1>8, <1>15, <1>20, CursorKept
    <2>2. CursorOK(refsLeft, refsOf, Tail(rows))
      BY <1>1, <1>2, <1>5, <1>6, <1>7, <1>8, <1>15, <1>20, CursorKept
    <2> QED
      BY <1>1, <1>14, <2>1, <2>2 DEF CursorOK, Blocked, Behind
  <1>22. o.key = k /\ Got(o.tags, tagsOf, k, Count(rows, k))
    <2>1. Got(Numbers(SubSeq(tags, 1, nt)), tagsOf, k, Count(rows, k))
      BY <1>1, <1>2, <1>5, <1>6, <1>7, <1>8, <1>15, <1>20, GotAll
    <2> QED
      BY <1>13, <2>1
  <1>23. Got(o.refs, refsOf, k, Count(rows, k))
    <2>1. Got(Numbers(SubSeq(refs, 1, nr)), refsOf, k, Count(rows, k))
      BY <1>1, <1>2, <1>5, <1>6, <1>7, <1>8, <1>15, <1>20, GotAll
    <2> QED
      BY <1>13, <2>1
  <1>24. o \in Object
    BY <1>13, <1>22, <1>23 DEF Object, Got
  <1>25. diff \in Seq(Object)
    BY DEF IInv, DiffOK
  <1>26. /\ diff' \in Seq(Object) /\ Len(diff) \in Nat
         /\ Len(diff') = Len(diff) + 1 /\ diff'[Len(diff) + 1] = o
         /\ \A i \in 1..Len(diff) : diff'[i] = diff[i]
    BY <1>14, <1>24, <1>25
  <1>27. \A i \in 1..Len(diff) : diff[i].key <= k
    BY <1>3, <1>5 DEF IInv, DiffOK
  <1>28. DiffOK'
    <2>1. SortedByKey(diff')
      <3> SUFFICES ASSUME NEW i \in 1..Len(diff'), NEW j \in 1..Len(diff'), i < j
                   PROVE  diff'[i].key <= diff'[j].key
        BY DEF SortedByKey
      <3>1. i \in 1..Len(diff) /\ diff'[i] = diff[i]
        BY <1>26
      <3>2. CASE j = Len(diff) + 1
        BY <1>22, <1>26, <1>27, <3>1, <3>2
      <3>3. CASE j # Len(diff) + 1
        <4>1. j \in 1..Len(diff) /\ diff'[j] = diff[j]
          BY <1>26, <3>3
        <4> QED
          BY <3>1, <4>1 DEF IInv, DiffOK, SortedByKey
      <3> QED
        BY <3>2, <3>3
    <2>2. ASSUME NEW i \in 1..Len(diff'), NEW j \in 1..Len(Tail(rows))
          PROVE  diff'[i].key <= Tail(rows)[j].key
      <3>1. CASE i = Len(diff) + 1
        <4>1. k <= rows[j + 1].key
          BY <1>1, <1>2, <1>4, <1>5, KeysOfRows
        <4> QED
          BY <1>4, <1>22, <1>26, <3>1, <4>1
      <3>2. CASE i # Len(diff) + 1
        <4>1. i \in 1..Len(diff) /\ diff'[i] = diff[i]
          BY <1>26, <3>2
        <4> QED
          BY <1>4, <4>1 DEF IInv, DiffOK
      <3> QED
        BY <3>1, <3>2
    <2>3. ASSUME NEW l \in Key
          PROVE  Count(diff', l) + (IF l \in redacted THEN 0 ELSE Count(Tail(rows), l))
                     = IF l \in redacted THEN 0 ELSE wanted[l]
      <3>1. Count(Append(diff, o), l) = Count(diff, l) + (IF o.key = l THEN 1 ELSE 0)
        BY <1>24, <1>25, CountAppend
      <3>2. Count(diff', l) = Count(diff, l) + (IF l = k THEN 1 ELSE 0)
        BY <1>14, <1>22, <3>1
      <3> QED
        BY <1>6, <1>19, <3>2
    <2> QED
      BY <1>1, <1>26, <2>1, <2>2, <2>3 DEF DiffOK
  <1>29. \A x \in InDiff' : x = o \/ x \in InDiff
    <2>1. InDiff' = {diff'[i] : i \in 1..Len(diff')}
      BY <1>26 DEF InDiff, Range
    <2>2. InDiff = {diff[i] : i \in 1..Len(diff)}
      BY <1>25 DEF InDiff, Range
    <2>3. ASSUME NEW i \in 1..Len(diff') PROVE diff'[i] = o \/ diff'[i] \in InDiff
      <3>1. CASE i = Len(diff) + 1
        BY <1>26, <3>1
      <3>2. CASE i # Len(diff) + 1
        <4>1. i \in 1..Len(diff) /\ diff'[i] = diff[i]
          BY <1>26, <3>2
        <4> QED
          BY <2>2, <4>1
      <3> QED
        BY <3>1, <3>2
    <2> QED
      BY <2>1, <2>3
  <1>30. AllOrNone'
    <2>1. ASSUME NEW x \in InDiff', wanted[x.key] = 1
          PROVE  x.tags \in {<<>>, AllOf(tagsOf, x.key)} /\ x.refs \in {<<>>, AllOf(refsOf, x.key)}
      <3>1. CASE x = o
        BY <1>22, <1>23, <2>1, <3>1 DEF Got
      <3>2. CASE x \in InDiff
        BY <2>1, <3>2 DEF IInv, AllOrNone
      <3> QED
        BY <1>29, <3>1, <3>2
    <2> QED
      BY <1>1, <2>1 DEF AllOrNone, AllOf
  <1>31. CompleteUpToSkipped'
    <2> DEFINE first(i) == \A j \in 1..(i - 1) : diff'[j].key # diff'[i].key
    <2>1. ASSUME NEW i \in 1..Len(diff')
          PROVE  /\ ~Behind(tagsOf, diff'[i].key) =>
                       diff'[i].tags = IF first(i) THEN Repeated(tagsOf, diff'[i].key) ELSE <<>>
                 /\ ~Behind(refsOf, diff'[i].key) =>
                       diff'[i].refs = IF first(i) THEN Repeated(refsOf, diff'[i].key) ELSE <<>>
      <3>1. CASE i = Len(diff) + 1
        <4>1. diff'[i] = o /\ o.key = k /\ i - 1 = Len(diff)
          BY <1>22, <1>26, <3>1
        <4>2. first(i) <=> ~Has(diff, k)
          BY <1>26, <4>1 DEF Has
        <4>3. ~Has(diff, k) <=> Count(diff, k) = 0
          BY <1>25, CountType
        <4>4. Count(diff, k) = 0 <=> Count(rows, k) = wanted[k]
          BY <1>19, <1>20
        <4>5. first(i) <=> Count(rows, k) = wanted[k]
          BY <4>2, <4>3, <4>4
        <4> HIDE DEF first
        <4> QED
          BY <1>22, <1>23, <4>1, <4>5 DEF Got
      <3>2. CASE i # Len(diff) + 1
        <4>1. i \in 1..Len(diff) /\ i \in DOMAIN diff /\ \A j \in 1..(i - 1) : j \in 1..Len(diff)
          BY <1>25, <1>26, <3>2
        <4>2. diff'[i] = diff[i] /\ \A j \in 1..(i - 1) : diff'[j] = diff[j]
          BY <1>26, <4>1
        <4>3. first(i) <=> \A j \in 1..(i - 1) : diff[j].key # diff[i].key
          BY <4>2
        <4>4. /\ ~Behind(tagsOf, diff[i].key) => diff[i].tags =
                    IF \A j \in 1..(i - 1) : diff[j].key # diff[i].key
                    THEN Repeated(tagsOf, diff[i].key) ELSE <<>>
              /\ ~Behind(refsOf, diff[i].key) => diff[i].refs =
                    IF \A j \in 1..(i - 1) : diff[j].key # diff[i].key
                    THEN Repeated(refsOf, diff[i].key) ELSE <<>>
          BY <4>1, Zenon DEF IInv, CompleteUpToSkipped
        <4> HIDE DEF first
        <4> QED
          BY <4>2, <4>3, <4>4
      <3> QED
        BY <3>1, <3>2
    <2>2. DOMAIN diff' = 1..Len(diff')
      BY <1>26
    <2>3. \A l : /\ Behind(tagsOf, l)' <=> Behind(tagsOf, l)
                 /\ Behind(refsOf, l)' <=> Behind(refsOf, l)
                 /\ Repeated(tagsOf, l)' = Repeated(tagsOf, l)
                 /\ Repeated(refsOf, l)' = Repeated(refsOf, l)
      BY <1>1 DEF Behind, Repeated
    <2> QED
      BY <2>1, <2>2, <2>3 DEF CompleteUpToSkipped
  <1> QED
    BY <1>1, <1>16, <1>17, <1>18, <1>21, <1>28, <1>30, <1>31 DEF IInv

\* Every step of create-diff and of the moderator keeps the invariant.
THEOREM NextIInv == IInv /\ [Next]_vars => IInv'
  <1> SUFFICES ASSUME IInv, [Next]_vars PROVE IInv'
    OBVIOUS
  <1>1. CASE GetTags
    BY <1>1, GetTagsKeeps
  <1>2. CASE GetRefs
    BY <1>2, GetRefsKeeps
  <1>3. CASE GetRows
    BY <1>3, GetRowsKeeps
  <1>4. CASE SkipRedacted
    BY <1>4, SkipKeeps
  <1>5. CASE AddObject
    BY <1>5, AddKeeps
  <1>6. ASSUME NEW k \in Key, Redact(k) PROVE IInv'
    BY <1>6, RedactKeeps
  <1>7. CASE UNCHANGED vars
    <2>1. /\ UNCHANGED <<tagsOf, refsOf, stampOf, wanted, redacted>>
          /\ UNCHANGED <<query, tags, refs, rows, diff, maxStamp>>
      BY <1>7 DEF vars, database
    <2>2. ListOK(tags, tagsOf)' /\ ListOK(refs, refsOf)'
      BY <2>1, ListsStay DEF IInv
    <2>3. CompleteUpToSkipped'
      BY <2>1, SameRepeated DEF IInv, CompleteUpToSkipped, Behind
    <2> QED
      BY <2>1, <2>2, <2>3 DEF IInv, Database, RowsOK, DiffOK, Fresh, CursorOK, Blocked, Behind,
                              InDiff, AllOrNone, AllOf
  <1> QED
    BY <1>1, <1>2, <1>3, <1>4, <1>5, <1>6, <1>7 DEF Next

\* The inductive invariant holds of every reachable state.
THEOREM Invariance == Spec => []IInv
  <1> QED
    BY InitIInv, NextIInv, PTL DEF Spec

\* What create-diff reads, has at its cursors and writes has the types declared
\* for it in every reachable state.
THEOREM TypeCorrect == Spec => []TypeOK
  <1>1. IInv => TypeOK
    <2> SUFFICES ASSUME IInv PROVE TypeOK
      OBVIOUS
    <2>1. tags \in Seq(Detail) /\ refs \in Seq(Detail) /\ rows \in Seq(Row) /\ diff \in Seq(Object)
      BY DEF IInv, ListOK, RowsOK, DiffOK
    <2>2. \A o \in InDiff : o.key \in Key /\ o.tags \in Seq(Nat) /\ o.refs \in Seq(Nat)
      BY <2>1, InDiffIs DEF Object
    <2> QED
      BY <2>1, <2>2 DEF IInv, Database, TypeOK
  <1> QED
    BY <1>1, Invariance, PTL

\* An object that is in the logs once is written with all its tags or with
\* none, and with all its nodes or members or with none.
THEOREM NeverHalfAnObject == Spec => []AllOrNone
  <1>1. IInv => AllOrNone
    BY DEF IInv
  <1> QED
    BY <1>1, Invariance, PTL

\* The objects before the first one that is skipped are complete, and of an
\* object that is wanted twice the first copy has the details of both: only the
\* details of a redacted object version can keep an object from its own.
THEOREM CompleteBeforeSkipped == Spec => []CompleteUpToSkipped
  <1>1. IInv => CompleteUpToSkipped
    BY DEF IInv
  <1> QED
    BY <1>1, Invariance, PTL

\* When the merge is over, every object version in the logs is in the diff as
\* often as it is in the logs, the redacted ones are not, and the keys are in
\* order.
THEOREM EveryObjectOnce == Spec => []EveryObjectMerged
  <1>1. IInv => EveryObjectMerged
    <2> SUFFICES ASSUME IInv, Merged PROVE EveryObjectMerged
      BY DEF EveryObjectMerged
    <2>1. query = "merge" /\ rows = <<>> /\ diff \in Seq(Object) /\ SortedByKey(diff)
      BY DEF Merged, IInv, DiffOK
    <2>2. DOMAIN diff = 1..Len(diff)
      BY <2>1
    <2>3. ASSUME NEW k \in Key
          PROVE  Count(diff, k) = IF k \in redacted THEN 0 ELSE wanted[k]
      <3>1. Count(diff, k) + (IF k \in redacted THEN 0 ELSE Count(rows, k))
                = IF k \in redacted THEN 0 ELSE wanted[k]
        BY <2>1 DEF IInv, DiffOK
      <3>2. Count(rows, k) = 0
        <4>1. {i \in 1..Len(rows) : rows[i].key = k} = {}
          BY <2>1
        <4> QED
          BY <4>1, FS_EmptySet DEF Count
      <3>3. Count(diff, k) \in Nat
        BY <2>1, CountType
      <3> QED
        BY <3>1, <3>2, <3>3
    <2>4. \A k \in Key : Cardinality({o \in DOMAIN diff : diff[o].key = k})
                           = IF k \in redacted THEN 0 ELSE wanted[k]
      BY <2>2, <2>3 DEF Count
    <2>5. \A i, j \in DOMAIN diff : i < j => diff[i].key <= diff[j].key
      BY <2>1, <2>2 DEF SortedByKey
    <2> QED
      BY <2>4, <2>5 DEF EveryObjectMerged
  <1> QED
    BY <1>1, Invariance, PTL

=============================================================================
