----------------------------- MODULE LogRowsProofs -----------------------------
(***************************************************************************)
(* What get-log, read_log and fake-log compute, for every sequence of      *)
(* transactions, columns and objects: the lines that get-log writes are    *)
(* those of the transactions it has read, and the files of fake-log have   *)
(* each of its entries once.                                               *)
(*                                                                         *)
(* The five loops are folds.  A fold has no value that the provers know;   *)
(* the first part shows the two equations that it satisfies, with an       *)
(* induction on the numbers that is stated with a set, and everything else *)
(* rests on them.                                                          *)
(***************************************************************************)
EXTENDS FakeLog, TLAPS, FiniteSetTheorems, SequenceTheorems, WellFoundedInduction

-----------------------------------------------------------------------------
(***************************************************************************)
(* Folds.                                                                  *)
(***************************************************************************)

\* Induction on the natural numbers, with a set instead of a predicate.
LEMMA SetInduction ==
    ASSUME NEW S, 0 \in S, \A n \in Nat : n \in S => n + 1 \in S
    PROVE  Nat \subseteq S
  <1> DEFINE T == Nat \ S
  <1> SUFFICES ASSUME T # {} PROVE FALSE
    OBVIOUS
  <1>1. T \subseteq Nat
    OBVIOUS
  <1>2. PICK n \in T : \A m \in T : ~(<<m, n>> \in OpToRel(<, Nat))
    BY <1>1, NatLessThanWellFounded, WFMin, Zenon
  <1>3. n \in Nat /\ n \notin S /\ n # 0
    OBVIOUS
  <1>4. n - 1 \in Nat /\ n - 1 < n /\ (n - 1) + 1 = n
    BY <1>3
  <1>5. n - 1 \notin S
    BY <1>3, <1>4
  <1>6. <<n - 1, n>> \in OpToRel(<, Nat)
    <2>1. PICK m : m = n - 1
      OBVIOUS
    <2>2. m \in Nat /\ m < n
      BY <1>4, <2>1
    <2> QED
      BY <1>3, <2>1, <2>2, Zenon DEF OpToRel
  <1> QED
    BY <1>2, <1>4, <1>5, <1>6

\* The steps of the five loops under one name, so that what holds of a fold
\* needs to be shown once.
Step(loop, s, x) ==
    CASE loop = "op"    -> SendOp(s, x)
      [] loop = "txn"   -> SendTxn(s, x)
      [] loop = "row"   -> OnRow(s, x)
      [] loop = "line"  -> OnLine(s, x)
      [] loop = "entry" -> OnEntry(s, x)

\* f is the function by which the fold over D, the domain of seq, is defined.
Folds(loop, f, base, seq, D) ==
    f = [T \in SUBSET D |->
            IF T = {} THEN base ELSE Step(loop, f[T \ {Max(T)}], seq[Max(T)])]

\* The largest number.
LEMMA MaxIs ==
    ASSUME NEW T, NEW n \in T, T \subseteq Nat, \A m \in T : m <= n
    PROVE  Max(T) = n
  <1>1. \A m \in T : n >= m
    OBVIOUS
  <1>2. \A x \in T : (\A m \in T : x >= m) => x = n
    BY <1>1
  <1> QED
    BY <1>1, <1>2 DEF Max

\* There is such a function.
LEMMA FoldExists ==
    ASSUME NEW loop, NEW base, NEW seq, NEW n \in Nat
    PROVE  \E f : Folds(loop, f, base, seq, 1..n)
  <1> DEFINE step(s, i) == Step(loop, s, seq[i])
             solves(f, k) == f = [T \in SUBSET (1..k) |->
                                    IF T = {} THEN base ELSE step(f[T \ {Max(T)}], Max(T))]
             S == {k \in Nat : \E f : solves(f, k)}
  <1> SUFFICES n \in S
    BY DEF Folds
  <1> HIDE DEF step
  <1>1. 0 \in S
    <2>1. 1..0 = {} /\ SUBSET {} = {{}}
      OBVIOUS
    <2>2. solves([T \in {{}} |-> base], 0)
      BY <2>1
    <2> QED
      BY <2>2
  <1>2. ASSUME NEW k \in Nat, k \in S PROVE k + 1 \in S
    <2>1. PICK f : solves(f, k)
      BY <1>2
    <2> DEFINE D == SUBSET (1..(k + 1))
               g == [T \in D |-> IF k + 1 \in T THEN step(f[T \ {k + 1}], k + 1) ELSE f[T]]
               e(T) == IF T = {} THEN base ELSE step(g[T \ {Max(T)}], Max(T))
    <2>2. \A T \in SUBSET (1..k) : f[T] = IF T = {} THEN base ELSE step(f[T \ {Max(T)}], Max(T))
      BY <2>1
    <2>3. ASSUME NEW T \in D PROVE g[T] = e(T)
      <3>1. CASE k + 1 \in T
        <4>1. Max(T) = k + 1
          <5>1. T \subseteq Nat /\ \A m \in T : m <= k + 1
            OBVIOUS
          <5> QED
            BY <3>1, <5>1, MaxIs
        <4>2. T \ {k + 1} \in D /\ k + 1 \notin T \ {k + 1}
          OBVIOUS
        <4>3. g[T \ {k + 1}] = f[T \ {k + 1}]
          BY <4>2
        <4> QED
          BY <3>1, <4>1, <4>3
      <3>2. CASE k + 1 \notin T
        <4>1. T \in SUBSET (1..k)
          BY <3>2
        <4>2. g[T] = f[T]
          BY <3>2
        <4>3. T \ {Max(T)} \in D /\ k + 1 \notin T \ {Max(T)}
          BY <3>2
        <4>4. g[T \ {Max(T)}] = f[T \ {Max(T)}]
          BY <4>3
        <4> QED
          BY <2>2, <4>1, <4>2, <4>4
      <3> QED
        BY <3>1, <3>2
    <2>4. g = [T \in D |-> e(T)]
      <3> HIDE DEF e
      <3> QED
        BY <2>3
    <2>5. solves(g, k + 1)
      BY <2>4, Zenon
    <2> HIDE DEF solves, g
    <2> QED
      BY <2>5
  <1>3. Nat \subseteq S
    <2> HIDE DEF S
    <2> QED
      BY <1>1, <1>2, SetInduction
  <1> QED
    BY <1>3

\* What it is at the prefixes of the sequence.
Rounds(loop, f, base, seq, n) ==
    /\ f[1..0] = base
    /\ \A i \in 1..n : f[1..i] = Step(loop, f[1..(i - 1)], seq[i])

LEMMA FoldAt ==
    ASSUME NEW loop, NEW base, NEW seq, NEW n \in Nat, NEW f, Folds(loop, f, base, seq, 1..n)
    PROVE  Rounds(loop, f, base, seq, n)
  <1> DEFINE step(s, i) == Step(loop, s, seq[i])
             e(T) == IF T = {} THEN base ELSE step(f[T \ {Max(T)}], Max(T))
  <1>1. \A T \in SUBSET (1..n) : f[T] = e(T)
    <2>1. f = [T \in SUBSET (1..n) |-> e(T)]
      BY DEF Folds
    <2> HIDE DEF e
    <2> QED
      BY <2>1
  <1> HIDE DEF step
  <1>2. f[1..0] = base
    <2>1. 1..0 = {}
      OBVIOUS
    <2> QED
      BY <1>1, <2>1
  <1>3. ASSUME NEW i \in 1..n PROVE f[1..i] = step(f[1..(i - 1)], i)
    <2>1. 1..i \in SUBSET (1..n) /\ 1..i # {}
      OBVIOUS
    <2>2. Max(1..i) = i
      <3>1. i \in 1..i /\ 1..i \subseteq Nat /\ \A m \in 1..i : m <= i
        OBVIOUS
      <3> QED
        BY <3>1, MaxIs
    <2>3. (1..i) \ {i} = 1..(i - 1)
      OBVIOUS
    <2> QED
      BY <1>1, <2>1, <2>2, <2>3
  <1> QED
    BY <1>2, <1>3 DEF step, Rounds

\* One more element is one more step.
OneMore(seq, n, x, more, m) ==
    /\ n \in Nat /\ m = n + 1
    /\ \A i \in 1..n : more[i] = seq[i]
    /\ more[m] = x

LEMMA FoldAppends ==
    ASSUME NEW loop, NEW base, NEW seq, NEW more, NEW x, NEW n, NEW m, OneMore(seq, n, x, more, m),
           NEW f, NEW g, Folds(loop, f, base, seq, 1..n), Folds(loop, g, base, more, 1..m)
    PROVE  g[1..m] = Step(loop, f[1..n], x)
  <1> DEFINE S == {i \in Nat : i <= n => g[1..i] = f[1..i]}
  <1>0. /\ n \in Nat /\ m \in Nat /\ m = n + 1
        /\ \A i \in 1..n : more[i] = seq[i]
        /\ more[m] = x
    BY DEF OneMore
  <1>1. Rounds(loop, f, base, seq, n) /\ Rounds(loop, g, base, more, m)
    BY <1>0, FoldAt
  <1>2. /\ f[1..0] = base
        /\ \A i \in 1..n : f[1..i] = Step(loop, f[1..(i - 1)], seq[i])
    BY <1>1 DEF Rounds
  <1>3. /\ g[1..0] = base
        /\ \A i \in 1..m : g[1..i] = Step(loop, g[1..(i - 1)], more[i])
    BY <1>1 DEF Rounds
  <1>4. 0 \in S
    BY <1>2, <1>3
  <1>5. ASSUME NEW i \in Nat, i \in S PROVE i + 1 \in S
    <2> SUFFICES ASSUME i + 1 <= n PROVE g[1..(i + 1)] = f[1..(i + 1)]
      OBVIOUS
    <2>1. i + 1 \in 1..n /\ i + 1 \in 1..m /\ (i + 1) - 1 = i /\ i <= n
      BY <1>0
    <2>2. g[1..i] = f[1..i]
      BY <1>5, <2>1
    <2> QED
      BY <1>0, <1>2, <1>3, <2>1, <2>2
  <1>6. Nat \subseteq S
    <2> HIDE DEF S
    <2> QED
      BY <1>4, <1>5, SetInduction
  <1>7. g[1..n] = f[1..n]
    BY <1>0, <1>6
  <1>8. m \in 1..m /\ m - 1 = n
    BY <1>0
  <1> QED
    BY <1>0, <1>3, <1>7, <1>8

-----------------------------------------------------------------------------
(***************************************************************************)
(* The equations of the five loops.                                        *)
(***************************************************************************)

LEMMA OpFold ==
    ASSUME NEW V, NEW seq \in Seq(V), NEW base
    PROVE  \E f : Folds("op", f, base, seq, 1..Len(seq)) /\ FoldLeft(SendOp, base, seq) = f[1..Len(seq)]
  <1> DEFINE solves(f) == f = [T \in SUBSET DOMAIN seq |->
                                 IF T = {} THEN base ELSE SendOp(f[T \ {Max(T)}], seq[Max(T)])]
  <1>1. DOMAIN seq = 1..Len(seq) /\ Len(seq) \in Nat
    OBVIOUS
  <1>2. \A f : Folds("op", f, base, seq, 1..Len(seq)) <=> solves(f)
    BY <1>1 DEF Folds, Step
  <1>3. \E f : solves(f)
    BY <1>1, <1>2, FoldExists
  <1>4. FoldLeft(SendOp, base, seq) = (CHOOSE f : solves(f))[DOMAIN seq]
    BY DEF FoldLeft, MapThenFoldSet
  <1> HIDE DEF solves
  <1>5. solves(CHOOSE f : solves(f))
    BY <1>3
  <1> QED
    BY <1>1, <1>2, <1>4, <1>5

LEMMA TxnFold ==
    ASSUME NEW V, NEW seq \in Seq(V), NEW base
    PROVE  \E f : Folds("txn", f, base, seq, 1..Len(seq)) /\ FoldLeft(SendTxn, base, seq) = f[1..Len(seq)]
  <1> DEFINE solves(f) == f = [T \in SUBSET DOMAIN seq |->
                                 IF T = {} THEN base ELSE SendTxn(f[T \ {Max(T)}], seq[Max(T)])]
  <1>1. DOMAIN seq = 1..Len(seq) /\ Len(seq) \in Nat
    OBVIOUS
  <1>2. \A f : Folds("txn", f, base, seq, 1..Len(seq)) <=> solves(f)
    BY <1>1 DEF Folds, Step
  <1>3. \E f : solves(f)
    BY <1>1, <1>2, FoldExists
  <1>4. FoldLeft(SendTxn, base, seq) = (CHOOSE f : solves(f))[DOMAIN seq]
    BY DEF FoldLeft, MapThenFoldSet
  <1> HIDE DEF solves
  <1>5. solves(CHOOSE f : solves(f))
    BY <1>3
  <1> QED
    BY <1>1, <1>2, <1>4, <1>5

LEMMA RowFold ==
    ASSUME NEW V, NEW seq \in Seq(V), NEW base
    PROVE  \E f : Folds("row", f, base, seq, 1..Len(seq)) /\ FoldLeft(OnRow, base, seq) = f[1..Len(seq)]
  <1> DEFINE solves(f) == f = [T \in SUBSET DOMAIN seq |->
                                 IF T = {} THEN base ELSE OnRow(f[T \ {Max(T)}], seq[Max(T)])]
  <1>1. DOMAIN seq = 1..Len(seq) /\ Len(seq) \in Nat
    OBVIOUS
  <1>2. \A f : Folds("row", f, base, seq, 1..Len(seq)) <=> solves(f)
    BY <1>1 DEF Folds, Step
  <1>3. \E f : solves(f)
    BY <1>1, <1>2, FoldExists
  <1>4. FoldLeft(OnRow, base, seq) = (CHOOSE f : solves(f))[DOMAIN seq]
    BY DEF FoldLeft, MapThenFoldSet
  <1> HIDE DEF solves
  <1>5. solves(CHOOSE f : solves(f))
    BY <1>3
  <1> QED
    BY <1>1, <1>2, <1>4, <1>5

LEMMA LineFold ==
    ASSUME NEW V, NEW seq \in Seq(V), NEW base
    PROVE  \E f : Folds("line", f, base, seq, 1..Len(seq)) /\ FoldLeft(OnLine, base, seq) = f[1..Len(seq)]
  <1> DEFINE solves(f) == f = [T \in SUBSET DOMAIN seq |->
                                 IF T = {} THEN base ELSE OnLine(f[T \ {Max(T)}], seq[Max(T)])]
  <1>1. DOMAIN seq = 1..Len(seq) /\ Len(seq) \in Nat
    OBVIOUS
  <1>2. \A f : Folds("line", f, base, seq, 1..Len(seq)) <=> solves(f)
    BY <1>1 DEF Folds, Step
  <1>3. \E f : solves(f)
    BY <1>1, <1>2, FoldExists
  <1>4. FoldLeft(OnLine, base, seq) = (CHOOSE f : solves(f))[DOMAIN seq]
    BY DEF FoldLeft, MapThenFoldSet
  <1> HIDE DEF solves
  <1>5. solves(CHOOSE f : solves(f))
    BY <1>3
  <1> QED
    BY <1>1, <1>2, <1>4, <1>5

LEMMA EntryFold ==
    ASSUME NEW V, NEW seq \in Seq(V), NEW base
    PROVE  \E f : Folds("entry", f, base, seq, 1..Len(seq)) /\ FoldLeft(OnEntry, base, seq) = f[1..Len(seq)]
  <1> DEFINE solves(f) == f = [T \in SUBSET DOMAIN seq |->
                                 IF T = {} THEN base ELSE OnEntry(f[T \ {Max(T)}], seq[Max(T)])]
  <1>1. DOMAIN seq = 1..Len(seq) /\ Len(seq) \in Nat
    OBVIOUS
  <1>2. \A f : Folds("entry", f, base, seq, 1..Len(seq)) <=> solves(f)
    BY <1>1 DEF Folds, Step
  <1>3. \E f : solves(f)
    BY <1>1, <1>2, FoldExists
  <1>4. FoldLeft(OnEntry, base, seq) = (CHOOSE f : solves(f))[DOMAIN seq]
    BY DEF FoldLeft, MapThenFoldSet
  <1> HIDE DEF solves
  <1>5. solves(CHOOSE f : solves(f))
    BY <1>3
  <1> QED
    BY <1>1, <1>2, <1>4, <1>5

\* Nothing is left to do at the end of the sequence ...
LEMMA FoldsOfNothing ==
    ASSUME NEW base
    PROVE  /\ FoldLeft(SendOp, base, <<>>) = base
           /\ FoldLeft(SendTxn, base, <<>>) = base
           /\ FoldLeft(OnRow, base, <<>>) = base
           /\ FoldLeft(OnLine, base, <<>>) = base
           /\ FoldLeft(OnEntry, base, <<>>) = base
  <1>1. <<>> \in Seq({}) /\ Len(<<>>) = 0
    OBVIOUS
  <1>2. \A loop, f : Folds(loop, f, base, <<>>, 1..0) => f[1..0] = base
    <2>1. 1..0 = {} /\ SUBSET {} = {{}}
      OBVIOUS
    <2> QED
      BY <2>1 DEF Folds
  <1>3. FoldLeft(SendOp, base, <<>>) = base
    BY <1>1, <1>2, OpFold
  <1>4. FoldLeft(SendTxn, base, <<>>) = base
    BY <1>1, <1>2, TxnFold
  <1>5. FoldLeft(OnRow, base, <<>>) = base
    BY <1>1, <1>2, RowFold
  <1>6. FoldLeft(OnLine, base, <<>>) = base
    BY <1>1, <1>2, LineFold
  <1>7. FoldLeft(OnEntry, base, <<>>) = base
    BY <1>1, <1>2, EntryFold
  <1> QED
    BY <1>3, <1>4, <1>5, <1>6, <1>7

\* ... and one more element is one more round of the loop.
LEMMA OpAppends ==
    ASSUME NEW V, NEW seq \in Seq(V), NEW x \in V, NEW base
    PROVE  FoldLeft(SendOp, base, Append(seq, x)) = SendOp(FoldLeft(SendOp, base, seq), x)
  <1>1. Append(seq, x) \in Seq(V) /\ Len(Append(seq, x)) = Len(seq) + 1
    OBVIOUS
  <1>2. PICK f : Folds("op", f, base, seq, 1..Len(seq)) /\ FoldLeft(SendOp, base, seq) = f[1..Len(seq)]
    BY OpFold
  <1>3. PICK g : /\ Folds("op", g, base, Append(seq, x), 1..(Len(seq) + 1))
                 /\ FoldLeft(SendOp, base, Append(seq, x)) = g[1..(Len(seq) + 1)]
    BY <1>1, OpFold
  <1>4. OneMore(seq, Len(seq), x, Append(seq, x), Len(seq) + 1)
    BY DEF OneMore
  <1>5. g[1..(Len(seq) + 1)] = Step("op", f[1..Len(seq)], x)
    BY <1>2, <1>3, <1>4, FoldAppends
  <1> QED
    BY <1>2, <1>3, <1>5 DEF Step

LEMMA TxnAppends ==
    ASSUME NEW V, NEW seq \in Seq(V), NEW x \in V, NEW base
    PROVE  FoldLeft(SendTxn, base, Append(seq, x)) = SendTxn(FoldLeft(SendTxn, base, seq), x)
  <1>1. Append(seq, x) \in Seq(V) /\ Len(Append(seq, x)) = Len(seq) + 1
    OBVIOUS
  <1>2. PICK f : Folds("txn", f, base, seq, 1..Len(seq)) /\ FoldLeft(SendTxn, base, seq) = f[1..Len(seq)]
    BY TxnFold
  <1>3. PICK g : /\ Folds("txn", g, base, Append(seq, x), 1..(Len(seq) + 1))
                 /\ FoldLeft(SendTxn, base, Append(seq, x)) = g[1..(Len(seq) + 1)]
    BY <1>1, TxnFold
  <1>4. OneMore(seq, Len(seq), x, Append(seq, x), Len(seq) + 1)
    BY DEF OneMore
  <1>5. g[1..(Len(seq) + 1)] = Step("txn", f[1..Len(seq)], x)
    BY <1>2, <1>3, <1>4, FoldAppends
  <1> QED
    BY <1>2, <1>3, <1>5 DEF Step

LEMMA RowAppends ==
    ASSUME NEW V, NEW seq \in Seq(V), NEW x \in V, NEW base
    PROVE  FoldLeft(OnRow, base, Append(seq, x)) = OnRow(FoldLeft(OnRow, base, seq), x)
  <1>1. Append(seq, x) \in Seq(V) /\ Len(Append(seq, x)) = Len(seq) + 1
    OBVIOUS
  <1>2. PICK f : Folds("row", f, base, seq, 1..Len(seq)) /\ FoldLeft(OnRow, base, seq) = f[1..Len(seq)]
    BY RowFold
  <1>3. PICK g : /\ Folds("row", g, base, Append(seq, x), 1..(Len(seq) + 1))
                 /\ FoldLeft(OnRow, base, Append(seq, x)) = g[1..(Len(seq) + 1)]
    BY <1>1, RowFold
  <1>4. OneMore(seq, Len(seq), x, Append(seq, x), Len(seq) + 1)
    BY DEF OneMore
  <1>5. g[1..(Len(seq) + 1)] = Step("row", f[1..Len(seq)], x)
    BY <1>2, <1>3, <1>4, FoldAppends
  <1> QED
    BY <1>2, <1>3, <1>5 DEF Step

LEMMA LineAppends ==
    ASSUME NEW V, NEW seq \in Seq(V), NEW x \in V, NEW base
    PROVE  FoldLeft(OnLine, base, Append(seq, x)) = OnLine(FoldLeft(OnLine, base, seq), x)
  <1>1. Append(seq, x) \in Seq(V) /\ Len(Append(seq, x)) = Len(seq) + 1
    OBVIOUS
  <1>2. PICK f : Folds("line", f, base, seq, 1..Len(seq)) /\ FoldLeft(OnLine, base, seq) = f[1..Len(seq)]
    BY LineFold
  <1>3. PICK g : /\ Folds("line", g, base, Append(seq, x), 1..(Len(seq) + 1))
                 /\ FoldLeft(OnLine, base, Append(seq, x)) = g[1..(Len(seq) + 1)]
    BY <1>1, LineFold
  <1>4. OneMore(seq, Len(seq), x, Append(seq, x), Len(seq) + 1)
    BY DEF OneMore
  <1>5. g[1..(Len(seq) + 1)] = Step("line", f[1..Len(seq)], x)
    BY <1>2, <1>3, <1>4, FoldAppends
  <1> QED
    BY <1>2, <1>3, <1>5 DEF Step

LEMMA EntryAppends ==
    ASSUME NEW V, NEW seq \in Seq(V), NEW x \in V, NEW base
    PROVE  FoldLeft(OnEntry, base, Append(seq, x)) = OnEntry(FoldLeft(OnEntry, base, seq), x)
  <1>1. Append(seq, x) \in Seq(V) /\ Len(Append(seq, x)) = Len(seq) + 1
    OBVIOUS
  <1>2. PICK f : Folds("entry", f, base, seq, 1..Len(seq)) /\ FoldLeft(OnEntry, base, seq) = f[1..Len(seq)]
    BY EntryFold
  <1>3. PICK g : /\ Folds("entry", g, base, Append(seq, x), 1..(Len(seq) + 1))
                 /\ FoldLeft(OnEntry, base, Append(seq, x)) = g[1..(Len(seq) + 1)]
    BY <1>1, EntryFold
  <1>4. OneMore(seq, Len(seq), x, Append(seq, x), Len(seq) + 1)
    BY DEF OneMore
  <1>5. g[1..(Len(seq) + 1)] = Step("entry", f[1..Len(seq)], x)
    BY <1>2, <1>3, <1>4, FoldAppends
  <1> QED
    BY <1>2, <1>3, <1>5 DEF Step

-----------------------------------------------------------------------------
(***************************************************************************)
(* read_log.                                                               *)
(***************************************************************************)

\* Induction on sequences, with a set.
LEMMA SeqInduction ==
    ASSUME NEW V, NEW S, <<>> \in S, \A s \in Seq(V), x \in V : s \in S => Append(s, x) \in S
    PROVE  Seq(V) \subseteq S
  <1> DEFINE T == {n \in Nat : \A s \in Seq(V) : Len(s) = n => s \in S}
  <1>1. 0 \in T
    <2>1. \A s \in Seq(V) : Len(s) = 0 => s = <<>>
      OBVIOUS
    <2> QED
      BY <2>1
  <1>2. ASSUME NEW n \in Nat, n \in T PROVE n + 1 \in T
    <2> SUFFICES ASSUME NEW s \in Seq(V), Len(s) = n + 1 PROVE s \in S
      OBVIOUS
    <2> DEFINE f == SubSeq(s, 1, n)
    <2>1. f \in Seq(V) /\ Len(f) = n /\ s[n + 1] \in V
      OBVIOUS
    <2>2. s = Append(f, s[n + 1])
      <3>1. Append(f, s[n + 1]) \in Seq(V) /\ Len(Append(f, s[n + 1])) = n + 1
        BY <2>1
      <3>2. \A i \in 1..(n + 1) : Append(f, s[n + 1])[i] = s[i]
        BY <2>1
      <3> QED
        BY <3>1, <3>2, SeqEqual
    <2>3. f \in S
      BY <1>2, <2>1
    <2> HIDE DEF f
    <2> QED
      BY <2>1, <2>2, <2>3
  <1>3. Nat \subseteq T
    <2> HIDE DEF T
    <2> QED
      BY <1>1, <1>2, SetInduction
  <1> QED
    BY <1>3

\* The lines N, and the objects in them.
NewsIn(lines)    == {k \in DOMAIN lines : lines[k].action = "N"}
ObjectsIn(lines) == {lines[k].obj : k \in NewsIn(lines)}

\* No object is in two of them.
OnceIn(lines) == \A k, m \in NewsIn(lines) : lines[k].obj = lines[m].obj => k = m

LEMMA LineTypes ==
    ASSUME NEW line \in Line
    PROVE  /\ line.action \in {"N", "R", "C"}
           /\ line.action \in {"N", "R"} => line.obj \in ObjectVersion
  BY DEF Line

\* One more line.
LEMMA NewsOfMore ==
    ASSUME NEW lines \in Seq(Line), NEW line \in Line
    PROVE  /\ NewsIn(Append(lines, line)) = IF line.action = "N" THEN NewsIn(lines) \cup {Len(lines) + 1}
                                                                ELSE NewsIn(lines)
           /\ ObjectsIn(Append(lines, line)) = IF line.action = "N" THEN ObjectsIn(lines) \cup {line.obj}
                                                                   ELSE ObjectsIn(lines)
           /\ OnceIn(lines) /\ (line.action = "N" => line.obj \notin ObjectsIn(lines))
                 => OnceIn(Append(lines, line))
  <1> DEFINE more == Append(lines, line)
             n    == Len(lines)
  <1>1. /\ n \in Nat /\ DOMAIN lines = 1..n /\ DOMAIN more = 1..(n + 1)
        /\ more[n + 1] = line /\ n + 1 \notin 1..n
        /\ \A k \in 1..n : more[k] = lines[k]
    OBVIOUS
  <1> HIDE DEF more, n
  <1>2. NewsIn(more) = IF line.action = "N" THEN NewsIn(lines) \cup {n + 1} ELSE NewsIn(lines)
    <2>1. \A k : k \in 1..(n + 1) <=> k \in 1..n \/ k = n + 1
      BY <1>1
    <2> QED
      BY <1>1, <2>1 DEF NewsIn
  <1>3. \A k \in NewsIn(lines) : k \in 1..n /\ k # n + 1 /\ more[k] = lines[k]
    BY <1>1 DEF NewsIn
  <1>4. ObjectsIn(more) = IF line.action = "N" THEN ObjectsIn(lines) \cup {line.obj} ELSE ObjectsIn(lines)
    BY <1>1, <1>2, <1>3 DEF ObjectsIn
  <1>5. ASSUME OnceIn(lines), line.action = "N" => line.obj \notin ObjectsIn(lines)
        PROVE  OnceIn(more)
    <2>1. \A k \in NewsIn(lines) : lines[k].obj \in ObjectsIn(lines)
      BY DEF ObjectsIn
    <2> QED
      BY <1>1, <1>2, <1>3, <1>5, <2>1 DEF OnceIn
  <1> QED
    BY <1>2, <1>4, <1>5 DEF more, n

\* read_log reads the objects of the lines N, all of them and nothing else.
LEMMA ReadLogReads ==
    ASSUME NEW lines \in Seq(Line)
    PROVE  /\ Range(ReadLog(lines)) = ObjectsIn(lines)
           /\ ReadLog(lines) = <<>> <=> NewsIn(lines) = {}
  <1> DEFINE read(l) == FoldLeft(OnLine, <<>>, l)
             reads(l) == /\ read(l) \in Seq(ObjectVersion)
                         /\ Range(read(l)) = ObjectsIn(l)
                         /\ read(l) = <<>> <=> NewsIn(l) = {}
             S == {l \in Seq(Line) : reads(l)}
  <1>1. <<>> \in S
    <2>1. <<>> \in Seq(Line) /\ read(<<>>) = <<>>
      BY FoldsOfNothing
    <2>2. Range(<<>>) = {} /\ NewsIn(<<>>) = {} /\ ObjectsIn(<<>>) = {}
      BY DEF Range, NewsIn, ObjectsIn
    <2>3. <<>> \in Seq(ObjectVersion)
      OBVIOUS
    <2>4. reads(<<>>)
      BY <2>1, <2>2, <2>3, Zenon
    <2> HIDE DEF reads
    <2> QED
      BY <2>1, <2>4
  <1>2. ASSUME NEW l \in Seq(Line), NEW line \in Line, l \in S PROVE Append(l, line) \in S
    <2> SUFFICES reads(Append(l, line))
      <3>1. Append(l, line) \in Seq(Line)
        OBVIOUS
      <3> HIDE DEF reads
      <3> QED
        BY <3>1
    <2>1. read(Append(l, line)) = OnLine(read(l), line)
      BY LineAppends
    <2> HIDE DEF read
    <2>2. /\ read(l) \in Seq(ObjectVersion)
          /\ Range(read(l)) = ObjectsIn(l)
          /\ read(l) = <<>> <=> NewsIn(l) = {}
      <3>1. reads(l)
        <4> HIDE DEF reads
        <4> QED
          BY <1>2
      <3> QED
        BY <3>1
    <2>3. CASE line.action = "N"
      <3>1. line.obj \in ObjectVersion
        BY <2>3, LineTypes
      <3>2. PICK r : r = read(l)
        OBVIOUS
      <3>3. Append(r, line.obj) \in Seq(ObjectVersion) /\ Append(r, line.obj) # <<>>
        BY <2>2, <3>1, <3>2
      <3>4. Range(Append(r, line.obj)) = Range(r) \cup {line.obj}
        <4>1. r \in Seq(ObjectVersion)
          BY <2>2, <3>2
        <4>2. /\ DOMAIN r = 1..Len(r) /\ DOMAIN Append(r, line.obj) = 1..(Len(r) + 1)
              /\ \A i \in 1..Len(r) : Append(r, line.obj)[i] = r[i]
              /\ Append(r, line.obj)[Len(r) + 1] = line.obj
              /\ Len(r) \in Nat
          BY <4>1
        <4>3. \A i : i \in 1..(Len(r) + 1) <=> i \in 1..Len(r) \/ i = Len(r) + 1
          BY <4>2
        <4> QED
          BY <4>2, <4>3 DEF Range
      <3>5. NewsIn(Append(l, line)) # {} /\ ObjectsIn(Append(l, line)) = ObjectsIn(l) \cup {line.obj}
        BY <2>3, NewsOfMore
      <3>6. read(Append(l, line)) = Append(r, line.obj)
        BY <2>1, <2>3, <3>2 DEF OnLine
      <3> QED
        BY <2>2, <3>2, <3>3, <3>4, <3>5, <3>6, Zenon
    <2>4. CASE line.action # "N"
      <3>1. read(Append(l, line)) = read(l)
        BY <2>1, <2>4 DEF OnLine
      <3>2. NewsIn(Append(l, line)) = NewsIn(l) /\ ObjectsIn(Append(l, line)) = ObjectsIn(l)
        BY <2>4, NewsOfMore
      <3> QED
        BY <2>2, <3>1, <3>2
    <2> QED
      BY <2>3, <2>4
  <1>3. Seq(Line) \subseteq S
    <2> HIDE DEF S
    <2> QED
      BY <1>1, <1>2, SeqInduction
  <1>4. reads(lines)
    <2> HIDE DEF reads
    <2> QED
      BY <1>3
  <1> QED
    BY <1>4 DEF ReadLog

-----------------------------------------------------------------------------
(***************************************************************************)
(* The parser: a tuple means what the description of its table says.       *)
(***************************************************************************)

\* A position for each of the four columns, 0 when there is none.
Columns == [id : Nat, version : Nat, changeset : Nat, redaction : Nat]

\* The position of a column.
LEMMA ColumnIsThere ==
    ASSUME NEW cols \in Seq(Column), NEW name
    PROVE  /\ ColumnAt(cols, name) \in Nat
           /\ ColumnAt(cols, name) # 0 =>
                 ColumnAt(cols, name) \in 1..Len(cols) /\ cols[ColumnAt(cols, name)] = name
  <1> DEFINE I == {i \in 1..Len(cols) : cols[i] = name}
  <1>1. ColumnAt(cols, name) = IF I # {} THEN Min(I) ELSE 0
    BY DEF ColumnAt, SelectInSeq
  <1>2. ASSUME I # {} PROVE Min(I) \in I
    <2>1. I \subseteq Nat
      OBVIOUS
    <2> HIDE DEF I
    <2>2. PICK i \in I : \A j \in I : ~(<<j, i>> \in OpToRel(<, Nat))
      BY <1>2, <2>1, NatLessThanWellFounded, WFMin, Zenon
    <2>3. ASSUME NEW j \in I PROVE i <= j
      <3>1. i \in Nat /\ j \in Nat
        BY <2>1, <2>2
      <3>2. j < i => <<j, i>> \in OpToRel(<, Nat)
        BY <3>1, Zenon DEF OpToRel
      <3>3. ~(j < i)
        BY <2>2, <3>2, Zenon
      <3> QED
        BY <3>1, <3>3
    <2> QED
      BY <2>2, <2>3 DEF Min
  <1>3. I \subseteq 1..Len(cols) /\ \A i \in I : cols[i] = name
    OBVIOUS
  <1> HIDE DEF I
  <1>4. CASE I = {}
    BY <1>1, <1>4
  <1>5. CASE I # {}
    <2>1. Min(I) \in 1..Len(cols) /\ cols[Min(I)] = name
      BY <1>2, <1>3, <1>5
    <2>2. ColumnAt(cols, name) = Min(I)
      BY <1>1, <1>5
    <2> QED
      BY <2>1, <2>2
  <1> QED
    BY <1>4, <1>5

LEMMA ColumnsTypes ==
    ASSUME NEW cols \in Seq(Column)
    PROVE  RelevantColumns(cols) \in Columns
  BY ColumnIsThere DEF RelevantColumns, Columns

\* The values of an object, by the position of their columns.
LEMMA TupleTypes ==
    ASSUME NEW obj \in ObjectVersion, NEW cols \in Seq(Column)
    PROVE  Tuple(obj, cols) \in Seq(Nat)
  <1>1. obj.id \in Nat /\ obj.version \in Nat /\ obj.cid \in Nat
    BY DEF ObjectVersion
  <1>2. DOMAIN cols = 1..Len(cols) /\ Len(cols) \in Nat
    OBVIOUS
  <1>3. Tuple(obj, cols) \in [1..Len(cols) -> Nat]
    BY <1>1, <1>2 DEF Tuple
  <1> QED
    BY <1>2, <1>3

\* What is parsed is the object that was sent.
LEMMA TupleIsParsed ==
    ASSUME NEW obj \in ObjectVersion, NEW cols \in Seq(Column), NEW meta, NEW action, NEW kind,
           meta[obj.type] = RelevantColumns(cols), ~Missing(RelevantColumns(cols))
    PROVE  ParseTuple(meta, action, [op |-> kind, rel |-> obj.type, tuple |-> Tuple(obj, cols)])
              = [action |-> action, obj |-> obj]
  <1> DEFINE c     == RelevantColumns(cols)
             tuple == Tuple(obj, cols)
  <1>1. /\ c.id = ColumnAt(cols, "id") /\ c.version = ColumnAt(cols, "version")
        /\ c.changeset = ColumnAt(cols, "changeset_id")
        /\ DOMAIN c = {"id", "version", "changeset", "redaction"}
    BY DEF RelevantColumns
  <1>2. c["id"] # 0 /\ c["version"] # 0 /\ c["changeset"] # 0
    <2> HIDE DEF c
    <2> QED
      BY <1>1 DEF Missing, c
  <1>3. /\ c.id \in 1..Len(cols) /\ cols[c.id] = "id"
        /\ c.version \in 1..Len(cols) /\ cols[c.version] = "version"
        /\ c.changeset \in 1..Len(cols) /\ cols[c.changeset] = "changeset_id"
    BY <1>1, <1>2, ColumnIsThere
  <1> HIDE DEF c
  <1>4. DOMAIN cols = 1..Len(cols)
    OBVIOUS
  <1>5. tuple[c.id] = obj.id /\ tuple[c.version] = obj.version /\ tuple[c.changeset] = obj.cid
    BY <1>3, <1>4 DEF Tuple
  <1>6. obj = Object(obj.type, obj.id, obj.version, obj.cid)
    BY DEF ObjectVersion, Object
  <1> HIDE DEF tuple
  <1>7. PICK row : row = [op |-> kind, rel |-> obj.type, tuple |-> tuple]
    OBVIOUS
  <1>8. row.rel = obj.type /\ row.tuple = tuple
    BY <1>7
  <1>9. ParseTuple(meta, action, row) = [action |-> action, obj |-> Object(obj.type, obj.id, obj.version, obj.cid)]
    BY <1>5, <1>8 DEF ParseTuple, c
  <1> QED
    BY <1>6, <1>7, <1>9 DEF tuple

-----------------------------------------------------------------------------
(***************************************************************************)
(* get-log after some of the rows.                                         *)
(***************************************************************************)

Layout      == Seq(Column) \ {<<>>}
Op          == [kind : {"I", "U"}, obj : ObjectVersion]
Transaction == [ops : Seq(Op), stamp : Nat, layout : [Type -> Layout]]

Row == [op : {"B"}]
         \cup [op : {"R"}, rel : Type, cols : Seq(Column)]
         \cup [op : {"I", "U"}, rel : Type, tuple : Seq(Nat)]
         \cup [op : {"C"}, lsn : Nat]

ReadState == [data : Seq(Line), open : BOOLEAN, actual : BOOLEAN, lsn : Nat,
              meta : [Type -> Columns], error : BOOLEAN]

\* What the lines look like: a C follows a line that is none, and one is to
\* come exactly when the transaction has had something to write.
Ends(data, open) ==
    /\ \A k \in DOMAIN data : data[k].action = "C" => k > 1 /\ data[k - 1].action # "C"
    /\ open => data # <<>> /\ data[Len(data)].action # "C"
    /\ ~open => data = <<>> \/ data[Len(data)].action = "C"

\* r is where the loop is when the tables were described as in sent and objs
\* were inserted.
Reads(sent, r, objs) ==
    /\ r \in ReadState
    /\ \A t \in Type : sent[t] # <<>> =>
          r.meta[t] = RelevantColumns(sent[t]) /\ ~Missing(RelevantColumns(sent[t]))
    /\ Ends(r.data, r.open)
    /\ ObjectsIn(r.data) = objs
    /\ OnceIn(r.data)
    /\ r.actual <=> objs # {}

Follows(sent, r, objs) == r.error \/ Reads(sent, r, objs)

LEMMA EndsWithMore ==
    ASSUME NEW data \in Seq(Line), NEW line \in Line, NEW open \in BOOLEAN, Ends(data, open),
           line.action = "C" => open
    PROVE  Ends(Append(data, line), line.action # "C")
  <1> DEFINE n    == Len(data)
             more == Append(data, line)
  <1>1. /\ n \in Nat /\ DOMAIN data = 1..n /\ DOMAIN more = 1..(n + 1) /\ Len(more) = n + 1
        /\ more[n + 1] = line
        /\ \A k \in 1..n : more[k] = data[k]
    OBVIOUS
  <1>0. more # <<>> /\ (data # <<>> => n > 0)
    OBVIOUS
  <1> HIDE DEF n, more
  <1>2. ASSUME NEW k \in DOMAIN more, more[k].action = "C"
        PROVE  k > 1 /\ more[k - 1].action # "C"
    <2>1. CASE k = n + 1
      <3>1. data # <<>> /\ data[n].action # "C"
        BY <1>1, <1>2, <2>1 DEF Ends, n
      <3> QED
        BY <1>0, <1>1, <2>1, <3>1
    <2>2. CASE k # n + 1
      <3>1. k \in 1..n
        BY <1>1, <2>2
      <3>2. k > 1 /\ data[k - 1].action # "C"
        BY <1>1, <1>2, <3>1 DEF Ends
      <3>3. k - 1 \in 1..n
        BY <1>1, <3>1, <3>2
      <3> QED
        BY <1>1, <3>2, <3>3
    <2> QED
      BY <2>1, <2>2
  <1>3. Ends(more, line.action # "C")
    BY <1>0, <1>1, <1>2 DEF Ends
  <1> QED
    BY <1>3 DEF more

\* A line that is no C goes with its transaction.
LEMMA WritesEntry ==
    ASSUME NEW sent, NEW r \in ReadState, NEW objs, Reads(sent, r, objs), NEW obj \in ObjectVersion,
           NEW action \in {"N", "R"}, action = "N" => obj \notin objs,
           NEW q \in ReadState, q.data = Append(r.data, [action |-> action, obj |-> obj]), q.open,
           q.meta = r.meta, q.actual <=> r.actual \/ action = "N"
    PROVE  Reads(sent, q, IF action = "N" THEN objs \cup {obj} ELSE objs)
  <1> DEFINE line == [action |-> action, obj |-> obj]
  <1>1. line \in Line /\ line.action = action /\ line.obj = obj /\ line.action # "C"
    BY DEF Line
  <1>2. r.data \in Seq(Line) /\ r.open \in BOOLEAN
    BY DEF ReadState
  <1>3. q.data = Append(r.data, line)
    OBVIOUS
  <1> HIDE DEF line
  <1>4. Ends(r.data, r.open) /\ ObjectsIn(r.data) = objs /\ OnceIn(r.data) /\ (r.actual <=> objs # {})
    BY DEF Reads
  <1>5. Ends(q.data, q.open)
    <2>1. Ends(Append(r.data, line), line.action # "C")
      BY <1>1, <1>2, <1>4, EndsWithMore
    <2>2. q.open = (line.action # "C")
      BY <1>1 DEF ReadState
    <2> QED
      BY <1>3, <2>1, <2>2
  <1>6. /\ ObjectsIn(q.data) = IF action = "N" THEN objs \cup {obj} ELSE objs
        /\ OnceIn(q.data)
    BY <1>1, <1>2, <1>3, <1>4, NewsOfMore
  <1>7. q.actual <=> (IF action = "N" THEN objs \cup {obj} ELSE objs) # {}
    BY <1>4
  <1> QED
    BY <1>5, <1>6, <1>7 DEF Reads

\* Message R: what is known of the table is replaced.
LEMMA FollowsRelation ==
    ASSUME NEW sent \in [Type -> Seq(Column)], NEW r, NEW objs, Follows(sent, r, objs),
           NEW t \in Type, NEW cols \in Seq(Column)
    PROVE  Follows([sent EXCEPT ![t] = cols], OnRow(r, [op |-> "R", rel |-> t, cols |-> cols]), objs)
  <1> DEFINE row == [op |-> "R", rel |-> t, cols |-> cols]
             q   == OnRow(r, row)
             c   == RelevantColumns(cols)
  <1>1. CASE r.error
    BY <1>1 DEF OnRow, Follows
  <1>2. CASE ~r.error
    <2>1. row.op = "R" /\ row.rel = t /\ row.cols = cols
      OBVIOUS
    <2> HIDE DEF row
    <2>2. Reads(sent, r, objs) /\ r \in ReadState /\ c \in Columns
      BY <1>2, ColumnsTypes DEF Follows, Reads
    <2> HIDE DEF c
    <2>3. q = [r EXCEPT !.meta = [@ EXCEPT ![t] = c], !.error = Missing(c)]
      BY <1>2, <2>1 DEF OnRow, OnRelation, ParseRelation, c
    <2>4. Missing(c) \in BOOLEAN
      BY DEF Missing
    <2> HIDE DEF q
    <2>5. /\ q \in ReadState /\ q.data = r.data /\ q.open = r.open /\ q.actual = r.actual
          /\ q.meta = [r.meta EXCEPT ![t] = c] /\ q.error = Missing(c)
      BY <2>2, <2>3, <2>4 DEF ReadState
    <2> SUFFICES ASSUME ~Missing(c) PROVE Reads([sent EXCEPT ![t] = cols], q, objs)
      BY <2>5 DEF Follows, q, row
    <2>6. ASSUME NEW u \in Type, [sent EXCEPT ![t] = cols][u] # <<>>
          PROVE  /\ q.meta[u] = RelevantColumns([sent EXCEPT ![t] = cols][u])
                 /\ ~Missing(RelevantColumns([sent EXCEPT ![t] = cols][u]))
      <3>1. r.meta \in [Type -> Columns]
        BY <2>2 DEF ReadState
      <3>2. CASE u = t
        BY <2>5, <3>1, <3>2 DEF c
      <3>3. CASE u # t
        BY <2>2, <2>5, <2>6, <3>1, <3>3 DEF Reads
      <3> QED
        BY <3>2, <3>3
    <2> QED
      BY <2>2, <2>5, <2>6, Zenon DEF Reads
  <1> QED
    BY <1>1, <1>2

\* Messages I and U, of a table that has been described.
LEMMA FollowsOp ==
    ASSUME NEW sent \in [Type -> Seq(Column)], NEW r, NEW objs, Follows(sent, r, objs),
           NEW op \in Op, sent[op.obj.type] # <<>>, op.kind = "I" => op.obj \notin objs
    PROVE  Follows(sent, OnRow(r, [op |-> op.kind, rel |-> op.obj.type,
                                   tuple |-> Tuple(op.obj, sent[op.obj.type])]),
                   IF op.kind = "I" THEN objs \cup {op.obj} ELSE objs)
  <1> DEFINE cols == sent[op.obj.type]
             row  == [op |-> op.kind, rel |-> op.obj.type, tuple |-> Tuple(op.obj, cols)]
             q    == OnRow(r, row)
  <1>1. CASE r.error
    BY <1>1 DEF OnRow, Follows
  <1>2. CASE ~r.error
    <2>0. op.kind \in {"I", "U"} /\ op.obj \in ObjectVersion /\ op.obj.type \in Type
      BY DEF Op, ObjectVersion
    <2>1. Reads(sent, r, objs) /\ r \in ReadState
      BY <1>2 DEF Follows, Reads
    <2>2. r.meta[op.obj.type] = RelevantColumns(cols) /\ ~Missing(RelevantColumns(cols))
      BY <2>0, <2>1 DEF Reads
    <2>3. cols \in Seq(Column)
      BY <2>0
    <2>4. ASSUME NEW action PROVE ParseTuple(r.meta, action, row) = [action |-> action, obj |-> op.obj]
      <3> HIDE DEF cols
      <3> QED
        BY <2>0, <2>2, <2>3, TupleIsParsed
    <2>5. row.op = op.kind
      OBVIOUS
    <2> HIDE DEF row
    <2>6. r.data \in Seq(Line)
      BY <2>1 DEF ReadState
    <2>7. CASE op.kind = "I"
      <3> DEFINE line == [action |-> "N", obj |-> op.obj]
      <3>1. q = [r EXCEPT !.data = Append(@, line), !.open = TRUE, !.actual = TRUE]
        BY <1>2, <2>4, <2>5, <2>7 DEF OnRow, OnInsert
      <3>2. line \in Line
        BY <2>0 DEF Line
      <3> HIDE DEF line, q
      <3>3. Append(r.data, line) \in Seq(Line)
        BY <2>6, <3>2
      <3>4. /\ q \in ReadState /\ q.data = Append(r.data, line) /\ q.open /\ q.actual
            /\ q.meta = r.meta
        BY <2>1, <3>1, <3>3 DEF ReadState
      <3>5. Reads(sent, q, IF "N" = "N" THEN objs \cup {op.obj} ELSE objs)
        BY <2>0, <2>1, <2>7, <3>4, WritesEntry DEF line
      <3> QED
        BY <2>7, <3>5 DEF Follows, q, row
    <2>8. CASE op.kind = "U"
      <3> DEFINE line == [action |-> "R", obj |-> op.obj]
      <3>1. q = [r EXCEPT !.data = Append(@, line), !.open = TRUE]
        BY <1>2, <2>4, <2>5, <2>8 DEF OnRow, OnUpdate
      <3>2. line \in Line
        BY <2>0 DEF Line
      <3> HIDE DEF line, q
      <3>3. Append(r.data, line) \in Seq(Line)
        BY <2>6, <3>2
      <3>4. /\ q \in ReadState /\ q.data = Append(r.data, line) /\ q.open /\ q.actual = r.actual
            /\ q.meta = r.meta
        BY <2>1, <3>1, <3>3 DEF ReadState
      <3>5. Reads(sent, q, IF "R" = "N" THEN objs \cup {op.obj} ELSE objs)
        BY <2>0, <2>1, <2>8, <3>4, WritesEntry DEF line
      <3> QED
        BY <2>8, <3>5 DEF Follows, q, row
    <2> QED
      BY <2>0, <2>7, <2>8
  <1> QED
    BY <1>1, <1>2

\* Message B, which finds no transaction open.
LEMMA FollowsBegin ==
    ASSUME NEW sent, NEW r, NEW objs, Follows(sent, r, objs), r.error \/ ~r.open
    PROVE  Follows(sent, OnRow(r, [op |-> "B"]), objs)
  <1> DEFINE row == [op |-> "B"]
             q   == OnRow(r, row)
  <1>1. CASE r.error
    BY <1>1 DEF OnRow, Follows
  <1>2. CASE ~r.error
    <2>1. Reads(sent, r, objs) /\ r \in ReadState
      BY <1>2 DEF Follows, Reads
    <2>2. q = [r EXCEPT !.open = FALSE]
      BY <1>2 DEF OnRow, OnBegin
    <2>3. q = r
      BY <1>2, <2>1, <2>2 DEF ReadState
    <2> QED
      BY <2>3
  <1> QED
    BY <1>1, <1>2

\* Message C.
LEMMA FollowsCommit ==
    ASSUME NEW sent, NEW r, NEW objs, Follows(sent, r, objs), NEW lsn \in Nat
    PROVE  LET q == OnRow(r, [op |-> "C", lsn |-> lsn])
           IN  Follows(sent, q, objs) /\ (q.error \/ (~q.open /\ q.lsn = lsn))
  <1> DEFINE row == [op |-> "C", lsn |-> lsn]
             q   == OnRow(r, row)
             end == [action |-> "C"]
  <1>1. CASE r.error
    <2>1. q = r
      BY <1>1 DEF OnRow
    <2> HIDE DEF q
    <2> QED
      BY <1>1, <2>1 DEF Follows, q
  <1>2. CASE ~r.error
    <2>1. Reads(sent, r, objs) /\ r \in ReadState /\ r.data \in Seq(Line) /\ r.open \in BOOLEAN
      BY <1>2 DEF Follows, Reads, ReadState
    <2>2. row.op = "C" /\ row.lsn = lsn
      OBVIOUS
    <2> HIDE DEF row
    <2>3. q = [r EXCEPT !.data = IF r.open THEN Append(@, end) ELSE @, !.lsn = lsn, !.open = FALSE]
      BY <1>2, <2>1, <2>2 DEF OnRow, OnCommit, ReadState
    <2>4. end \in Line /\ end.action = "C"
      BY DEF Line
    <2> HIDE DEF end, q
    <2>5. Append(r.data, end) \in Seq(Line)
      BY <2>1, <2>4
    <2>6. /\ q \in ReadState /\ q.data = (IF r.open THEN Append(r.data, end) ELSE r.data) /\ q.open = FALSE
          /\ q.meta = r.meta /\ q.actual = r.actual /\ q.lsn = lsn
      BY <2>1, <2>3, <2>5 DEF ReadState
    <2>7. Ends(r.data, r.open) /\ ObjectsIn(r.data) = objs /\ OnceIn(r.data)
      BY <2>1 DEF Reads
    <2>8. /\ Ends(q.data, FALSE)
          /\ ObjectsIn(q.data) = objs
          /\ OnceIn(q.data)
      <3>1. CASE r.open
        <4>1. q.data = Append(r.data, end)
          BY <2>6, <3>1
        <4>2. Ends(Append(r.data, end), end.action # "C")
          BY <2>1, <2>4, <2>7, <3>1, EndsWithMore
        <4>3. (end.action # "C") = FALSE
          BY <2>4
        <4>4. ObjectsIn(Append(r.data, end)) = objs /\ OnceIn(Append(r.data, end))
          BY <2>1, <2>4, <2>7, NewsOfMore
        <4> QED
          BY <4>1, <4>2, <4>3, <4>4
      <3>2. CASE ~r.open
        <4>1. r.open = FALSE /\ q.data = r.data
          BY <2>1, <2>6, <3>2
        <4> QED
          BY <2>7, <4>1
      <3> QED
        BY <3>1, <3>2
    <2>9. Reads(sent, q, objs)
      BY <2>1, <2>6, <2>8 DEF Reads
    <2> QED
      BY <2>6, <2>9 DEF Follows, q, row
  <1> QED
    BY <1>1, <1>2

-----------------------------------------------------------------------------
(***************************************************************************)
(* get-log after all rows of some transactions.                            *)
(***************************************************************************)

SendState == [rows : Seq(Row), lsn : Nat, layout : [Type -> Seq(Column)], sent : [Type -> Seq(Column)]]

\* What is inserted by the operations ops, by the transactions txns.
Inserts(ops)     == {op.obj : op \in {o \in Range(ops) : o.kind = "I"}}
NewObjects(txns) == UNION {Inserts(txns[i].ops) : i \in DOMAIN txns}

\* Each object is inserted once, and none of objs.
Fresh(ops, objs) ==
    /\ Inserts(ops) \cap objs = {}
    /\ \A k, m \in DOMAIN ops :
          ops[k].kind = "I" /\ ops[m].kind = "I" /\ ops[k].obj = ops[m].obj => k = m

FreshTxns(txns) ==
    /\ \A i \in DOMAIN txns : Fresh(txns[i].ops, {})
    /\ \A i, j \in DOMAIN txns : i # j => Inserts(txns[i].ops) \cap Inserts(txns[j].ops) = {}

\* A row more is a round more.
LEMMA OneRowMore ==
    ASSUME NEW rows \in Seq(Row), NEW row \in Row
    PROVE  Append(rows, row) \in Seq(Row) /\ ReadRows(Append(rows, row)) = OnRow(ReadRows(rows), row)
  <1>1. Append(rows, row) \in Seq(Row)
    OBVIOUS
  <1>2. FoldLeft(OnRow, LoopStart, Append(rows, row)) = OnRow(FoldLeft(OnRow, LoopStart, rows), row)
    BY RowAppends
  <1> QED
    BY <1>1, <1>2 DEF ReadRows

LEMMA InsertsOfMore ==
    ASSUME NEW ops \in Seq(Op), NEW op \in Op
    PROVE  /\ Inserts(Append(ops, op)) = IF op.kind = "I" THEN Inserts(ops) \cup {op.obj} ELSE Inserts(ops)
           /\ \A objs : Fresh(Append(ops, op), objs)
                 => Fresh(ops, objs) /\ (op.kind = "I" => op.obj \notin objs \cup Inserts(ops))
  <1> DEFINE n    == Len(ops)
             more == Append(ops, op)
  <1>1. /\ n \in Nat /\ DOMAIN ops = 1..n /\ DOMAIN more = 1..(n + 1)
        /\ more[n + 1] = op /\ \A k \in 1..n : more[k] = ops[k]
    OBVIOUS
  <1> HIDE DEF n, more
  <1>2. Range(more) = Range(ops) \cup {op}
    <2>1. \A k : k \in 1..(n + 1) <=> k \in 1..n \/ k = n + 1
      BY <1>1
    <2> QED
      BY <1>1, <2>1 DEF Range
  <1>3. Inserts(more) = IF op.kind = "I" THEN Inserts(ops) \cup {op.obj} ELSE Inserts(ops)
    BY <1>2 DEF Inserts
  <1>4. ASSUME NEW objs, Fresh(more, objs)
        PROVE  Fresh(ops, objs) /\ (op.kind = "I" => op.obj \notin objs \cup Inserts(ops))
    <2>1. \A k \in 1..n : k \in 1..(n + 1) /\ k # n + 1
      BY <1>1
    <2>2. n + 1 \in 1..(n + 1)
      BY <1>1
    <2>3. Inserts(ops) \cap objs = {}
      BY <1>3, <1>4 DEF Fresh
    <2>4. \A k, m \in DOMAIN ops :
             ops[k].kind = "I" /\ ops[m].kind = "I" /\ ops[k].obj = ops[m].obj => k = m
      BY <1>1, <1>4, <2>1 DEF Fresh
    <2>5. ASSUME op.kind = "I" PROVE op.obj \notin objs /\ op.obj \notin Inserts(ops)
      <3>1. op.obj \in Inserts(more)
        BY <1>3, <2>5
      <3>2. op.obj \notin objs
        BY <1>4, <3>1 DEF Fresh
      <3>3. ASSUME op.obj \in Inserts(ops) PROVE FALSE
        <4>1. PICK o \in Range(ops) : o.kind = "I" /\ o.obj = op.obj
          BY <3>3 DEF Inserts
        <4>2. PICK k \in DOMAIN ops : ops[k] = o
          BY <4>1 DEF Range
        <4>3. more[k].kind = "I" /\ more[n + 1].kind = "I" /\ more[k].obj = more[n + 1].obj
          BY <1>1, <2>5, <4>1, <4>2
        <4> QED
          BY <1>1, <1>4, <2>1, <2>2, <4>3 DEF Fresh
      <3> QED
        BY <3>2, <3>3
    <2> QED
      BY <2>3, <2>4, <2>5 DEF Fresh
  <1> QED
    BY <1>3, <1>4 DEF more

\* The rows of an operation: the description of its table, if that is due.
LEMMA FollowsSendOp ==
    ASSUME NEW s \in SendState, NEW op \in Op, s.layout[op.obj.type] # <<>>,
           NEW objs, Follows(s.sent, ReadRows(s.rows), objs), op.kind = "I" => op.obj \notin objs
    PROVE  LET q == SendOp(s, op)
           IN  /\ q \in SendState /\ q.lsn = s.lsn /\ q.layout = s.layout
               /\ Follows(q.sent, ReadRows(q.rows), IF op.kind = "I" THEN objs \cup {op.obj} ELSE objs)
  <1> DEFINE t    == op.obj.type
             cols == s.layout[t]
             row  == [op |-> op.kind, rel |-> t, tuple |-> Tuple(op.obj, cols)]
             meta == [op |-> "R", rel |-> t, cols |-> cols]
             sent == [s.sent EXCEPT ![t] = cols]
             q    == SendOp(s, op)
             more == IF op.kind = "I" THEN objs \cup {op.obj} ELSE objs
  <1>1. /\ t \in Type /\ op.kind \in {"I", "U"} /\ op.obj \in ObjectVersion
        /\ s.layout \in [Type -> Seq(Column)] /\ s.sent \in [Type -> Seq(Column)]
        /\ s.rows \in Seq(Row) /\ cols \in Seq(Column)
    BY DEF SendState, Op, ObjectVersion
  <1>2. row \in Row
    <2>1. Tuple(op.obj, cols) \in Seq(Nat)
      BY <1>1, TupleTypes
    <2> QED
      BY <1>1, <2>1 DEF Row
  <1>3. meta \in Row
    BY <1>1 DEF Row
  <1>4. /\ sent \in [Type -> Seq(Column)] /\ sent[t] = cols
        /\ s.sent[t] = cols => sent = s.sent
    BY <1>1
  <1>5. ASSUME NEW rows \in Seq(Row), NEW u \in [Type -> Seq(Column)], u[t] = cols,
               Follows(u, ReadRows(rows), objs)
        PROVE  Append(rows, row) \in Seq(Row) /\ Follows(u, ReadRows(Append(rows, row)), more)
    <2>1. Follows(u, OnRow(ReadRows(rows), row), more)
      BY <1>1, <1>5, FollowsOp
    <2> HIDE DEF row, more
    <2> QED
      BY <1>2, <2>1, OneRowMore
  <1>6. CASE s.sent[t] = cols
    <2>1. q = [s EXCEPT !.rows = Append(@, row)]
      BY <1>6 DEF SendOp
    <2>2. Append(s.rows, row) \in Seq(Row) /\ Follows(s.sent, ReadRows(Append(s.rows, row)), more)
      BY <1>1, <1>5, <1>6
    <2> HIDE DEF row, more, q
    <2>3. /\ q \in SendState /\ q.lsn = s.lsn /\ q.layout = s.layout
          /\ q.sent = s.sent /\ q.rows = Append(s.rows, row)
      BY <2>1, <2>2 DEF SendState
    <2> QED
      BY <2>2, <2>3 DEF q, more
  <1>7. CASE s.sent[t] # cols
    <2>1. q = [s EXCEPT !.rows = @ \o <<meta, row>>, !.sent[t] = cols]
      BY <1>7 DEF SendOp
    <2>2. Follows(sent, OnRow(ReadRows(s.rows), meta), objs)
      BY <1>1, FollowsRelation
    <2> HIDE DEF row, meta, q, more, sent
    <2>3. /\ Append(s.rows, meta) \in Seq(Row)
          /\ Follows(sent, ReadRows(Append(s.rows, meta)), objs)
      BY <1>1, <1>3, <2>2, OneRowMore
    <2>4. PICK rows : rows = Append(s.rows, meta)
      OBVIOUS
    <2>5. Append(rows, row) \in Seq(Row) /\ Follows(sent, ReadRows(Append(rows, row)), more)
      BY <1>4, <1>5, <2>3, <2>4
    <2>6. s.rows \o <<meta, row>> = Append(rows, row)
      BY <1>1, <1>2, <1>3, <2>4
    <2>7. /\ q \in SendState /\ q.lsn = s.lsn /\ q.layout = s.layout
          /\ q.sent = sent /\ q.rows = Append(rows, row)
      BY <1>1, <1>4, <2>1, <2>5, <2>6 DEF SendState, sent
    <2> QED
      BY <2>5, <2>7 DEF q, more
  <1> QED
    BY <1>6, <1>7

\* The rows of all operations of a transaction.
LEMMA FollowsOps ==
    ASSUME NEW s \in SendState, \A t \in Type : s.layout[t] # <<>>,
           NEW objs, Follows(s.sent, ReadRows(s.rows), objs),
           NEW ops \in Seq(Op), Fresh(ops, objs)
    PROVE  LET q == FoldLeft(SendOp, s, ops)
           IN  /\ q \in SendState /\ q.lsn = s.lsn
               /\ Follows(q.sent, ReadRows(q.rows), objs \cup Inserts(ops))
  <1> DEFINE q(l) == FoldLeft(SendOp, s, l)
             sends(l) == Fresh(l, objs) =>
                            /\ q(l) \in SendState /\ q(l).lsn = s.lsn /\ q(l).layout = s.layout
                            /\ Follows(q(l).sent, ReadRows(q(l).rows), objs \cup Inserts(l))
             S == {l \in Seq(Op) : sends(l)}
  <1>1. <<>> \in S
    <2>1. q(<<>>) = s
      BY FoldsOfNothing
    <2>2. objs \cup Inserts(<<>>) = objs
      BY DEF Inserts, Range
    <2> HIDE DEF q
    <2>3. sends(<<>>)
      BY <2>1, <2>2
    <2>4. <<>> \in Seq(Op)
      OBVIOUS
    <2> HIDE DEF sends
    <2> QED
      BY <2>3, <2>4
  <1>2. ASSUME NEW l \in Seq(Op), NEW op \in Op, l \in S PROVE Append(l, op) \in S
    <2>1. Append(l, op) \in Seq(Op)
      OBVIOUS
    <2>2. q(Append(l, op)) = SendOp(q(l), op)
      BY OpAppends
    <2>3. sends(l)
      <3> HIDE DEF sends
      <3> QED
        BY <1>2
    <2>4. ASSUME Fresh(Append(l, op), objs)
          PROVE  LET m == Append(l, op)
                 IN  /\ q(m) \in SendState /\ q(m).lsn = s.lsn /\ q(m).layout = s.layout
                     /\ Follows(q(m).sent, ReadRows(q(m).rows), objs \cup Inserts(m))
      <3> HIDE DEF q
      <3> DEFINE before == objs \cup Inserts(l)
      <3>1. Fresh(l, objs) /\ (op.kind = "I" => op.obj \notin before)
        BY <2>4, InsertsOfMore
      <3>2. /\ q(l) \in SendState /\ q(l).lsn = s.lsn /\ q(l).layout = s.layout
            /\ Follows(q(l).sent, ReadRows(q(l).rows), before)
        BY <2>3, <3>1
      <3>3. objs \cup Inserts(Append(l, op)) = IF op.kind = "I" THEN before \cup {op.obj} ELSE before
        BY InsertsOfMore
      <3>4. op.obj.type \in Type
        BY DEF Op, ObjectVersion
      <3> HIDE DEF before
      <3>5. PICK r : r = q(l)
        OBVIOUS
      <3>6. /\ SendOp(r, op) \in SendState /\ SendOp(r, op).lsn = r.lsn /\ SendOp(r, op).layout = r.layout
            /\ Follows(SendOp(r, op).sent, ReadRows(SendOp(r, op).rows),
                       IF op.kind = "I" THEN before \cup {op.obj} ELSE before)
        BY <3>1, <3>2, <3>4, <3>5, FollowsSendOp
      <3> QED
        BY <2>2, <3>2, <3>3, <3>5, <3>6, Zenon
    <2>5. sends(Append(l, op))
      <3> HIDE DEF q
      <3> QED
        BY <2>4
    <2> HIDE DEF sends
    <2> QED
      BY <2>1, <2>5
  <1>3. Seq(Op) \subseteq S
    <2> HIDE DEF S
    <2> QED
      BY <1>1, <1>2, SeqInduction
  <1>4. sends(ops)
    <2> HIDE DEF sends
    <2> QED
      BY <1>3
  <1> HIDE DEF q
  <1>5. /\ q(ops) \in SendState /\ q(ops).lsn = s.lsn
        /\ Follows(q(ops).sent, ReadRows(q(ops).rows), objs \cup Inserts(ops))
    BY <1>4
  <1> QED
    BY <1>5 DEF q

\* Between two transactions.
Between(s, objs) ==
    LET r == ReadRows(s.rows)
    IN  /\ s \in SendState
        /\ Follows(s.sent, r, objs)
        /\ r.error \/ ~r.open

LEMMA FollowsTxn ==
    ASSUME NEW s, NEW objs, Between(s, objs), NEW txn \in Transaction, Fresh(txn.ops, objs)
    PROVE  LET q == SendTxn(s, txn)
           IN  /\ Between(q, objs \cup Inserts(txn.ops)) /\ q.lsn = s.lsn + 1
               /\ ReadRows(q.rows).error \/ ReadRows(q.rows).lsn = q.lsn
  <1> DEFINE start == [op |-> "B"]
             begun == [s EXCEPT !.rows = Append(@, start), !.layout = txn.layout, !.lsn = @ + 1]
             done  == FoldLeft(SendOp, begun, txn.ops)
             end   == [op |-> "C", lsn |-> done.lsn]
             q     == SendTxn(s, txn)
             more  == objs \cup Inserts(txn.ops)
  <1>1. /\ s \in SendState /\ s.rows \in Seq(Row) /\ s.lsn \in Nat
        /\ Follows(s.sent, ReadRows(s.rows), objs)
        /\ ReadRows(s.rows).error \/ ~ReadRows(s.rows).open
    BY DEF Between, SendState
  <1>2. txn.ops \in Seq(Op) /\ txn.layout \in [Type -> Layout]
    BY DEF Transaction
  <1>3. txn.layout \in [Type -> Seq(Column)] /\ \A t \in Type : txn.layout[t] # <<>>
    BY <1>2 DEF Layout
  <1>4. start \in Row
    BY DEF Row
  <1>5. Follows(s.sent, OnRow(ReadRows(s.rows), start), objs)
    BY <1>1, FollowsBegin
  <1>6. Append(s.rows, start) \in Seq(Row) /\ Follows(s.sent, ReadRows(Append(s.rows, start)), objs)
    <2> HIDE DEF start
    <2> QED
      BY <1>1, <1>4, <1>5, OneRowMore
  <1>7. /\ begun \in SendState /\ begun.rows = Append(s.rows, start) /\ begun.sent = s.sent
        /\ begun.lsn = s.lsn + 1 /\ begun.layout = txn.layout
    <2> HIDE DEF start
    <2>1. PICK rows, lsn, layout : rows = Append(s.rows, start) /\ lsn = s.lsn + 1 /\ layout = txn.layout
      OBVIOUS
    <2>2. rows \in Seq(Row) /\ lsn \in Nat /\ layout \in [Type -> Seq(Column)]
      BY <1>1, <1>3, <1>6, <2>1
    <2>3. begun = [[[s EXCEPT !.rows = rows] EXCEPT !.layout = layout] EXCEPT !.lsn = lsn]
      BY <2>1
    <2> HIDE DEF begun
    <2> QED
      BY <1>1, <2>1, <2>2, <2>3 DEF SendState
  <1>8. q = [done EXCEPT !.rows = Append(@, end)]
    BY DEF SendTxn
  <1> HIDE DEF begun
  <1>9. done \in SendState /\ done.lsn = begun.lsn /\ Follows(done.sent, ReadRows(done.rows), more)
    BY <1>2, <1>3, <1>6, <1>7, FollowsOps
  <1> HIDE DEF done, q, more
  <1>10. done.lsn \in Nat /\ done.rows \in Seq(Row) /\ done.lsn = s.lsn + 1
    BY <1>7, <1>9 DEF SendState
  <1>11. end \in Row
    BY <1>10 DEF Row
  <1>12. LET c == OnRow(ReadRows(done.rows), end)
         IN  Follows(done.sent, c, more) /\ (c.error \/ (~c.open /\ c.lsn = done.lsn))
    BY <1>9, <1>10, FollowsCommit
  <1> HIDE DEF end
  <1>13. /\ Append(done.rows, end) \in Seq(Row)
         /\ ReadRows(Append(done.rows, end)) = OnRow(ReadRows(done.rows), end)
    BY <1>10, <1>11, OneRowMore
  <1>14. /\ q \in SendState /\ q.rows = Append(done.rows, end) /\ q.sent = done.sent /\ q.lsn = done.lsn
    BY <1>8, <1>9, <1>13 DEF SendState
  <1>15. Between(q, more)
    BY <1>12, <1>13, <1>14 DEF Between
  <1>16. ReadRows(q.rows).error \/ ReadRows(q.rows).lsn = q.lsn
    BY <1>12, <1>13, <1>14
  <1> QED
    BY <1>10, <1>14, <1>15, <1>16 DEF q, more

LEMMA ObjectsOfMore ==
    ASSUME NEW txns \in Seq(Transaction), NEW txn \in Transaction
    PROVE  /\ NewObjects(Append(txns, txn)) = NewObjects(txns) \cup Inserts(txn.ops)
           /\ FreshTxns(Append(txns, txn)) => FreshTxns(txns) /\ Fresh(txn.ops, NewObjects(txns))
  <1> DEFINE n    == Len(txns)
             more == Append(txns, txn)
  <1>1. /\ n \in Nat /\ DOMAIN txns = 1..n /\ DOMAIN more = 1..(n + 1)
        /\ more[n + 1] = txn /\ \A k \in 1..n : more[k] = txns[k]
    OBVIOUS
  <1>2. \A k : k \in 1..(n + 1) <=> k \in 1..n \/ k = n + 1
    BY <1>1
  <1>3. n + 1 \notin 1..n
    BY <1>1
  <1> HIDE DEF n, more
  <1>4. NewObjects(more) = NewObjects(txns) \cup Inserts(txn.ops)
    BY <1>1, <1>2 DEF NewObjects
  <1>5. ASSUME FreshTxns(more) PROVE FreshTxns(txns) /\ Fresh(txn.ops, NewObjects(txns))
    <2>1. FreshTxns(txns)
      BY <1>1, <1>2, <1>5 DEF FreshTxns
    <2>2. Fresh(txn.ops, {})
      BY <1>1, <1>2, <1>5 DEF FreshTxns
    <2>3. \A k \in 1..n : Inserts(txns[k].ops) \cap Inserts(txn.ops) = {}
      BY <1>1, <1>2, <1>3, <1>5 DEF FreshTxns
    <2>4. Inserts(txn.ops) \cap NewObjects(txns) = {}
      BY <1>1, <2>3 DEF NewObjects
    <2> QED
      BY <2>1, <2>2, <2>4 DEF Fresh
  <1> QED
    BY <1>4, <1>5 DEF more

\* What get-log makes of the transactions txns after LSN lo: the objects that
\* they insert, each in one line N, and the LSN of the last of them.  That is
\* so whatever the columns of the tables are, or an exception has been thrown.
LEMMA GetLogReads ==
    ASSUME NEW txns \in Seq(Transaction), txns # <<>>, FreshTxns(txns), NEW lo \in Nat,
           ~ReadRows(SlotRows(txns, lo)).error
    PROVE  LET read == ReadRows(SlotRows(txns, lo))
           IN  /\ read \in ReadState
               /\ read.lsn = lo + Len(txns)
               /\ Ends(read.data, FALSE)
               /\ ObjectsIn(read.data) = NewObjects(txns)
               /\ OnceIn(read.data)
               /\ read.actual <=> NewObjects(txns) # {}
  <1> DEFINE nothing == [t \in Type |-> <<>>]
             start   == [rows |-> <<>>, lsn |-> lo, layout |-> nothing, sent |-> nothing]
             q(l)    == FoldLeft(SendTxn, start, l)
             r(l)    == ReadRows(q(l).rows)
             sends(l) == FreshTxns(l) =>
                            /\ Between(q(l), NewObjects(l))
                            /\ q(l).lsn = lo + Len(l)
                            /\ l # <<>> => r(l).error \/ r(l).lsn = q(l).lsn
             S == {l \in Seq(Transaction) : sends(l)}
  <1>1. <<>> \in S
    <2>1. q(<<>>) = start
      BY FoldsOfNothing
    <2>2. NewObjects(<<>>) = {} /\ Len(<<>>) = 0 /\ <<>> \in Seq(Transaction)
      BY DEF NewObjects
    <2>3. ReadRows(<<>>) = LoopStart
      BY FoldsOfNothing DEF ReadRows
    <2>4. start \in SendState
      <3>1. nothing \in [Type -> Seq(Column)] /\ <<>> \in Seq(Row)
        OBVIOUS
      <3> HIDE DEF nothing
      <3> QED
        BY <3>1 DEF SendState
    <2>5. Reads(nothing, LoopStart, {})
      <3>1. <<>> \in Seq(Line) /\ NoColumns \in Columns
        BY DEF NoColumns, Columns
      <3>2. LoopStart \in ReadState
        BY <3>1 DEF LoopStart, ReadState
      <3>3. NewsIn(<<>>) = {} /\ ObjectsIn(<<>>) = {} /\ Ends(<<>>, FALSE)
        BY DEF NewsIn, ObjectsIn, Ends
      <3>4. LoopStart.data = <<>> /\ LoopStart.open = FALSE /\ LoopStart.actual = FALSE
        BY DEF LoopStart
      <3> QED
        BY <3>2, <3>3, <3>4 DEF Reads, OnceIn
    <2>6. Between(start, {})
      <3>1. start.rows = <<>> /\ start.sent = nothing
        OBVIOUS
      <3> HIDE DEF start, nothing
      <3>2. ~LoopStart.open
        BY DEF LoopStart
      <3> QED
        BY <2>3, <2>4, <2>5, <3>1, <3>2 DEF Between, Follows
    <2>7. start.lsn = lo
      OBVIOUS
    <2> HIDE DEF q, start
    <2>8. lo = lo + Len(<<>>)
      BY <2>2
    <2>9. sends(<<>>)
      BY <2>1, <2>2, <2>6, <2>7, <2>8, Zenon
    <2> HIDE DEF sends
    <2> QED
      BY <2>2, <2>9
  <1>2. ASSUME NEW l \in Seq(Transaction), NEW txn \in Transaction, l \in S PROVE Append(l, txn) \in S
    <2>1. Append(l, txn) \in Seq(Transaction) /\ Len(Append(l, txn)) = Len(l) + 1 /\ Len(l) \in Nat
      OBVIOUS
    <2> HIDE DEF start
    <2>2. q(Append(l, txn)) = SendTxn(q(l), txn)
      BY TxnAppends
    <2>3. sends(l)
      <3> HIDE DEF sends
      <3> QED
        BY <1>2
    <2> HIDE DEF q
    <2>4. ASSUME FreshTxns(Append(l, txn))
          PROVE  LET m == Append(l, txn)
                 IN  /\ Between(q(m), NewObjects(m))
                     /\ q(m).lsn = lo + Len(m)
                     /\ r(m).error \/ r(m).lsn = q(m).lsn
      <3>1. FreshTxns(l) /\ Fresh(txn.ops, NewObjects(l))
        BY <2>4, ObjectsOfMore
      <3>2. Between(q(l), NewObjects(l)) /\ q(l).lsn = lo + Len(l)
        BY <2>3, <3>1
      <3>3. /\ Between(SendTxn(q(l), txn), NewObjects(l) \cup Inserts(txn.ops))
            /\ SendTxn(q(l), txn).lsn = q(l).lsn + 1
            /\ \/ ReadRows(SendTxn(q(l), txn).rows).error
               \/ ReadRows(SendTxn(q(l), txn).rows).lsn = SendTxn(q(l), txn).lsn
        BY <3>1, <3>2, FollowsTxn
      <3>4. NewObjects(Append(l, txn)) = NewObjects(l) \cup Inserts(txn.ops)
        BY ObjectsOfMore
      <3>5. lo + (Len(l) + 1) = (lo + Len(l)) + 1
        BY <2>1
      <3> QED
        BY <2>1, <2>2, <3>2, <3>3, <3>4, <3>5, Zenon
    <2>5. sends(Append(l, txn))
      BY <2>4
    <2> HIDE DEF sends
    <2> QED
      BY <2>1, <2>5
  <1>3. Seq(Transaction) \subseteq S
    <2> HIDE DEF S
    <2> QED
      BY <1>1, <1>2, SeqInduction
  <1>4. sends(txns)
    <2> HIDE DEF sends
    <2> QED
      BY <1>3
  <1>5. SlotRows(txns, lo) = q(txns).rows
    BY DEF SlotRows
  <1> HIDE DEF q
  <1>6. ~r(txns).error /\ r(txns) = ReadRows(SlotRows(txns, lo))
    BY <1>5
  <1>7. /\ Between(q(txns), NewObjects(txns)) /\ q(txns).lsn = lo + Len(txns)
        /\ r(txns).lsn = q(txns).lsn
    BY <1>4, <1>6
  <1>8. Reads(q(txns).sent, r(txns), NewObjects(txns)) /\ ~r(txns).open
    BY <1>6, <1>7 DEF Between, Follows
  <1>9. r(txns) \in ReadState
    BY <1>8 DEF Reads
  <1>10. r(txns).open = FALSE
    BY <1>8, <1>9 DEF ReadState
  <1> HIDE DEF r
  <1> QED
    BY <1>6, <1>7, <1>8, <1>9, <1>10 DEF Reads

-----------------------------------------------------------------------------
(***************************************************************************)
(* std::sort of the entries of fake-log.                                   *)
(***************************************************************************)

Entry == [obj : ObjectVersion, stamp : Nat \ {0}]

\* No two of them have the same key.
Distinct(rows) == \A a, b \in rows : Key(a.obj) = Key(b.obj) => a = b

\* The order, without the tuples.
LEMMA BeforeIs ==
    ASSUME NEW a, NEW b
    PROVE  Before(a, b) <=>
              \/ a.stamp < b.stamp
              \/ /\ a.stamp = b.stamp
                 /\ \/ Rank(a.obj.type) < Rank(b.obj.type)
                    \/ /\ Rank(a.obj.type) = Rank(b.obj.type)
                       /\ \/ a.obj.id < b.obj.id
                          \/ a.obj.id = b.obj.id /\ a.obj.version < b.obj.version
  <1> DEFINE ka == <<a.stamp, Rank(a.obj.type), a.obj.id, a.obj.version>>
             kb == <<b.stamp, Rank(b.obj.type), b.obj.id, b.obj.version>>
  <1>1. Before(a, b) <=> \E i \in 1..4 : ka[i] < kb[i] /\ \A j \in 1..(i - 1) : ka[j] = kb[j]
    BY DEF Before
  <1>2. /\ ka[1] = a.stamp /\ ka[2] = Rank(a.obj.type) /\ ka[3] = a.obj.id /\ ka[4] = a.obj.version
        /\ kb[1] = b.stamp /\ kb[2] = Rank(b.obj.type) /\ kb[3] = b.obj.id /\ kb[4] = b.obj.version
    OBVIOUS
  <1> HIDE DEF ka, kb
  <1>3. /\ 1..4 = {1, 2, 3, 4}
        /\ 1..(1 - 1) = {} /\ 1..(2 - 1) = {1} /\ 1..(3 - 1) = {1, 2} /\ 1..(4 - 1) = {1, 2, 3}
    OBVIOUS
  <1>4. Before(a, b) <=> \/ ka[1] < kb[1] /\ \A j \in {} : ka[j] = kb[j]
                         \/ ka[2] < kb[2] /\ \A j \in {1} : ka[j] = kb[j]
                         \/ ka[3] < kb[3] /\ \A j \in {1, 2} : ka[j] = kb[j]
                         \/ ka[4] < kb[4] /\ \A j \in {1, 2, 3} : ka[j] = kb[j]
    BY <1>1, <1>3
  <1> QED
    BY <1>2, <1>4

\* It is a strict order, and total where the keys are distinct.
LEMMA BeforeOrders ==
    ASSUME NEW a \in Entry, NEW b \in Entry, NEW c \in Entry
    PROVE  /\ ~Before(a, a)
           /\ Before(a, b) /\ Before(b, c) => Before(a, c)
           /\ Before(a, b) \/ Before(b, a) \/ Key(a.obj) = Key(b.obj)
  <1>1. \A x \in Entry : /\ x.stamp \in Nat /\ x.obj.type \in Type
                         /\ x.obj.id \in Nat /\ x.obj.version \in Nat
    BY DEF Entry, ObjectVersion
  <1>2. /\ \A t \in Type : Rank(t) \in Nat
        /\ \A t, u \in Type : Rank(t) = Rank(u) => t = u
    <2>1. Rank("n") = 1 /\ Rank("w") = 2 /\ Rank("r") = 3
      BY DEF Rank
    <2> QED
      BY <2>1 DEF Type
  <1>3. ~Before(a, a)
    BY <1>1, <1>2, BeforeIs
  <1>4. Before(a, b) /\ Before(b, c) => Before(a, c)
    BY <1>1, <1>2, BeforeIs
  <1>5. ASSUME ~Before(a, b), ~Before(b, a) PROVE Key(a.obj) = Key(b.obj)
    <2>1. /\ Rank(a.obj.type) = Rank(b.obj.type) /\ a.obj.id = b.obj.id
          /\ a.obj.version = b.obj.version
      BY <1>1, <1>2, <1>5, BeforeIs
    <2> QED
      BY <1>1, <1>2, <2>1 DEF Key
  <1> QED
    BY <1>3, <1>4, <1>5

\* The entries can be sorted: each has the place after those before it.
LEMMA SortedExists ==
    ASSUME NEW rows \in SUBSET Entry, IsFiniteSet(rows), Distinct(rows)
    PROVE  \E sorted \in [1..Cardinality(rows) -> rows] :
              \A i, j \in 1..Cardinality(rows) : i < j => Before(sorted[i], sorted[j])
  <1> DEFINE n        == Cardinality(rows)
             below(x) == {y \in rows : Before(y, x)}
             rank     == [x \in rows |-> Cardinality(below(x)) + 1]
  <1>1. n \in Nat
    BY FS_CardinalityType
  <1>2. \A a, b \in rows : a # b => Before(a, b) \/ Before(b, a)
    BY BeforeOrders DEF Distinct
  <1>3. ASSUME NEW x \in rows
        PROVE  /\ IsFiniteSet(below(x)) /\ Cardinality(below(x)) \in Nat
               /\ Cardinality(below(x)) < n
    <2>1. below(x) \in SUBSET rows /\ x \notin below(x)
      BY BeforeOrders
    <2> HIDE DEF below
    <2>2. IsFiniteSet(below(x)) /\ Cardinality(below(x)) <= n /\ Cardinality(below(x)) # n
      BY <2>1, FS_Subset
    <2>3. Cardinality(below(x)) \in Nat
      BY <2>2, FS_CardinalityType
    <2> QED
      BY <1>1, <2>2, <2>3
  <1>4. rank \in [rows -> 1..n]
    <2>1. \A x \in rows : Cardinality(below(x)) + 1 \in 1..n
      <3> HIDE DEF below
      <3> QED
        BY <1>1, <1>3
    <2> HIDE DEF below
    <2> QED
      BY <2>1
  <1>5. ASSUME NEW a \in rows, NEW b \in rows, Before(a, b) PROVE rank[a] < rank[b]
    <2>1. below(a) \in SUBSET below(b) /\ a \in below(b) /\ a \notin below(a)
      BY <1>5, BeforeOrders
    <2>2. rank[a] = Cardinality(below(a)) + 1 /\ rank[b] = Cardinality(below(b)) + 1
      OBVIOUS
    <2> HIDE DEF below, rank
    <2>3. Cardinality(below(a)) <= Cardinality(below(b)) /\ Cardinality(below(a)) # Cardinality(below(b))
      BY <1>3, <2>1, FS_Subset
    <2> QED
      BY <1>3, <2>2, <2>3
  <1> HIDE DEF rank
  <1>6. rank \in Injection(rows, 1..n)
    <2>1. \A a, b \in rows : rank[a] = rank[b] => a = b
      BY <1>1, <1>2, <1>4, <1>5
    <2> QED
      BY <1>4, <2>1 DEF Injection, IsInjective
  <1>7. rank \in Surjection(rows, 1..n)
    <2>1. IsFiniteSet(1..n) /\ Cardinality(1..n) = n
      BY <1>1, FS_Interval
    <2> QED
      BY <1>6, <2>1, FS_Injection
  <1>8. \A i \in 1..n : \E x \in rows : rank[x] = i
    BY <1>7 DEF Surjection
  <1> DEFINE sorted == [i \in 1..n |-> CHOOSE x \in rows : rank[x] = i]
  <1>9. \A i \in 1..n : sorted[i] \in rows /\ rank[sorted[i]] = i
    BY <1>8
  <1>10. sorted \in [1..n -> rows]
    BY <1>9
  <1> HIDE DEF sorted, n
  <1>11. ASSUME NEW i \in 1..n, NEW j \in 1..n, i < j PROVE Before(sorted[i], sorted[j])
    <2>1. i \in Nat /\ j \in Nat /\ ~(j < i) /\ i # j
      BY <1>1, <1>11
    <2>2. ~Before(sorted[j], sorted[i])
      BY <1>5, <1>9, <2>1
    <2>3. sorted[i] # sorted[j]
      BY <1>9, <2>1
    <2> QED
      BY <1>2, <1>9, <2>2, <2>3
  <1> QED
    BY <1>10, <1>11 DEF n

\* All of them, each in one place.
LEMMA EntriesSorts ==
    ASSUME NEW rows \in SUBSET Entry, IsFiniteSet(rows), Distinct(rows)
    PROVE  /\ Entries(rows) \in Seq(Entry)
           /\ Range(Entries(rows)) = rows
           /\ \A i, j \in DOMAIN Entries(rows) :
                 Entries(rows)[i].obj = Entries(rows)[j].obj => i = j
  <1> DEFINE n == Cardinality(rows)
             sorts(s) == \A i, j \in 1..n : i < j => Before(s[i], s[j])
             e == Entries(rows)
  <1>1. n \in Nat
    BY FS_CardinalityType
  <1>2. e \in [1..n -> rows] /\ sorts(e)
    <2>1. \E s \in [1..n -> rows] : sorts(s)
      BY SortedExists
    <2>2. e = CHOOSE s \in [1..n -> rows] : sorts(s)
      BY DEF Entries
    <2> HIDE DEF sorts, n, e
    <2> QED
      BY <2>1, <2>2
  <1> HIDE DEF e, n
  <1>3. \A i, j \in 1..n : e[i] = e[j] => i = j
    <2> SUFFICES ASSUME NEW i \in 1..n, NEW j \in 1..n, i < j PROVE e[i] # e[j]
      BY <1>1
    <2>1. Before(e[i], e[j]) /\ e[i] \in Entry
      BY <1>2
    <2> QED
      BY <2>1, BeforeOrders
  <1>4. e \in Injection(1..n, rows)
    BY <1>2, <1>3 DEF Injection, IsInjective
  <1>5. e \in Surjection(1..n, rows)
    <2>1. Cardinality(1..n) = n
      BY <1>1, FS_Interval
    <2> QED
      BY <1>4, <2>1, FS_Injection DEF n
  <1>6. Range(e) = rows
    BY <1>2, <1>5 DEF Surjection, Range
  <1>7. e \in Seq(Entry)
    BY <1>1, <1>2
  <1>8. \A i, j \in DOMAIN e : e[i].obj = e[j].obj => i = j
    BY <1>2, <1>3 DEF Distinct
  <1> QED
    BY <1>6, <1>7, <1>8 DEF e

-----------------------------------------------------------------------------
(***************************************************************************)
(* The files of fake-log.                                                  *)
(***************************************************************************)

\* A file has lines, all of them N.
NewsFile(lines) == lines # <<>> /\ NewsIn(lines) = DOMAIN lines

FilesObjects(files) == UNION {ObjectsIn(files[i]) : i \in DOMAIN files}

\* No object is twice in the files.
AllOnce(files) ==
    /\ \A i \in DOMAIN files : OnceIn(files[i])
    /\ \A i, j \in DOMAIN files : i # j => ObjectsIn(files[i]) \cap ObjectsIn(files[j]) = {}

\* The loop has read entries with the objects objs.
Gathers(s, objs) ==
    /\ s \in [files : Seq(Seq(Line)), last : Nat, data : Seq(Line)]
    /\ s.last = 0 => s.files = <<>> /\ s.data = <<>>
    /\ s.last # 0 => NewsFile(s.data)
    /\ \A i \in DOMAIN s.files : NewsFile(s.files[i])
    /\ AllOnce(s.files)
    /\ OnceIn(s.data)
    /\ FilesObjects(s.files) \cap ObjectsIn(s.data) = {}
    /\ objs = FilesObjects(s.files) \cup ObjectsIn(s.data)

LEMMA FilesOfMore ==
    ASSUME NEW files \in Seq(Seq(Line)), NEW data \in Seq(Line), NewsFile(data),
           \A i \in DOMAIN files : NewsFile(files[i]),
           AllOnce(files), OnceIn(data), FilesObjects(files) \cap ObjectsIn(data) = {}
    PROVE  /\ Append(files, data) \in Seq(Seq(Line))
           /\ \A i \in DOMAIN Append(files, data) : NewsFile(Append(files, data)[i])
           /\ AllOnce(Append(files, data))
           /\ FilesObjects(Append(files, data)) = FilesObjects(files) \cup ObjectsIn(data)
  <1> DEFINE n    == Len(files)
             more == Append(files, data)
  <1>1. /\ n \in Nat /\ DOMAIN files = 1..n /\ DOMAIN more = 1..(n + 1)
        /\ more[n + 1] = data /\ \A k \in 1..n : more[k] = files[k]
        /\ more \in Seq(Seq(Line))
    OBVIOUS
  <1>2. \A k : k \in 1..(n + 1) <=> k \in 1..n \/ k = n + 1
    BY <1>1
  <1> HIDE DEF n, more
  <1>3. \A i \in DOMAIN more : NewsFile(more[i]) /\ OnceIn(more[i])
    BY <1>1, <1>2 DEF AllOnce
  <1>4. FilesObjects(more) = FilesObjects(files) \cup ObjectsIn(data)
    BY <1>1, <1>2 DEF FilesObjects
  <1>5. \A k \in 1..n : ObjectsIn(files[k]) \cap ObjectsIn(data) = {}
    BY <1>1 DEF FilesObjects
  <1>6. ASSUME NEW i \in DOMAIN more, NEW j \in DOMAIN more, i # j
        PROVE  ObjectsIn(more[i]) \cap ObjectsIn(more[j]) = {}
    <2>1. CASE i \in 1..n /\ j \in 1..n
      <3>1. more[i] = files[i] /\ more[j] = files[j]
        BY <1>1, <2>1
      <3> QED
        BY <1>1, <1>6, <2>1, <3>1 DEF AllOnce
    <2>2. CASE i = n + 1 /\ j \in 1..n
      BY <1>1, <1>5, <2>2
    <2>3. CASE i \in 1..n /\ j = n + 1
      BY <1>1, <1>5, <2>3
    <2> QED
      BY <1>1, <1>2, <1>6, <2>1, <2>2, <2>3
  <1> QED
    BY <1>1, <1>3, <1>4, <1>6 DEF AllOnce, more

\* A file that begins.
LEMMA FirstLine ==
    ASSUME NEW line \in Line, line.action = "N"
    PROVE  <<line>> \in Seq(Line) /\ NewsFile(<<line>>) /\ OnceIn(<<line>>) /\ ObjectsIn(<<line>>) = {line.obj}
  <1>1. <<line>> \in Seq(Line) /\ <<line>> # <<>> /\ DOMAIN <<line>> = {1} /\ <<line>>[1] = line
    OBVIOUS
  <1>2. PICK l : l = <<line>>
    OBVIOUS
  <1>3. l \in Seq(Line) /\ l # <<>> /\ DOMAIN l = {1} /\ l[1] = line
    BY <1>1, <1>2
  <1>4. NewsIn(l) = {1}
    BY <1>3 DEF NewsIn
  <1>5. ObjectsIn(l) = {line.obj} /\ OnceIn(l) /\ NewsFile(l)
    BY <1>3, <1>4 DEF ObjectsIn, OnceIn, NewsFile
  <1> QED
    BY <1>2, <1>3, <1>5

\* ... and one that goes on.
LEMMA NextLine ==
    ASSUME NEW lines \in Seq(Line), NewsFile(lines), OnceIn(lines), NEW line \in Line, line.action = "N",
           line.obj \notin ObjectsIn(lines)
    PROVE  /\ Append(lines, line) \in Seq(Line) /\ NewsFile(Append(lines, line)) /\ OnceIn(Append(lines, line))
           /\ ObjectsIn(Append(lines, line)) = ObjectsIn(lines) \cup {line.obj}
  <1>1. NewsIn(Append(lines, line)) = NewsIn(lines) \cup {Len(lines) + 1}
    BY NewsOfMore
  <1>2. /\ DOMAIN Append(lines, line) = DOMAIN lines \cup {Len(lines) + 1}
        /\ Append(lines, line) \in Seq(Line)
    OBVIOUS
  <1>3. Append(lines, line) # <<>>
    OBVIOUS
  <1>4. NewsFile(Append(lines, line))
    BY <1>1, <1>2, <1>3 DEF NewsFile
  <1> QED
    BY <1>2, <1>4, NewsOfMore

LEMMA GathersEntry ==
    ASSUME NEW s, NEW objs, Gathers(s, objs), NEW entry \in Entry, entry.obj \notin objs
    PROVE  Gathers(OnEntry(s, entry), objs \cup {entry.obj}) /\ OnEntry(s, entry).last # 0
  <1> DEFINE line == [action |-> "N", obj |-> entry.obj]
             q    == OnEntry(s, entry)
  <1>1. line \in Line /\ line.action = "N" /\ line.obj = entry.obj /\ entry.stamp \in Nat \ {0}
    BY DEF Line, Entry
  <1>2. s.files \in Seq(Seq(Line)) /\ s.data \in Seq(Line) /\ s.last \in Nat
    BY DEF Gathers
  <1>3. entry.obj \notin FilesObjects(s.files) /\ entry.obj \notin ObjectsIn(s.data)
    BY DEF Gathers
  <1>4. CASE s.last = entry.stamp
    <2>1. q = [s EXCEPT !.data = Append(@, line)]
      BY <1>4 DEF OnEntry
    <2>2. NewsFile(s.data) /\ OnceIn(s.data)
      BY <1>1, <1>4 DEF Gathers
    <2> HIDE DEF line, q
    <2>3. PICK data : data = Append(s.data, line)
      OBVIOUS
    <2>4. data \in Seq(Line) /\ NewsFile(data) /\ OnceIn(data) /\ ObjectsIn(data) = ObjectsIn(s.data) \cup {entry.obj}
      BY <1>1, <1>2, <1>3, <2>2, <2>3, NextLine
    <2>5. q.files = s.files /\ q.last = s.last /\ q.data = data
          /\ q \in [files : Seq(Seq(Line)), last : Nat, data : Seq(Line)]
      BY <2>1, <2>3, <2>4 DEF Gathers
    <2>6. q.last # 0
      BY <1>1, <1>4, <2>5
    <2>7. FilesObjects(q.files) \cap ObjectsIn(q.data) = {}
          /\ objs \cup {entry.obj} = FilesObjects(q.files) \cup ObjectsIn(q.data)
      BY <1>3, <2>4, <2>5 DEF Gathers
    <2>8. Gathers(q, objs \cup {entry.obj})
      BY <2>4, <2>5, <2>6, <2>7 DEF Gathers
    <2> QED
      BY <2>6, <2>8 DEF q
  <1>5. CASE s.last # entry.stamp
    <2> DEFINE data  == <<line>>
               files == IF s.last = 0 THEN s.files ELSE Append(s.files, s.data)
    <2>1. q = [files |-> files, last |-> entry.stamp, data |-> data]
      BY <1>5 DEF OnEntry
    <2>2. data \in Seq(Line) /\ NewsFile(data) /\ OnceIn(data) /\ ObjectsIn(data) = {entry.obj}
      <3> HIDE DEF line
      <3> QED
        BY <1>1, FirstLine
    <2> HIDE DEF line, q, data
    <2>3. /\ files \in Seq(Seq(Line))
          /\ \A i \in DOMAIN files : NewsFile(files[i])
          /\ AllOnce(files)
          /\ FilesObjects(files) = FilesObjects(s.files) \cup ObjectsIn(s.data)
      <3>1. CASE s.last = 0
        <4>1. s.data = <<>> /\ files = s.files
          BY <3>1 DEF Gathers
        <4>2. ObjectsIn(s.data) = {}
          BY <4>1 DEF ObjectsIn, NewsIn
        <4> QED
          BY <4>1, <4>2 DEF Gathers
      <3>2. CASE s.last # 0
        <4>1. /\ NewsFile(s.data) /\ OnceIn(s.data) /\ FilesObjects(s.files) \cap ObjectsIn(s.data) = {}
              /\ AllOnce(s.files) /\ \A i \in DOMAIN s.files : NewsFile(s.files[i])
          BY <3>2 DEF Gathers
        <4> QED
          BY <1>2, <3>2, <4>1, FilesOfMore
      <3> QED
        BY <3>1, <3>2
    <2> HIDE DEF files
    <2>4. q.files = files /\ q.last = entry.stamp /\ q.data = data
          /\ q \in [files : Seq(Seq(Line)), last : Nat, data : Seq(Line)]
      BY <1>1, <2>1, <2>2, <2>3
    <2>5. q.last # 0
      BY <1>1, <2>4
    <2>6. FilesObjects(q.files) \cap ObjectsIn(q.data) = {}
          /\ objs \cup {entry.obj} = FilesObjects(q.files) \cup ObjectsIn(q.data)
      BY <1>3, <2>2, <2>3, <2>4 DEF Gathers
    <2>7. Gathers(q, objs \cup {entry.obj})
      BY <2>2, <2>3, <2>4, <2>5, <2>6 DEF Gathers
    <2> QED
      BY <2>5, <2>7 DEF q
  <1> QED
    BY <1>4, <1>5

\* The files have the objects of the entries, each once, and lines in each.
LEMMA LogFilesHold ==
    ASSUME NEW entries \in Seq(Entry), entries # <<>>,
           \A i, j \in DOMAIN entries : entries[i].obj = entries[j].obj => i = j
    PROVE  LET files == LogFiles(entries)
           IN  /\ files \in Seq(Seq(Line))
               /\ \A i \in DOMAIN files : NewsFile(files[i])
               /\ AllOnce(files)
               /\ FilesObjects(files) = {entry.obj : entry \in Range(entries)}
  <1> DEFINE start == [files |-> <<>>, last |-> 0, data |-> <<>>]
             q(l)  == FoldLeft(OnEntry, start, l)
             once(l) == \A i, j \in DOMAIN l : l[i].obj = l[j].obj => i = j
             objs(l) == {entry.obj : entry \in Range(l)}
             gathers(l) == once(l) => Gathers(q(l), objs(l)) /\ (l # <<>> => q(l).last # 0)
             S == {l \in Seq(Entry) : gathers(l)}
  <1>1. <<>> \in S
    <2>1. q(<<>>) = start
      BY FoldsOfNothing
    <2>2. objs(<<>>) = {} /\ <<>> \in Seq(Entry)
      BY DEF Range
    <2>3. NewsIn(<<>>) = {} /\ ObjectsIn(<<>>) = {} /\ FilesObjects(<<>>) = {}
      BY DEF NewsIn, ObjectsIn, FilesObjects
    <2>4. OnceIn(<<>>) /\ AllOnce(<<>>)
      BY <2>3 DEF OnceIn, AllOnce
    <2>5. start.files = <<>> /\ start.data = <<>> /\ start.last = 0
          /\ start \in [files : Seq(Seq(Line)), last : Nat, data : Seq(Line)]
      OBVIOUS
    <2> HIDE DEF start
    <2>6. Gathers(start, {})
      BY <2>3, <2>4, <2>5 DEF Gathers
    <2> HIDE DEF q, objs
    <2>7. gathers(<<>>)
      BY <2>1, <2>2, <2>6, Zenon
    <2> HIDE DEF gathers
    <2> QED
      BY <2>2, <2>7
  <1>2. ASSUME NEW l \in Seq(Entry), NEW x \in Entry, l \in S PROVE Append(l, x) \in S
    <2> HIDE DEF start
    <2>1. Append(l, x) \in Seq(Entry)
      OBVIOUS
    <2>2. q(Append(l, x)) = OnEntry(q(l), x)
      BY EntryAppends
    <2>3. gathers(l)
      <3> HIDE DEF gathers
      <3> QED
        BY <1>2
    <2> HIDE DEF q
    <2> DEFINE n    == Len(l)
               more == Append(l, x)
    <2>4. /\ n \in Nat /\ DOMAIN l = 1..n /\ DOMAIN more = 1..(n + 1)
          /\ more[n + 1] = x /\ \A k \in 1..n : more[k] = l[k]
      OBVIOUS
    <2>5. \A k : k \in 1..(n + 1) <=> k \in 1..n \/ k = n + 1
      BY <2>4
    <2>6. n + 1 \notin 1..n
      BY <2>4
    <2> HIDE DEF n, more
    <2>7. objs(more) = objs(l) \cup {x.obj}
      BY <2>4, <2>5 DEF Range
    <2>8. ASSUME once(more) PROVE once(l) /\ x.obj \notin objs(l)
      <3>1. once(l)
        BY <2>4, <2>5, <2>8
      <3>2. \A k \in 1..n : l[k].obj # x.obj
        BY <2>4, <2>5, <2>6, <2>8
      <3> QED
        BY <2>4, <3>1, <3>2 DEF Range
    <2> HIDE DEF objs, once
    <2>9. ASSUME once(more) PROVE Gathers(q(more), objs(more)) /\ q(more).last # 0
      <3>1. Gathers(q(l), objs(l)) /\ x.obj \notin objs(l)
        BY <2>3, <2>8, <2>9
      <3>2. q(more) = OnEntry(q(l), x)
        BY <2>2 DEF more
      <3>3. PICK s, o : s = q(l) /\ o = objs(l)
        OBVIOUS
      <3>4. Gathers(OnEntry(s, x), o \cup {x.obj}) /\ OnEntry(s, x).last # 0
        BY <3>1, <3>3, GathersEntry
      <3> QED
        BY <2>7, <3>2, <3>3, <3>4
    <2>10. gathers(more)
      BY <2>9
    <2> HIDE DEF gathers
    <2> QED
      BY <2>1, <2>10 DEF more
  <1>3. Seq(Entry) \subseteq S
    <2> HIDE DEF S
    <2> QED
      BY <1>1, <1>2, SeqInduction
  <1>4. gathers(entries)
    <2> HIDE DEF gathers
    <2> QED
      BY <1>3
  <1>5. LogFiles(entries) = Append(q(entries).files, q(entries).data)
    BY DEF LogFiles
  <1> HIDE DEF q
  <1>6. Gathers(q(entries), objs(entries)) /\ q(entries).last # 0
    BY <1>4
  <1>7. PICK s : s = q(entries)
    OBVIOUS
  <1>8. /\ s.files \in Seq(Seq(Line)) /\ s.data \in Seq(Line)
        /\ NewsFile(s.data) /\ OnceIn(s.data) /\ FilesObjects(s.files) \cap ObjectsIn(s.data) = {}
        /\ AllOnce(s.files) /\ \A i \in DOMAIN s.files : NewsFile(s.files[i])
        /\ objs(entries) = FilesObjects(s.files) \cup ObjectsIn(s.data)
    BY <1>6, <1>7 DEF Gathers
  <1> HIDE DEF objs
  <1>9. /\ Append(s.files, s.data) \in Seq(Seq(Line))
        /\ \A i \in DOMAIN Append(s.files, s.data) : NewsFile(Append(s.files, s.data)[i])
        /\ AllOnce(Append(s.files, s.data))
        /\ FilesObjects(Append(s.files, s.data)) = FilesObjects(s.files) \cup ObjectsIn(s.data)
    BY <1>8, FilesOfMore
  <1> QED
    BY <1>5, <1>7, <1>8, <1>9 DEF objs

=============================================================================
