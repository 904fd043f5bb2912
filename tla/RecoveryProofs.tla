---------------------------- MODULE RecoveryProofs ----------------------------
(***************************************************************************)
(* The recovery procedure is right for every set of objects and layouts,   *)
(* and any number of transactions, minutes and breakages: a log tells only *)
(* what is true, no object is in two logs, cron finds everything that the  *)
(* slot is past in a log and finds no log that it cannot deal with.        *)
(*                                                                         *)
(* What get-log and fake-log make of the transactions is shown in          *)
(* LogRowsProofs; here is the inductive invariant about the logs that are  *)
(* there and the steps of the script and the operator.                     *)
(***************************************************************************)
EXTENDS Recovery, LogRowsProofs

-----------------------------------------------------------------------------
(***************************************************************************)
(* The inductive invariant, in parts that name the variables they are      *)
(* about.                                                                  *)
(***************************************************************************)

TxnOp == [kind : {"I", "U"}, obj : Objects]
Txn   == [ops : Seq(TxnOp), stamp : Minute, layout : [Type -> Layouts]]

\* The objects in a log, in those of the logs ls that are not lost.
Objs(log) == ObjectsIn(log.lines)
InLogs(ls) == UNION {Objs(ls[i]) : i \in {j \in DOMAIN ls : ls[j].status # "lost"}}

\* What holds of one log: its objects are real, create-diff finds one in it,
\* and one of get-log has the entries of whole transactions.
GoodLog(log, real) ==
    /\ Objs(log) \subseteq real
    /\ log.status = "log" => Objs(log) # {}
    /\ ~log.fake => log.lines # <<>> /\ Ends(log.lines, FALSE)
    /\ log.status # "lost" => OnceIn(log.lines)

\* ... and of two.
Apart(ls) ==
    \A i, j \in DOMAIN ls :
        i # j /\ ls[i].status # "lost" /\ ls[j].status # "lost" => Objs(ls[i]) \cap Objs(ls[j]) = {}

GoodLogs(ls, real) == Apart(ls) /\ \A i \in DOMAIN ls : GoodLog(ls[i], real)

\* What is inserted by the first n transactions.
Upto(ts, n) == UNION {Inserts(ts[k].ops) : k \in 1..n}

\* What those of them inserted that began at c or later.
Since(ts, c, n) == UNION {Inserts(ts[k].ops) : k \in {m \in 1..n : ts[m].stamp >= c}}

\* The slot s, the logs ls and the transactions ts when cron is on and only
\* what began before c may be lost.
InStep(ls, ts, s, c) ==
    /\ s \in Nat
    /\ Since(ts, c, s) \subseteq InLogs(ls)
    /\ \A i \in DOMAIN ls : ls[i].status = "done" => Objs(ls[i]) \subseteq Upto(ts, s)
    /\ \A i \in DOMAIN ls : ls[i].status = "log" =>
          /\ ~ls[i].fake
          /\ ls[i].hi <= Len(ts)
          /\ ls[i].hi <= s => Objs(ls[i]) \subseteq Upto(ts, s)
          /\ ls[i].hi > s  => Upto(ts, ls[i].hi) = Upto(ts, s) \cup Objs(ls[i])

\* What a running fake-log still has to write.
GoodFiles(fs, ls, real) ==
    /\ \A i \in DOMAIN fs : NewsFile(fs[i])
    /\ AllOnce(fs)
    /\ FilesObjects(fs) \subseteq real
    /\ FilesObjects(fs) \cap InLogs(ls) = {}

IInv ==
    /\ TypeOK
    /\ txns \in Seq(Txn)
    /\ FreshTxns(txns)
    /\ GoodLogs(logs, NewObjects(txns))
    /\ GoodFiles(files, logs, NewObjects(txns))
    /\ phase # "write" => files = <<>>
    /\ phase = "run" => InStep(logs, txns, slot, cutoff)
    /\ phase = "write" => Since(txns, cutoff, Len(txns)) \subseteq InLogs(logs) \cup FilesObjects(files)
    /\ phase \in {"diff", "enable", "addslot"} => Since(txns, cutoff, Len(txns)) \subseteq InLogs(logs)
    /\ phase \in {"enable", "addslot"} => \A i \in DOMAIN logs : logs[i].status # "log"

-----------------------------------------------------------------------------
(***************************************************************************)
(* The transactions.                                                       *)
(***************************************************************************)

LEMMA SeqOfMore ==
    ASSUME NEW A, NEW B, A \subseteq B, NEW s \in Seq(A)
    PROVE  s \in Seq(B)
  <1>1. Len(s) \in Nat /\ s \in [1..Len(s) -> A]
    OBVIOUS
  <1>2. s \in [1..Len(s) -> B]
    BY <1>1
  <1> QED
    BY <1>1, <1>2

LEMMA TxnTypes ==
    /\ TxnOp \subseteq Op
    /\ Txn \subseteq Transaction
    /\ \A ts \in Seq(Txn) : ts \in Seq(Transaction)
  <1>1. TxnOp \subseteq Op
    BY ObjectsAssumption DEF Op, TxnOp
  <1>2. Layouts \subseteq Layout
    BY LayoutAssumption DEF Layout
  <1>3. Minute \subseteq Nat
    BY RecoveryBounds DEF Minute
  <1>4. ASSUME NEW txn \in Txn PROVE txn \in Transaction
    <2>1. txn.ops \in Seq(TxnOp)
      BY DEF Txn
    <2>2. txn.ops \in Seq(Op)
      BY <1>1, <2>1, SeqOfMore
    <2>3. txn.layout \in [Type -> Layout] /\ txn.stamp \in Nat
      BY <1>2, <1>3 DEF Txn
    <2>4. txn = [ops |-> txn.ops, stamp |-> txn.stamp, layout |-> txn.layout]
      BY DEF Txn
    <2> QED
      BY <2>2, <2>3, <2>4 DEF Transaction
  <1> QED
    BY <1>1, <1>4, SeqOfMore

LEMMA InsertedIs ==
    /\ \A txn : InsertedBy(txn) = Inserts(txn.ops)
    /\ Inserted = NewObjects(txns)
  BY DEF InsertedBy, Inserted, Inserts, NewObjects

LEMMA InsertsTypes ==
    ASSUME NEW ts \in Seq(Txn)
    PROVE  NewObjects(ts) \subseteq Objects
  <1>1. ASSUME NEW ops \in Seq(TxnOp) PROVE Inserts(ops) \subseteq Objects
    <2>1. Range(ops) \subseteq TxnOp
      BY DEF Range
    <2> QED
      BY <2>1 DEF Inserts, TxnOp
  <1>2. \A i \in DOMAIN ts : Inserts(ts[i].ops) \subseteq Objects
    <2>1. \A i \in DOMAIN ts : ts[i] \in Txn
      OBVIOUS
    <2>2. \A txn \in Txn : txn.ops \in Seq(TxnOp)
      BY DEF Txn
    <2> QED
      BY <1>1, <2>1, <2>2
  <1> QED
    BY <1>2 DEF NewObjects

\* All of them, and those of the transactions from a to b.
LEMMA UptoAll ==
    ASSUME NEW ts \in Seq(Txn)
    PROVE  /\ Upto(ts, Len(ts)) = NewObjects(ts)
           /\ Upto(ts, 0) = {}
           /\ \A n \in 0..Len(ts) : Upto(ts, n) \subseteq NewObjects(ts)
  <1>1. DOMAIN ts = 1..Len(ts) /\ Len(ts) \in Nat
    OBVIOUS
  <1>2. \A n \in 0..Len(ts) : \A k \in 1..n : k \in 1..Len(ts)
    BY <1>1
  <1>3. 1..0 = {}
    OBVIOUS
  <1> QED
    BY <1>1, <1>2, <1>3 DEF Upto, NewObjects

LEMMA UptoMore ==
    ASSUME NEW ts \in Seq(Txn), FreshTxns(ts), NEW a \in Nat, NEW b \in Nat, a < b, b <= Len(ts)
    PROVE  /\ SubSeq(ts, a + 1, b) \in Seq(Transaction)
           /\ Len(SubSeq(ts, a + 1, b)) = b - a
           /\ FreshTxns(SubSeq(ts, a + 1, b))
           /\ Upto(ts, b) = Upto(ts, a) \cup NewObjects(SubSeq(ts, a + 1, b))
           /\ Upto(ts, a) \cap NewObjects(SubSeq(ts, a + 1, b)) = {}
  <1> DEFINE part == SubSeq(ts, a + 1, b)
             m    == b - a
  <1>1. /\ Len(ts) \in Nat /\ DOMAIN ts = 1..Len(ts) /\ m \in Nat
        /\ part \in Seq(Txn) /\ Len(part) = m /\ DOMAIN part = 1..m
        /\ \A k \in 1..m : part[k] = ts[a + k]
    OBVIOUS
  <1>2. part \in Seq(Transaction)
    BY <1>1, TxnTypes
  <1> HIDE DEF part
  <1>3. \A k \in 1..m : a + k \in DOMAIN ts /\ a + k \in 1..b /\ a + k \notin 1..a
    BY <1>1
  <1>4. \A k \in 1..b : k \in DOMAIN ts /\ (k \in 1..a \/ (k - a \in 1..m /\ a + (k - a) = k))
    BY <1>1
  <1>5. \A k \in 1..a : k \in DOMAIN ts /\ k \in 1..b
    BY <1>1
  <1>6. \A k, j \in 1..m : k # j => a + k # a + j
    BY <1>1
  <1> HIDE DEF m
  <1>7. FreshTxns(part)
    BY <1>1, <1>3, <1>6 DEF FreshTxns
  <1>8. NewObjects(part) = UNION {Inserts(ts[a + k].ops) : k \in 1..m}
    BY <1>1 DEF NewObjects
  <1>9. Upto(ts, b) = Upto(ts, a) \cup NewObjects(part)
    <2>1. Upto(ts, b) \subseteq Upto(ts, a) \cup NewObjects(part)
      <3> SUFFICES ASSUME NEW k \in 1..b, NEW obj \in Inserts(ts[k].ops)
                   PROVE  obj \in Upto(ts, a) \cup NewObjects(part)
        BY DEF Upto
      <3>1. CASE k \in 1..a
        BY <3>1 DEF Upto
      <3>2. CASE k \notin 1..a
        <4>1. k - a \in 1..m /\ a + (k - a) = k
          BY <1>4, <3>2
        <4>2. obj \in Inserts(ts[a + (k - a)].ops)
          BY <4>1
        <4> QED
          BY <1>8, <4>1, <4>2
      <3> QED
        BY <3>1, <3>2
    <2>2. Upto(ts, a) \subseteq Upto(ts, b)
      BY <1>5 DEF Upto
    <2>3. NewObjects(part) \subseteq Upto(ts, b)
      BY <1>3, <1>8 DEF Upto
    <2> QED
      BY <2>1, <2>2, <2>3
  <1>10. Upto(ts, a) \cap NewObjects(part) = {}
    <2> SUFFICES ASSUME NEW k \in 1..a, NEW j \in 1..m
                 PROVE  Inserts(ts[k].ops) \cap Inserts(ts[a + j].ops) = {}
      BY <1>8 DEF Upto
    <2>1. k \in DOMAIN ts /\ a + j \in DOMAIN ts /\ k # a + j
      BY <1>3, <1>5
    <2> QED
      BY <2>1 DEF FreshTxns
  <1> QED
    BY <1>1, <1>2, <1>7, <1>9, <1>10 DEF part, m

\* A transaction that commits takes nothing back.
LEMMA UptoAppended ==
    ASSUME NEW ts \in Seq(Txn), NEW txn, NEW n \in 0..Len(ts)
    PROVE  /\ Upto(Append(ts, txn), n) = Upto(ts, n)
           /\ \A c : Since(Append(ts, txn), c, n) = Since(ts, c, n)
  <1>1. \A k \in 1..n : Append(ts, txn)[k] = ts[k]
    OBVIOUS
  <1> QED
    BY <1>1 DEF Upto, Since

\* Some of what is inserted was inserted since c.
LEMMA SinceUpto ==
    ASSUME NEW ts \in Seq(Txn), NEW c, NEW n
    PROVE  /\ Since(ts, c, n) \subseteq Upto(ts, n)
           /\ n = Len(ts) => Since(ts, c, n) \subseteq NewObjects(ts)
  <1>1. Since(ts, c, n) \subseteq Upto(ts, n)
    BY DEF Since, Upto
  <1> QED
    BY <1>1, UptoAll

\* What the transactions from a to b have inserted since c.
LEMMA SinceMore ==
    ASSUME NEW ts \in Seq(Txn), FreshTxns(ts), NEW c, NEW a \in Nat, NEW b \in Nat, a <= b, b <= Len(ts)
    PROVE  Since(ts, c, b) \subseteq Since(ts, c, a) \cup (Upto(ts, b) \ Upto(ts, a))
  <1> SUFFICES ASSUME NEW k \in 1..b, ts[k].stamp >= c, NEW obj \in Inserts(ts[k].ops)
               PROVE  obj \in Since(ts, c, a) \cup (Upto(ts, b) \ Upto(ts, a))
    BY DEF Since
  <1>1. CASE k \in 1..a
    BY <1>1 DEF Since
  <1>2. CASE k \notin 1..a
    <2>1. DOMAIN ts = 1..Len(ts) /\ Len(ts) \in Nat
      OBVIOUS
    <2>2. \A j \in 1..a : j # k /\ j \in DOMAIN ts /\ k \in DOMAIN ts
      BY <1>2, <2>1
    <2>3. obj \notin Upto(ts, a)
      BY <2>2 DEF Upto, FreshTxns
    <2> QED
      BY <2>3 DEF Upto
  <1> QED
    BY <1>1, <1>2

-----------------------------------------------------------------------------
(***************************************************************************)
(* The logs.                                                               *)
(***************************************************************************)

LEMMA LogTypes ==
    ASSUME NEW log \in Log
    PROVE  /\ log.lines \in Seq(Line) /\ log.hi \in Nat /\ log.fake \in BOOLEAN
           /\ log.status \in {"log", "done", "lost"}
           /\ Range(ReadLog(log.lines)) = Objs(log)
           /\ ReadLog(log.lines) = <<>> <=> Objs(log) = {}
  <1>1. /\ log.lines \in Seq(Line) /\ log.hi \in Nat /\ log.fake \in BOOLEAN
        /\ log.status \in {"log", "done", "lost"}
    BY RecoveryBounds DEF Log, LSN
  <1>2. Objs(log) = {} <=> NewsIn(log.lines) = {}
    BY DEF Objs, ObjectsIn
  <1> QED
    BY <1>1, <1>2, ReadLogReads DEF Objs

LEMMA LoggedIs ==
    ASSUME logs \in Seq(Log)
    PROVE  LoggedObjects = InLogs(logs)
  <1>1. \A i \in DOMAIN logs : Range(ReadLog(logs[i].lines)) = Objs(logs[i])
    BY LogTypes
  <1> QED
    BY <1>1 DEF LoggedObjects, InLogs, Kept

LEMMA OneLogMore ==
    ASSUME NEW ls \in Seq(Log), NEW real, GoodLogs(ls, real),
           NEW log \in Log, log.status = "log", GoodLog(log, real), Objs(log) \cap InLogs(ls) = {}
    PROVE  /\ Append(ls, log) \in Seq(Log)
           /\ GoodLogs(Append(ls, log), real)
           /\ InLogs(Append(ls, log)) = InLogs(ls) \cup Objs(log)
  <1> DEFINE n    == Len(ls)
             more == Append(ls, log)
  <1>1. /\ n \in Nat /\ DOMAIN ls = 1..n /\ DOMAIN more = 1..(n + 1)
        /\ more[n + 1] = log /\ \A k \in 1..n : more[k] = ls[k]
        /\ more \in Seq(Log)
    OBVIOUS
  <1>2. \A k : k \in 1..(n + 1) <=> k \in 1..n \/ k = n + 1
    BY <1>1
  <1> HIDE DEF n, more
  <1>3. \A i \in DOMAIN more : GoodLog(more[i], real)
    BY <1>1, <1>2 DEF GoodLogs
  <1>4. \A k \in 1..n : ls[k].status # "lost" => Objs(ls[k]) \cap Objs(log) = {}
    BY <1>1 DEF InLogs
  <1>5. ASSUME NEW i \in DOMAIN more, NEW j \in DOMAIN more, i # j,
               more[i].status # "lost", more[j].status # "lost"
        PROVE  Objs(more[i]) \cap Objs(more[j]) = {}
    <2>1. CASE i \in 1..n /\ j \in 1..n
      <3>1. more[i] = ls[i] /\ more[j] = ls[j]
        BY <1>1, <2>1
      <3> QED
        BY <1>1, <1>5, <2>1, <3>1 DEF GoodLogs, Apart
    <2>2. CASE i = n + 1 /\ j \in 1..n
      BY <1>1, <1>4, <1>5, <2>2
    <2>3. CASE i \in 1..n /\ j = n + 1
      BY <1>1, <1>4, <1>5, <2>3
    <2> QED
      BY <1>1, <1>2, <1>5, <2>1, <2>2, <2>3
  <1>6. InLogs(more) = InLogs(ls) \cup Objs(log)
    <2>1. InLogs(more) \subseteq InLogs(ls) \cup Objs(log)
      BY <1>1, <1>2 DEF InLogs
    <2>2. InLogs(ls) \subseteq InLogs(more)
      BY <1>1, <1>2 DEF InLogs
    <2>3. Objs(log) \subseteq InLogs(more)
      BY <1>1, <1>2 DEF InLogs
    <2> QED
      BY <2>1, <2>2, <2>3
  <1> QED
    BY <1>1, <1>3, <1>5, <1>6 DEF GoodLogs, Apart, more

\* Nothing but the status of logs changes.
Renamed(ls, more) ==
    /\ more \in Seq(Log)
    /\ DOMAIN more = DOMAIN ls
    /\ \A i \in DOMAIN ls : /\ more[i].lines = ls[i].lines
                            /\ more[i].fake = ls[i].fake
                            /\ more[i].hi = ls[i].hi
                            /\ more[i].status = "log" => ls[i].status = "log"
                            /\ ls[i].status = "lost" => more[i].status = "lost"

LEMMA RenamedLogs ==
    ASSUME NEW ls \in Seq(Log), NEW real, GoodLogs(ls, real), NEW more, Renamed(ls, more)
    PROVE  /\ GoodLogs(more, real)
           /\ \A i \in DOMAIN ls : Objs(more[i]) = Objs(ls[i])
           /\ InLogs(more) \subseteq InLogs(ls)
           /\ (\A i \in DOMAIN ls : more[i].status = "lost" => ls[i].status = "lost") => InLogs(more) = InLogs(ls)
  <1>1. \A i \in DOMAIN ls : /\ Objs(more[i]) = Objs(ls[i])
                             /\ ls[i].status = "lost" => more[i].status = "lost"
    BY DEF Renamed, Objs
  <1>2. DOMAIN more = DOMAIN ls
    BY DEF Renamed
  <1>3. ASSUME NEW i \in DOMAIN ls PROVE GoodLog(more[i], real)
    <2>1. GoodLog(ls[i], real)
      BY DEF GoodLogs
    <2> QED
      BY <2>1 DEF GoodLog, Renamed, Objs
  <1>4. Apart(more)
    BY <1>1, <1>2 DEF GoodLogs, Apart
  <1>5. InLogs(more) \subseteq InLogs(ls)
    BY <1>1, <1>2 DEF InLogs
  <1>6. (\A i \in DOMAIN ls : more[i].status = "lost" => ls[i].status = "lost") => InLogs(ls) \subseteq InLogs(more)
    BY <1>1, <1>2 DEF InLogs
  <1> QED
    BY <1>1, <1>2, <1>3, <1>4, <1>5, <1>6 DEF GoodLogs

LEMMA GoodLogsGrow ==
    ASSUME NEW ls, NEW real, NEW more, real \subseteq more, GoodLogs(ls, real)
    PROVE  GoodLogs(ls, more)
  BY DEF GoodLogs, GoodLog

LEMMA NoFiles ==
    ASSUME NEW ls, NEW real
    PROVE  GoodFiles(<<>>, ls, real) /\ FilesObjects(<<>>) = {}
  <1>1. FilesObjects(<<>>) = {} /\ AllOnce(<<>>)
    BY DEF FilesObjects, AllOnce
  <1> QED
    BY <1>1 DEF GoodFiles

-----------------------------------------------------------------------------
(***************************************************************************)
(* The database.                                                           *)
(***************************************************************************)

\* The inserts of the five kinds of transactions.
LEMMA WorkInserts ==
    ASSUME NEW a, NEW b
    PROVE  LET ins(obj) == [kind |-> "I", obj |-> obj]
               upd(obj) == [kind |-> "U", obj |-> obj]
           IN  /\ Inserts(<<>>) = {}
               /\ Inserts(<<ins(a)>>) = {a}
               /\ Inserts(<<ins(a), ins(b)>>) = {a, b}
               /\ Inserts(<<upd(b)>>) = {}
               /\ Inserts(<<upd(b), ins(a)>>) = {a}
  <1> DEFINE ins(obj) == [kind |-> "I", obj |-> obj]
             upd(obj) == [kind |-> "U", obj |-> obj]
  <1>1. \A x, y : Range(<<>>) = {} /\ Range(<<x>>) = {x} /\ Range(<<x, y>>) = {x, y}
    BY DEF Range
  <1>2. /\ ins(a).kind = "I" /\ ins(b).kind = "I" /\ upd(b).kind = "U"
        /\ ins(a).obj = a /\ ins(b).obj = b
    OBVIOUS
  <1> HIDE DEF ins, upd
  <1>3. Inserts(<<>>) = {}
    BY <1>1 DEF Inserts
  <1>4. Inserts(<<ins(a)>>) = {a}
    BY <1>1, <1>2 DEF Inserts
  <1>5. Inserts(<<ins(a), ins(b)>>) = {a, b}
    BY <1>1, <1>2 DEF Inserts
  <1>6. Inserts(<<upd(b)>>) = {}
    BY <1>1, <1>2 DEF Inserts
  <1>7. Inserts(<<upd(b), ins(a)>>) = {a}
    BY <1>1, <1>2 DEF Inserts
  <1> QED
    BY <1>3, <1>4, <1>5, <1>6, <1>7 DEF ins, upd

\* A transaction inserts what is not there.
LEMMA WorkIsFresh ==
    ASSUME Inserted \subseteq Objects, NEW ops \in Work
    PROVE  ops \in Seq(TxnOp) /\ Fresh(ops, Inserted)
  <1> DEFINE ins(obj) == [kind |-> "I", obj |-> obj]
             upd(obj) == [kind |-> "U", obj |-> obj]
  <1>1. \A inserted : Insertable(inserted) \subseteq Objects \ inserted
    BY DEF Insertable
  <1>2. \A obj \in Objects : ins(obj) \in TxnOp /\ upd(obj) \in TxnOp
    BY DEF TxnOp
  <1>3. \A obj : ins(obj).kind = "I" /\ ins(obj).obj = obj /\ upd(obj).kind = "U"
    OBVIOUS
  <1>4. \/ ops = <<>>
        \/ \E a \in Insertable(Inserted) : ops = <<ins(a)>>
        \/ \E a \in Insertable(Inserted) : \E b \in Insertable(Inserted \cup {a}) : ops = <<ins(a), ins(b)>>
        \/ \E b \in Inserted : ops = <<upd(b)>>
        \/ \E a \in Insertable(Inserted), b \in Inserted : ops = <<upd(b), ins(a)>>
    <2> DEFINE two == UNION {{<<ins(a), ins(b)>> : b \in Insertable(Inserted \cup {a})} : a \in Insertable(Inserted)}
               one == {<<ins(a)>> : a \in Insertable(Inserted)}
               red == {<<upd(b)>> : b \in Inserted}
               both == UNION {{<<upd(b), ins(a)>> : b \in Inserted} : a \in Insertable(Inserted)}
    <2>1. ops \in {<<>>} \cup one \cup two \cup red \cup both
      BY DEF Work
    <2> HIDE DEF ins, upd
    <2>2. \A o \in two : \E a \in Insertable(Inserted) : \E b \in Insertable(Inserted \cup {a}) : o = <<ins(a), ins(b)>>
      BY Zenon
    <2>3. /\ \A o \in one : \E a \in Insertable(Inserted) : o = <<ins(a)>>
          /\ \A o \in red : \E b \in Inserted : o = <<upd(b)>>
          /\ \A o \in both : \E a \in Insertable(Inserted) : \E b \in Inserted : o = <<upd(b), ins(a)>>
      BY Zenon
    <2> HIDE DEF one, two, red, both
    <2>4. ops \in {<<>>} \/ ops \in one \/ ops \in two \/ ops \in red \/ ops \in both
      BY <2>1
    <2> QED
      BY <2>2, <2>3, <2>4
  <1>5. \A a, b : /\ Inserts(<<>>) = {} /\ Inserts(<<ins(a)>>) = {a} /\ Inserts(<<ins(a), ins(b)>>) = {a, b}
                  /\ Inserts(<<upd(b)>>) = {} /\ Inserts(<<upd(b), ins(a)>>) = {a}
    BY WorkInserts
  <1> HIDE DEF ins, upd
  <1>6. CASE ops = <<>>
    BY <1>5, <1>6 DEF Fresh
  <1>7. ASSUME NEW a \in Insertable(Inserted), ops = <<ins(a)>> PROVE ops \in Seq(TxnOp) /\ Fresh(ops, Inserted)
    <2>1. a \in Objects \ Inserted
      BY <1>1
    <2>2. <<ins(a)>> \in Seq(TxnOp) /\ DOMAIN <<ins(a)>> = {1}
      BY <1>2, <2>1
    <2> QED
      BY <1>5, <1>7, <2>1, <2>2 DEF Fresh
  <1>8. ASSUME NEW a \in Insertable(Inserted), NEW b \in Insertable(Inserted \cup {a}), ops = <<ins(a), ins(b)>>
        PROVE  ops \in Seq(TxnOp) /\ Fresh(ops, Inserted)
    <2>1. a \in Objects \ Inserted /\ b \in Objects \ (Inserted \cup {a})
      BY <1>1
    <2>2. /\ <<ins(a), ins(b)>> \in Seq(TxnOp) /\ DOMAIN <<ins(a), ins(b)>> = {1, 2}
          /\ <<ins(a), ins(b)>>[1] = ins(a) /\ <<ins(a), ins(b)>>[2] = ins(b)
      BY <1>2, <2>1
    <2>3. \A k, m \in {1, 2} : ops[k].obj = ops[m].obj => k = m
      BY <1>3, <1>8, <2>1, <2>2
    <2> QED
      BY <1>5, <1>8, <2>1, <2>2, <2>3 DEF Fresh
  <1>9. ASSUME NEW b \in Inserted, ops = <<upd(b)>> PROVE ops \in Seq(TxnOp) /\ Fresh(ops, Inserted)
    <2>1. <<upd(b)>> \in Seq(TxnOp) /\ DOMAIN <<upd(b)>> = {1}
      BY <1>2
    <2> QED
      BY <1>5, <1>9, <2>1 DEF Fresh
  <1>10. ASSUME NEW a \in Insertable(Inserted), NEW b \in Inserted, ops = <<upd(b), ins(a)>>
         PROVE  ops \in Seq(TxnOp) /\ Fresh(ops, Inserted)
    <2>1. a \in Objects \ Inserted
      BY <1>1
    <2>2. /\ <<upd(b), ins(a)>> \in Seq(TxnOp) /\ DOMAIN <<upd(b), ins(a)>> = {1, 2}
          /\ <<upd(b), ins(a)>>[1] = upd(b) /\ <<upd(b), ins(a)>>[2] = ins(a)
      BY <1>2, <2>1
    <2>3. \A k, m \in {1, 2} : ops[k].kind = "I" /\ ops[m].kind = "I" => k = m
      BY <1>3, <1>10, <2>2
    <2> QED
      BY <1>5, <1>10, <2>1, <2>2, <2>3 DEF Fresh
  <1> QED
    BY <1>4, <1>6, <1>7, <1>8, <1>9, <1>10

LEMMA FreshTxnMore ==
    ASSUME NEW ts \in Seq(Transaction), FreshTxns(ts), NEW txn \in Transaction, Fresh(txn.ops, NewObjects(ts))
    PROVE  FreshTxns(Append(ts, txn))
  <1> DEFINE n    == Len(ts)
             more == Append(ts, txn)
  <1>1. /\ n \in Nat /\ DOMAIN ts = 1..n /\ DOMAIN more = 1..(n + 1)
        /\ more[n + 1] = txn /\ \A k \in 1..n : more[k] = ts[k]
    OBVIOUS
  <1>2. \A k : k \in 1..(n + 1) <=> k \in 1..n \/ k = n + 1
    BY <1>1
  <1> HIDE DEF n, more
  <1>3. \A k \in 1..n : Inserts(ts[k].ops) \cap Inserts(txn.ops) = {}
    BY <1>1 DEF Fresh, NewObjects
  <1>4. Fresh(txn.ops, {})
    BY DEF Fresh
  <1>5. \A i \in DOMAIN more : Fresh(more[i].ops, {})
    BY <1>1, <1>2, <1>4 DEF FreshTxns
  <1>6. ASSUME NEW i \in DOMAIN more, NEW j \in DOMAIN more, i # j
        PROVE  Inserts(more[i].ops) \cap Inserts(more[j].ops) = {}
    <2>1. CASE i \in 1..n /\ j \in 1..n
      <3>1. more[i] = ts[i] /\ more[j] = ts[j]
        BY <1>1, <2>1
      <3> QED
        BY <1>1, <1>6, <2>1, <3>1 DEF FreshTxns
    <2>2. CASE i = n + 1 /\ j \in 1..n
      BY <1>1, <1>3, <2>2
    <2>3. CASE i \in 1..n /\ j = n + 1
      BY <1>1, <1>3, <2>3
    <2> QED
      BY <1>1, <1>2, <1>6, <2>1, <2>2, <2>3
  <1> QED
    BY <1>5, <1>6 DEF FreshTxns, more

\* A commit is after all LSNs that are known.
LEMMA InStepGrows ==
    ASSUME NEW ls \in Seq(Log), NEW ts \in Seq(Txn), NEW s, s <= Len(ts), NEW txn \in Txn, NEW c, InStep(ls, ts, s, c)
    PROVE  InStep(ls, Append(ts, txn), s, c)
  <1> DEFINE more == Append(ts, txn)
  <1>1. Len(more) = Len(ts) + 1 /\ Len(ts) \in Nat
    OBVIOUS
  <1>2. \A n \in 0..Len(ts) : Upto(more, n) = Upto(ts, n) /\ Since(more, c, n) = Since(ts, c, n)
    BY UptoAppended
  <1> HIDE DEF more
  <1>3. s \in Nat /\ s \in 0..Len(ts) /\ Upto(more, s) = Upto(ts, s) /\ Since(more, c, s) = Since(ts, c, s)
    BY <1>1, <1>2 DEF InStep
  <1>4. ASSUME NEW i \in DOMAIN ls, ls[i].status = "log"
        PROVE  /\ ls[i].hi <= Len(more)
               /\ ls[i].hi > s => Upto(more, ls[i].hi) = Upto(more, s) \cup Objs(ls[i])
    <2>1. ls[i] \in Log
      OBVIOUS
    <2>2. ls[i].hi \in Nat
      BY <2>1, LogTypes
    <2>3. ls[i].hi <= Len(ts) /\ (ls[i].hi > s => Upto(ts, ls[i].hi) = Upto(ts, s) \cup Objs(ls[i]))
      BY <1>4 DEF InStep
    <2> QED
      BY <1>1, <1>2, <1>3, <2>2, <2>3
  <1>5. InStep(ls, more, s, c)
    BY <1>3, <1>4 DEF InStep
  <1> QED
    BY <1>5 DEF more

LEMMA CommitKeeps ==
    ASSUME IInv, Commit
    PROVE  IInv'
  <1>1. PICK ops \in Work, stamp \in Minute :
           txns' = Append(txns, [ops |-> ops, stamp |-> stamp, layout |-> layout])
    BY DEF Commit
  <1> DEFINE txn == [ops |-> ops, stamp |-> stamp, layout |-> layout]
  <1>2. /\ TypeOK /\ txns \in Seq(Txn) /\ FreshTxns(txns) /\ Inserted = NewObjects(txns)
        /\ phase \in {"run", "broken"} /\ Len(txns) < MaxTxn
        /\ UNCHANGED <<layout, slot, publication, logs, phase, files, trouble, cutoff>>
    BY InsertedIs DEF IInv, Commit
  <1>3. Inserted \subseteq Objects
    BY <1>2, InsertsTypes
  <1>4. ops \in Seq(TxnOp) /\ Fresh(ops, NewObjects(txns))
    BY <1>2, <1>3, WorkIsFresh
  <1>5. txn \in Txn /\ txn.ops = ops
    BY <1>2, <1>4 DEF TypeOK, Txn
  <1> HIDE DEF txn
  <1>6. txns \in Seq(Transaction) /\ txn \in Transaction
    BY <1>2, <1>5, TxnTypes
  <1>7. txns' = Append(txns, txn) /\ txns' \in Seq(Txn) /\ Len(txns') = Len(txns) + 1
    BY <1>1, <1>2, <1>5 DEF txn
  <1>8. FreshTxns(txns') /\ NewObjects(txns') = NewObjects(txns) \cup Inserts(ops)
    BY <1>2, <1>4, <1>5, <1>6, <1>7, FreshTxnMore, ObjectsOfMore
  <1>9. TypeOK'
    <2>1. Len(txns) \in Nat
      BY <1>2
    <2> QED
      BY <1>2, <1>7, <2>1, RecoveryBounds DEF TypeOK, LSN, NoSlot
  <1>10. GoodLogs(logs', NewObjects(txns'))
    BY <1>2, <1>8, GoodLogsGrow DEF IInv
  <1>11. GoodFiles(files', logs', NewObjects(txns'))
    BY <1>2, <1>8 DEF IInv, GoodFiles
  <1>12. phase' = "run" => InStep(logs', txns', slot', cutoff')
    BY <1>2, <1>5, <1>7, InStepGrows DEF IInv, TypeOK
  <1> QED
    BY <1>2, <1>7, <1>8, <1>9, <1>10, <1>11, <1>12 DEF IInv

LEMMA MigrateKeeps ==
    ASSUME IInv, Migrate
    PROVE  IInv'
  <1>1. /\ layout' \in [Type -> Layouts]
        /\ UNCHANGED <<txns, slot, publication, logs, phase, files, trouble, cutoff>>
    BY DEF Migrate, IInv, TypeOK
  <1>2. TypeOK'
    BY <1>1 DEF IInv, TypeOK
  <1> QED
    BY <1>1, <1>2 DEF IInv

-----------------------------------------------------------------------------
(***************************************************************************)
(* The commands of the script.                                             *)
(***************************************************************************)

\* The LSN of the last pending log is reached: what is between is in a log.
LEMMA CatchupKeeps ==
    ASSUME IInv, Catchup
    PROVE  IInv'
  <1>1. /\ TypeOK /\ logs \in Seq(Log) /\ txns \in Seq(Txn) /\ phase = "run"
        /\ InStep(logs, txns, slot, cutoff)
        /\ UNCHANGED <<layout, txns, publication, logs, phase, files, trouble, cutoff>>
    BY DEF IInv, TypeOK, Catchup, database
  <1>2. PICK l \in Pending : slot' = logs[l].hi
    BY DEF Catchup
  <1>3. /\ \A i \in Pending : logs[i].hi <= slot'
        /\ \E i \in Pending : ~(logs[i].hi <= slot)
    BY DEF Catchup, CaughtUp
  <1>4. \A i \in DOMAIN logs : logs[i].hi \in Nat
    BY <1>1, LogTypes
  <1>5. l \in DOMAIN logs /\ logs[l].status = "log" /\ slot \in Nat
    BY <1>1 DEF Pending, InStep
  <1>6. slot' \in Nat /\ slot' > slot /\ slot' <= Len(txns)
    <2>1. Len(txns) \in Nat
      BY <1>1
    <2>2. \A i \in Pending : i \in DOMAIN logs
      BY DEF Pending
    <2>3. logs[l].hi <= Len(txns)
      BY <1>1, <1>5 DEF InStep
    <2> QED
      BY <1>2, <1>3, <1>4, <1>5, <2>1, <2>2, <2>3
  <1>7. Upto(txns, slot') = Upto(txns, slot) \cup Objs(logs[l])
    BY <1>1, <1>2, <1>5, <1>6 DEF InStep
  <1>8. InStep(logs, txns, slot', cutoff)
    <2>1. Objs(logs[l]) \subseteq InLogs(logs)
      BY <1>5 DEF InLogs
    <2>2. Since(txns, cutoff, slot') \subseteq InLogs(logs)
      <3>1. FreshTxns(txns) /\ slot <= slot'
        BY <1>5, <1>6 DEF IInv
      <3>2. Since(txns, cutoff, slot') \subseteq Since(txns, cutoff, slot) \cup Objs(logs[l])
        BY <1>1, <1>5, <1>6, <1>7, <3>1, SinceMore
      <3> QED
        BY <1>1, <2>1, <3>2 DEF InStep
    <2>3. \A i \in DOMAIN logs : logs[i].status = "done" => Objs(logs[i]) \subseteq Upto(txns, slot')
      BY <1>1, <1>7 DEF InStep
    <2>4. ASSUME NEW i \in DOMAIN logs, logs[i].status = "log"
          PROVE  logs[i].hi <= slot' /\ Objs(logs[i]) \subseteq Upto(txns, slot')
      <3>1. logs[i].hi <= slot'
        BY <1>3, <2>4 DEF Pending
      <3>2. CASE logs[i].hi <= slot
        BY <1>1, <1>7, <2>4, <3>1, <3>2 DEF InStep
      <3>3. CASE logs[i].hi > slot
        <4>1. Upto(txns, logs[i].hi) = Upto(txns, slot) \cup Objs(logs[i])
          BY <1>1, <2>4, <3>3 DEF InStep
        <4>2. Upto(txns, logs[i].hi) \subseteq Upto(txns, slot')
          <5>1. \A k \in 1..logs[i].hi : k \in 1..slot'
            BY <1>4, <1>6, <3>1
          <5> QED
            BY <5>1 DEF Upto
        <4> QED
          BY <3>1, <4>1, <4>2
      <3> QED
        BY <1>4, <1>5, <3>1, <3>2, <3>3
    <2>5. \A i \in DOMAIN logs : logs[i].status = "log" => ~(logs[i].hi > slot')
      BY <1>4, <1>6, <2>4
    <2> QED
      BY <1>1, <1>6, <2>2, <2>3, <2>4, <2>5 DEF InStep
  <1>9. TypeOK'
    <2>1. logs[l] \in Log
      BY <1>1, <1>5
    <2>2. slot' \in LSN
      BY <1>2, <2>1 DEF Log
    <2> QED
      BY <1>1, <1>6, <2>2 DEF TypeOK
  <1> QED
    BY <1>1, <1>8, <1>9 DEF IInv

\* What get-log has read of the transactions from the slot on to LSN n.
LEMMA GetLogRead ==
    ASSUME IInv, phase = "run", NEW n \in (slot + 1)..Len(txns), ~ReadRows(RowsTo(n)).error
    PROVE  LET read == ReadRows(RowsTo(n))
               news == NewObjects(SubSeq(txns, slot + 1, n))
               log  == LogFile(read.data, FALSE, read.lsn)
           IN  /\ n \in Nat /\ slot < n /\ n <= Len(txns) /\ read.lsn = n
               /\ Upto(txns, n) = Upto(txns, slot) \cup news
               /\ Upto(txns, slot) \cap news = {}
               /\ read.actual <=> news # {}
               /\ read.actual => log \in Log /\ GoodLog(log, NewObjects(txns)) /\ Objs(log) = news
  <1> DEFINE part == SubSeq(txns, slot + 1, n)
             read == ReadRows(RowsTo(n))
             news == NewObjects(part)
             log  == LogFile(read.data, FALSE, read.lsn)
  <1>1. /\ txns \in Seq(Txn) /\ FreshTxns(txns) /\ slot \in Nat /\ slot <= Len(txns)
        /\ Len(txns) \in LSN
    BY DEF IInv, TypeOK, InStep
  <1>2. /\ Len(txns) \in Nat /\ n \in Nat /\ slot < n /\ n <= Len(txns) /\ n \in LSN
    BY <1>1, RecoveryBounds DEF LSN
  <1>3. /\ part \in Seq(Transaction) /\ Len(part) = n - slot /\ FreshTxns(part)
        /\ Upto(txns, n) = Upto(txns, slot) \cup news
        /\ Upto(txns, slot) \cap news = {}
    BY <1>1, <1>2, UptoMore
  <1>4. part # <<>>
    <2>1. Len(part) # 0
      BY <1>1, <1>2, <1>3
    <2> HIDE DEF part
    <2> QED
      BY <1>3, <2>1
  <1>5. RowsTo(n) = SlotRows(part, slot)
    BY DEF RowsTo
  <1> HIDE DEF part
  <1>6. /\ read \in ReadState /\ read.lsn = slot + Len(part)
        /\ Ends(read.data, FALSE) /\ ObjectsIn(read.data) = news /\ OnceIn(read.data)
        /\ read.actual <=> news # {}
    BY <1>1, <1>3, <1>4, <1>5, GetLogReads
  <1>7. read.lsn = n
    BY <1>1, <1>2, <1>3, <1>6
  <1> HIDE DEF read
  <1>8. ASSUME read.actual
        PROVE  log \in Log /\ GoodLog(log, NewObjects(txns)) /\ Objs(log) = news
    <2>1. read.data \in Seq(Line)
      BY <1>6 DEF ReadState
    <2>2. log \in Log
      BY <1>2, <1>7, <2>1 DEF Log, LogFile
    <2>3. log.lines = read.data /\ log.status = "log" /\ ~log.fake
      BY DEF LogFile
    <2> HIDE DEF log
    <2>4. Objs(log) = news
      BY <1>6, <2>3 DEF Objs
    <2>5. news \subseteq NewObjects(txns)
      BY <1>1, <1>2, <1>3, UptoAll
    <2>6. log.lines # <<>>
      <3>1. NewsIn(read.data) # {}
        BY <1>6, <1>8 DEF ObjectsIn
      <3> QED
        BY <2>3, <3>1 DEF NewsIn
    <2>7. GoodLog(log, NewObjects(txns))
      BY <1>6, <1>8, <2>3, <2>4, <2>5, <2>6 DEF GoodLog
    <2> QED
      BY <2>2, <2>4, <2>7
  <1> QED
    BY <1>2, <1>3, <1>6, <1>7, <1>8 DEF read, part

LEMMA GetLogKeeps ==
    ASSUME IInv, GetLog
    PROVE  IInv'
  <1>1. /\ TypeOK /\ logs \in Seq(Log) /\ txns \in Seq(Txn) /\ phase = "run" /\ FreshTxns(txns)
        /\ InStep(logs, txns, slot, cutoff) /\ GoodLogs(logs, NewObjects(txns)) /\ files = <<>>
        /\ UNCHANGED <<layout, txns, publication, phase, files, trouble, cutoff>>
    BY DEF IInv, TypeOK, GetLog, database
  <1>2. PICK n \in (slot + 1)..Len(txns), catchup \in BOOLEAN :
           LET read == ReadRows(RowsTo(n))
           IN  /\ ~read.error
               /\ logs' = IF read.actual THEN Append(logs, LogFile(read.data, FALSE, read.lsn)) ELSE logs
               /\ slot' = IF catchup THEN read.lsn ELSE slot
    BY DEF GetLog
  <1> DEFINE read == ReadRows(RowsTo(n))
             news == NewObjects(SubSeq(txns, slot + 1, n))
             log  == LogFile(read.data, FALSE, read.lsn)
  <1>3. /\ n \in Nat /\ slot < n /\ n <= Len(txns) /\ read.lsn = n
        /\ Upto(txns, n) = Upto(txns, slot) \cup news
        /\ Upto(txns, slot) \cap news = {}
        /\ read.actual <=> news # {}
        /\ read.actual => log \in Log /\ GoodLog(log, NewObjects(txns)) /\ Objs(log) = news
    BY <1>1, <1>2, GetLogRead
  <1>4. log.status = "log" /\ log.fake = FALSE /\ log.hi = read.lsn
    BY DEF LogFile
  <1>5. /\ logs' = IF read.actual THEN Append(logs, log) ELSE logs
        /\ slot' = slot \/ slot' = n
    BY <1>2, <1>3
  <1> HIDE DEF read, log, news
  <1>6. \A i \in DOMAIN logs : /\ logs[i].hi \in Nat
                               /\ logs[i].status \in {"log", "done", "lost"}
                               /\ logs[i].status = "log" => logs[i].hi <= slot
    BY <1>1, LogTypes DEF GetLog, CaughtUp, Pending
  <1>7. slot \in Nat
    BY <1>1 DEF InStep
  <1>8. \A i \in DOMAIN logs : logs[i].status # "lost" => Objs(logs[i]) \subseteq Upto(txns, slot)
    BY <1>1, <1>6 DEF InStep
  <1>9. InLogs(logs) \cap news = {}
    BY <1>3, <1>8 DEF InLogs
  <1>10. /\ logs' \in Seq(Log) /\ GoodLogs(logs', NewObjects(txns))
         /\ InLogs(logs') = InLogs(logs) \cup news
    <2>1. CASE read.actual
      <3>1. logs' = Append(logs, log) /\ Objs(log) \cap InLogs(logs) = {} /\ Objs(log) = news
        BY <1>3, <1>5, <1>9, <2>1
      <3> QED
        BY <1>1, <1>3, <1>4, <2>1, <3>1, OneLogMore
    <2>2. CASE ~read.actual
      BY <1>1, <1>3, <1>5, <2>2
    <2> QED
      BY <2>1, <2>2
  <1>11. /\ DOMAIN logs \subseteq DOMAIN logs' /\ \A i \in DOMAIN logs : logs'[i] = logs[i]
         /\ \A i \in DOMAIN logs' : i \in DOMAIN logs \/ (logs'[i] = log /\ read.actual)
    <2>1. /\ DOMAIN Append(logs, log) = DOMAIN logs \cup {Len(logs) + 1}
          /\ Append(logs, log)[Len(logs) + 1] = log
          /\ \A i \in DOMAIN logs : Append(logs, log)[i] = logs[i]
      BY <1>1
    <2> QED
      BY <1>5, <2>1
  <1>12. InStep(logs', txns, slot', cutoff)
    <2>1. slot' \in Nat /\ slot <= slot' /\ slot' <= n
      BY <1>3, <1>5, <1>7
    <2>2. Upto(txns, slot) \subseteq Upto(txns, slot') /\ Upto(txns, slot') \subseteq Upto(txns, slot) \cup news
      BY <1>3, <1>5
    <2>3. Since(txns, cutoff, slot') \subseteq InLogs(logs')
      <3>1. slot' <= Len(txns)
        BY <1>1, <1>3, <2>1
      <3>2. Since(txns, cutoff, slot') \subseteq Since(txns, cutoff, slot) \cup news
        BY <1>1, <1>7, <2>1, <2>2, <3>1, SinceMore
      <3> QED
        BY <1>1, <1>10, <3>2 DEF InStep
    <2>4. ASSUME NEW i \in DOMAIN logs'
          PROVE  /\ logs'[i].status = "done" => Objs(logs'[i]) \subseteq Upto(txns, slot')
                 /\ logs'[i].status = "log" =>
                       /\ ~logs'[i].fake
                       /\ logs'[i].hi <= Len(txns)
                       /\ logs'[i].hi <= slot' => Objs(logs'[i]) \subseteq Upto(txns, slot')
                       /\ logs'[i].hi > slot' => Upto(txns, logs'[i].hi) = Upto(txns, slot') \cup Objs(logs'[i])
      <3>1. CASE i \in DOMAIN logs
        <4>1. logs'[i] = logs[i]
          BY <1>11, <3>1
        <4>2. logs[i].status = "log" => ~(logs[i].hi > slot')
          BY <1>6, <1>7, <2>1, <3>1
        <4>3. logs[i].status # "lost" => Objs(logs[i]) \subseteq Upto(txns, slot')
          BY <1>8, <2>2, <3>1
        <4>4. logs[i].status = "log" => ~logs[i].fake /\ logs[i].hi <= Len(txns)
          BY <1>1, <3>1 DEF InStep
        <4> QED
          BY <4>1, <4>2, <4>3, <4>4
      <3>2. CASE i \notin DOMAIN logs
        <4>1. logs'[i] = log /\ log.hi = n /\ Objs(log) = news /\ log.status = "log" /\ ~log.fake
          BY <1>3, <1>4, <1>11, <3>2
        <4>2. CASE slot' = n
          BY <1>3, <4>1, <4>2
        <4>3. CASE slot' = slot
          <5>1. ~(n <= slot)
            BY <1>3, <1>7
          <5> QED
            BY <1>3, <4>1, <4>3, <5>1
        <4> QED
          BY <1>5, <4>2, <4>3
      <3> QED
        BY <3>1, <3>2
    <2> QED
      BY <2>1, <2>3, <2>4 DEF InStep
  <1>13. TypeOK'
    <2>1. Len(txns) \in Nat /\ MaxTxn \in Nat /\ Len(txns) <= MaxTxn
      BY <1>1, RecoveryBounds DEF TypeOK, LSN
    <2>2. slot' \in LSN /\ slot' <= Len(txns)
      BY <1>3, <1>5, <1>7, <2>1 DEF LSN
    <2> QED
      BY <1>1, <1>10, <2>2 DEF TypeOK
  <1>14. GoodFiles(files', logs', NewObjects(txns'))
    BY <1>1, NoFiles
  <1> QED
    BY <1>1, <1>10, <1>12, <1>13, <1>14 DEF IInv

\* create-diff leaves no pending log, because there is an object in each.
LEMMA CreateDiffRetires ==
    ASSUME IInv, CreateDiffDone
    PROVE  /\ Renamed(logs, logs')
           /\ \A i \in DOMAIN logs : logs'[i].status # "log"
           /\ \A i \in DOMAIN logs : logs'[i].status = "lost" => logs[i].status = "lost"
           /\ \A i \in DOMAIN logs : logs[i].status = "log" => logs'[i].status = "done"
           /\ \A i \in DOMAIN logs : logs[i].status # "log" => logs'[i] = logs[i]
  <1>1. logs \in Seq(Log) /\ GoodLogs(logs, NewObjects(txns))
    BY DEF IInv, TypeOK
  <1>2. \A i \in DOMAIN logs : logs[i] \in Log
    BY <1>1
  <1>3. \A i \in Pending : ReadLog(logs[i].lines) # <<>>
    BY <1>1, <1>2, LogTypes DEF Pending, GoodLogs, GoodLog
  <1>4. CASE Pending = {}
    <2>1. logs' = logs
      BY <1>4 DEF CreateDiffDone
    <2> QED
      BY <1>1, <1>4, <2>1 DEF Pending, Renamed
  <1>5. CASE Pending # {}
    <2>1. logs' = Retire(Pending)
      BY <1>3, <1>5 DEF CreateDiffDone
    <2>2. ASSUME NEW log \in Log
          PROVE  LET done == [log EXCEPT !.status = "done"]
                 IN  /\ done \in Log /\ done.lines = log.lines /\ done.fake = log.fake
                     /\ done.hi = log.hi /\ done.status = "done"
      BY DEF Log
    <2>3. \A i \in DOMAIN logs : logs'[i] = IF logs[i].status = "log" THEN [logs[i] EXCEPT !.status = "done"] ELSE logs[i]
      BY <2>1 DEF Retire, Pending
    <2>4. DOMAIN logs' = DOMAIN logs /\ DOMAIN logs = 1..Len(logs) /\ Len(logs) \in Nat
      BY <1>1, <2>1 DEF Retire
    <2>5. \A i \in DOMAIN logs : logs'[i] \in Log
      BY <1>2, <2>2, <2>3
    <2>6. logs' \in Seq(Log)
      <3>1. logs' = [i \in DOMAIN logs |-> logs'[i]]
        BY <2>1 DEF Retire
      <3> QED
        BY <2>4, <2>5, <3>1
    <2>7. ASSUME NEW i \in DOMAIN logs
          PROVE  /\ logs'[i].lines = logs[i].lines /\ logs'[i].fake = logs[i].fake /\ logs'[i].hi = logs[i].hi
                 /\ logs[i].status = "log" => logs'[i].status = "done"
                 /\ logs[i].status # "log" => logs'[i] = logs[i]
      <3>1. CASE logs[i].status = "log"
        <4>1. logs'[i] = [logs[i] EXCEPT !.status = "done"]
          BY <2>3, <3>1
        <4> QED
          BY <1>2, <2>2, <3>1, <4>1
      <3>2. CASE logs[i].status # "log"
        BY <2>3, <3>2
      <3> QED
        BY <3>1, <3>2
    <2>8. \A i \in DOMAIN logs : logs'[i].status # "log"
      BY <2>7
    <2>9. \A i \in DOMAIN logs : logs'[i].status = "lost" <=> logs[i].status = "lost"
      BY <2>7
    <2> QED
      BY <2>4, <2>6, <2>7, <2>8, <2>9 DEF Renamed
  <1> QED
    BY <1>4, <1>5

LEMMA CreateDiffKeeps ==
    ASSUME IInv, CreateDiff
    PROVE  IInv'
  <1>1. /\ TypeOK /\ logs \in Seq(Log) /\ phase = "run" /\ CaughtUp
        /\ InStep(logs, txns, slot, cutoff) /\ GoodLogs(logs, NewObjects(txns)) /\ files = <<>>
        /\ UNCHANGED <<layout, txns, slot, publication, phase, files, trouble, cutoff>>
    BY DEF IInv, TypeOK, CreateDiff, database
  <1>2. /\ Renamed(logs, logs')
        /\ \A i \in DOMAIN logs : logs'[i].status # "log"
        /\ \A i \in DOMAIN logs : logs'[i].status = "lost" => logs[i].status = "lost"
        /\ \A i \in DOMAIN logs : logs[i].status = "log" => logs'[i].status = "done"
        /\ \A i \in DOMAIN logs : logs[i].status # "log" => logs'[i] = logs[i]
    BY CreateDiffRetires DEF CreateDiff
  <1>3. /\ GoodLogs(logs', NewObjects(txns)) /\ InLogs(logs') = InLogs(logs)
        /\ \A i \in DOMAIN logs : Objs(logs'[i]) = Objs(logs[i])
    BY <1>1, <1>2, RenamedLogs
  <1>4. logs' \in Seq(Log) /\ DOMAIN logs' = DOMAIN logs
    BY <1>2 DEF Renamed
  <1>5. ASSUME NEW i \in DOMAIN logs, logs'[i].status = "done"
        PROVE  Objs(logs'[i]) \subseteq Upto(txns, slot)
    <2>1. CASE logs[i].status = "log"
      BY <1>1, <1>3, <2>1 DEF InStep, CaughtUp, Pending
    <2>2. CASE logs[i].status # "log"
      BY <1>1, <1>2, <1>5, <2>2 DEF InStep
    <2> QED
      BY <2>1, <2>2
  <1>6. InStep(logs', txns', slot', cutoff')
    BY <1>1, <1>2, <1>3, <1>4, <1>5 DEF InStep
  <1>7. TypeOK'
    BY <1>1, <1>4 DEF TypeOK
  <1>8. GoodFiles(files', logs', NewObjects(txns'))
    BY <1>1, NoFiles
  <1> QED
    BY <1>1, <1>3, <1>6, <1>7, <1>8 DEF IInv

-----------------------------------------------------------------------------
(***************************************************************************)
(* What breaks, and the steps of the procedure before fake-log.            *)
(***************************************************************************)

\* In these phases nothing is asked of the slot.
LEMMA MovesKeep ==
    ASSUME IInv, UNCHANGED <<layout, txns, logs, cutoff>>, slot' \in {slot, NoSlot},
           publication' \in BOOLEAN, files' = <<>>, trouble' \in 0..MaxTrouble,
           phase' \in {"broken", "disable", "unpublish", "fake"}
    PROVE  IInv'
  <1>1. Len(txns) \in Nat
    BY DEF IInv
  <1>2. TypeOK'
    <2>1. slot' \in LSN \cup {NoSlot} /\ slot' <= Len(txns)
      BY <1>1 DEF IInv, TypeOK, NoSlot
    <2>2. files' \in Seq(Seq(Line)) /\ phase' \in Phase
      BY DEF Phase
    <2> QED
      BY <2>1, <2>2 DEF IInv, TypeOK
  <1>3. GoodFiles(files', logs', NewObjects(txns'))
    BY NoFiles
  <1> QED
    BY <1>2, <1>3 DEF IInv

LEMMA BreakKeeps ==
    ASSUME IInv, Break
    PROVE  IInv'
  <1>1. /\ TypeOK /\ logs \in Seq(Log) /\ phase = "run" /\ files = <<>> /\ GoodLogs(logs, NewObjects(txns))
        /\ UNCHANGED <<layout, txns, publication, files, cutoff>> /\ phase' = "broken"
    BY DEF IInv, TypeOK, Break, database
  <1>2. trouble' \in 0..MaxTrouble
    BY RecoveryBounds DEF Break, IInv, TypeOK
  <1>3. CASE UNCHANGED logs
    <2>1. slot' \in {slot, NoSlot}
      BY <1>3 DEF Break
    <2> QED
      BY <1>1, <1>2, <1>3, <2>1, MovesKeep DEF TypeOK
  <1>4. ASSUME NEW i \in Pending, logs' = [logs EXCEPT ![i].status = "lost"], UNCHANGED slot
        PROVE  IInv'
    <2>1. i \in DOMAIN logs /\ \A j \in DOMAIN logs : logs[j] \in Log
      BY <1>1 DEF Pending
    <2> DEFINE lost == [logs[i] EXCEPT !.status = "lost"]
    <2>2. /\ lost \in Log /\ lost.lines = logs[i].lines /\ lost.fake = logs[i].fake
          /\ lost.hi = logs[i].hi /\ lost.status = "lost"
      BY <2>1 DEF Log
    <2>3. logs' = [logs EXCEPT ![i] = lost]
      BY <1>4
    <2> HIDE DEF lost
    <2>4. /\ logs' \in Seq(Log) /\ DOMAIN logs' = DOMAIN logs
          /\ \A j \in DOMAIN logs : logs'[j] = IF j = i THEN lost ELSE logs[j]
      BY <1>1, <2>1, <2>2, <2>3
    <2>5. Renamed(logs, logs')
      BY <2>2, <2>4 DEF Renamed
    <2>6. GoodLogs(logs', NewObjects(txns))
      BY <1>1, <2>5, RenamedLogs
    <2>7. TypeOK'
      BY <1>1, <1>2, <1>4, <2>4 DEF TypeOK, Phase
    <2>8. GoodFiles(files', logs', NewObjects(txns'))
      BY <1>1, NoFiles
    <2> QED
      BY <1>1, <2>6, <2>7, <2>8 DEF IInv
  <1> QED
    BY <1>3, <1>4 DEF Break

LEMMA FirstStepsKeep ==
    ASSUME IInv, StopWrites \/ DropSlot \/ DropSlotFails \/ DropPublication \/ CreatePublicationFails
    PROVE  IInv'
  <1>1. files' = <<>>
    BY DEF IInv, StopWrites, DropSlot, DropSlotFails, DropPublication, CreatePublicationFails
  <1>2. UNCHANGED <<layout, txns, logs, cutoff>> /\ slot' \in {slot, NoSlot}
    BY DEF StopWrites, DropSlot, DropSlotFails, DropPublication, CreatePublicationFails, database
  <1>3. publication' \in BOOLEAN /\ trouble' \in 0..MaxTrouble
    BY DEF IInv, TypeOK, StopWrites, DropSlot, DropSlotFails, DropPublication, CreatePublicationFails
  <1>4. phase' \in {"broken", "disable", "unpublish", "fake"}
    BY DEF StopWrites, DropSlot, DropSlotFails, DropPublication, CreatePublicationFails
  <1> QED
    BY <1>1, <1>2, <1>3, <1>4, MovesKeep

-----------------------------------------------------------------------------
(***************************************************************************)
(* fake-log.                                                               *)
(***************************************************************************)

LEMMA ImageIsFinite ==
    ASSUME NEW S, IsFiniteSet(S), NEW T, NEW f \in [S -> T]
    PROVE  IsFiniteSet({f[x] : x \in S})
  <1> DEFINE image == {f[x] : x \in S}
  <1>1. f \in Surjection(S, image)
    BY DEF Surjection
  <1> HIDE DEF image
  <1>2. IsFiniteSet(image)
    BY <1>1, FS_Surjection
  <1> QED
    BY <1>2 DEF image

\* The rows that a transaction has inserted.
RowsOf(txn) == {[obj |-> obj, stamp |-> txn.stamp] : obj \in Inserts(txn.ops)}

LEMMA RowsOfFinite ==
    ASSUME NEW txn \in Txn
    PROVE  IsFiniteSet(RowsOf(txn))
  <1> DEFINE ops  == txn.ops
             objs == [k \in DOMAIN ops |-> ops[k].obj]
             row  == [obj \in Inserts(ops) |-> [obj |-> obj, stamp |-> txn.stamp]]
  <1>1. ops \in Seq(TxnOp)
    BY DEF Txn
  <1>2. IsFiniteSet(DOMAIN ops)
    <2>1. DOMAIN ops = 1..Len(ops) /\ Len(ops) \in Nat
      BY <1>1
    <2> QED
      BY <2>1, FS_Interval
  <1>3. IsFiniteSet({objs[k] : k \in DOMAIN ops})
    <2>1. PICK D, T : D = DOMAIN ops /\ T = {ops[k].obj : k \in DOMAIN ops}
      OBVIOUS
    <2>2. objs \in [D -> T]
      BY <2>1
    <2> HIDE DEF objs, ops
    <2>3. IsFiniteSet(D)
      BY <1>2, <2>1
    <2>4. IsFiniteSet({objs[k] : k \in D})
      BY <2>2, <2>3, ImageIsFinite
    <2> QED
      BY <2>1, <2>4
  <1>4. Inserts(ops) \in SUBSET {objs[k] : k \in DOMAIN ops}
    BY DEF Inserts, Range
  <1> HIDE DEF objs
  <1>5. IsFiniteSet(Inserts(ops))
    BY <1>3, <1>4, FS_Subset
  <1>6. IsFiniteSet({row[obj] : obj \in Inserts(ops)})
    <2>1. row \in [Inserts(ops) -> {[obj |-> obj, stamp |-> txn.stamp] : obj \in Inserts(ops)}]
      OBVIOUS
    <2> HIDE DEF row, ops
    <2> QED
      BY <1>5, <2>1, ImageIsFinite
  <1>7. RowsOf(txn) = {row[obj] : obj \in Inserts(ops)}
    BY DEF RowsOf
  <1> QED
    BY <1>6, <1>7

\* The tables have a row for every object, and the time of its transaction.
LEMMA TablesAre ==
    ASSUME txns \in Seq(Txn), FreshTxns(txns)
    PROVE  /\ Tables \subseteq Entry
           /\ IsFiniteSet(Tables)
           /\ Distinct(Tables)
           /\ {row.obj : row \in Tables} = NewObjects(txns)
  <1> DEFINE n    == Len(txns)
             rows == [i \in 1..n |-> RowsOf(txns[i])]
  <1>1. n \in Nat /\ DOMAIN txns = 1..n /\ \A i \in 1..n : txns[i] \in Txn
    OBVIOUS
  <1> HIDE DEF n
  <1>2. Tables = UNION {RowsOf(txns[i]) : i \in 1..n}
    BY <1>1, InsertedIs DEF Tables, RowsOf
  <1>3. NewObjects(txns) \subseteq Objects
    BY InsertsTypes
  <1>4. \A i \in 1..n : Inserts(txns[i].ops) \subseteq Objects
    BY <1>1, <1>3 DEF NewObjects
  <1>5. ASSUME NEW i \in 1..n, NEW row \in RowsOf(txns[i])
        PROVE  row \in Entry /\ row.obj \in Inserts(txns[i].ops) /\ row.stamp = txns[i].stamp /\ row.obj \in Objects
    <2>1. PICK obj \in Inserts(txns[i].ops) : row = [obj |-> obj, stamp |-> txns[i].stamp]
      BY <1>5 DEF RowsOf
    <2>2. obj \in ObjectVersion /\ obj \in Objects
      BY <1>4, <2>1, ObjectsAssumption
    <2>3. txns[i].stamp \in Nat \ {0}
      BY <1>1, RecoveryBounds DEF Txn, Minute
    <2> QED
      BY <2>1, <2>2, <2>3 DEF Entry
  <1>6. IsFiniteSet(Tables)
    <2>1. \A i \in 1..n : IsFiniteSet(RowsOf(txns[i]))
      BY <1>1, RowsOfFinite
    <2>2. IsFiniteSet({rows[i] : i \in 1..n})
      <3>1. rows \in [1..n -> {RowsOf(txns[i]) : i \in 1..n}]
        OBVIOUS
      <3>2. IsFiniteSet(1..n)
        BY <1>1, FS_Interval
      <3> HIDE DEF rows
      <3> QED
        BY <3>1, <3>2, ImageIsFinite
    <2>3. \A T \in {rows[i] : i \in 1..n} : IsFiniteSet(T)
      BY <2>1
    <2>4. Tables = UNION {rows[i] : i \in 1..n}
      BY <1>2
    <2> HIDE DEF rows
    <2> QED
      BY <2>2, <2>3, <2>4, FS_UNION
  <1>7. Distinct(Tables)
    <2> SUFFICES ASSUME NEW i \in 1..n, NEW a \in RowsOf(txns[i]), NEW j \in 1..n, NEW b \in RowsOf(txns[j]),
                        Key(a.obj) = Key(b.obj)
                 PROVE  a = b
      BY <1>2 DEF Distinct
    <2>1. a.obj = b.obj
      BY <1>5, ObjectsAssumption
    <2>2. i = j
      BY <1>1, <1>5, <2>1 DEF FreshTxns
    <2> QED
      BY <1>5, <2>1, <2>2 DEF Entry
  <1>8. {row.obj : row \in Tables} \subseteq NewObjects(txns)
    BY <1>1, <1>2, <1>5 DEF NewObjects
  <1>9. NewObjects(txns) \subseteq {row.obj : row \in Tables}
    <2> SUFFICES ASSUME NEW i \in 1..n, NEW obj \in Inserts(txns[i].ops)
                 PROVE  \E row \in Tables : row.obj = obj
      BY <1>1 DEF NewObjects
    <2>1. [obj |-> obj, stamp |-> txns[i].stamp] \in RowsOf(txns[i])
      BY DEF RowsOf
    <2> QED
      BY <1>2, <2>1
  <1> QED
    BY <1>2, <1>5, <1>6, <1>7, <1>8, <1>9

\* The rows that fake-log reads are in no log, and are all that are in none:
\* of those since the timestamp, or of all if it is not too late.
LEMMA FakeLogFinds ==
    ASSUME IInv, NEW timestamp \in Minute, NEW done \in SUBSET Kept, ChooseLogs(timestamp, done),
           NEW c, c = timestamp \/ ~TooLate(timestamp)
    PROVE  LET rows == ReadObjects(Tables, timestamp, ObjectsDone({logs[i].lines : i \in done}))
               objs == {row.obj : row \in rows}
           IN  /\ rows \in SUBSET Entry /\ IsFiniteSet(rows) /\ Distinct(rows)
               /\ objs \cap InLogs(logs) = {}
               /\ objs \subseteq NewObjects(txns)
               /\ Since(txns, c, Len(txns)) \subseteq InLogs(logs) \cup objs
  <1> DEFINE keys == ObjectsDone({logs[i].lines : i \in done})
             rows == ReadObjects(Tables, timestamp, keys)
             objs == {row.obj : row \in rows}
  <1>1. /\ logs \in Seq(Log) /\ txns \in Seq(Txn) /\ FreshTxns(txns) /\ GoodLogs(logs, NewObjects(txns))
        /\ LoggedObjects = InLogs(logs)
    BY LoggedIs DEF IInv, TypeOK
  <1>2. /\ Tables \subseteq Entry /\ IsFiniteSet(Tables) /\ Distinct(Tables)
        /\ {row.obj : row \in Tables} = NewObjects(txns) /\ NewObjects(txns) \subseteq Objects
    BY <1>1, TablesAre, InsertsTypes
  <1>3. \A i \in DOMAIN logs : Range(ReadLog(logs[i].lines)) = Objs(logs[i])
    BY <1>1, LogTypes
  <1>4. done \subseteq DOMAIN logs /\ \A i \in done : logs[i].status # "lost"
    BY DEF Kept
  <1>5. \A key : key \in keys <=> \E i \in done : \E obj \in Objs(logs[i]) : key = Key(obj)
    BY <1>3, <1>4 DEF ObjectsDone
  <1>6. \A row \in Tables : row \in rows <=> row.stamp >= timestamp /\ Key(row.obj) \notin keys
    BY DEF ReadObjects
  <1>7. rows \in SUBSET Tables
    BY DEF ReadObjects
  <1> HIDE DEF keys, rows
  <1>8. /\ c = timestamp \/ \A row \in Tables : row.obj \notin InLogs(logs) => ~(row.stamp < timestamp)
        /\ \A i \in Kept \ done : \A row \in Tables : row.obj \in Objs(logs[i]) => row.stamp < timestamp
    <2>1. \A i \in Kept : i \in DOMAIN logs
      BY DEF Kept
    <2> QED
      BY <1>1, <1>3, <2>1 DEF ChooseLogs, TooLate
  <1>9. timestamp \in Int /\ \A row \in Tables : row.stamp \in Int
    BY <1>2 DEF Entry, Minute
  <1>10. \A i \in done : Objs(logs[i]) \subseteq InLogs(logs) /\ Objs(logs[i]) \subseteq Objects
    BY <1>1, <1>2, <1>4 DEF InLogs, GoodLogs, GoodLog
  <1>11. objs \cap InLogs(logs) = {}
    <2> SUFFICES ASSUME NEW row \in rows, row.obj \in InLogs(logs) PROVE FALSE
      OBVIOUS
    <2>1. row \in Tables /\ row.stamp >= timestamp /\ Key(row.obj) \notin keys
      BY <1>6, <1>7
    <2>2. PICK i \in DOMAIN logs : logs[i].status # "lost" /\ row.obj \in Objs(logs[i])
      BY DEF InLogs
    <2>3. i \in Kept /\ i \notin done
      BY <1>5, <2>1, <2>2 DEF Kept
    <2>4. row.stamp < timestamp
      BY <1>8, <2>1, <2>2, <2>3
    <2> QED
      BY <1>9, <2>1, <2>4
  <1>12. objs \subseteq NewObjects(txns)
    BY <1>2, <1>7
  <1>13. Since(txns, c, Len(txns)) \subseteq InLogs(logs) \cup objs
    <2> SUFFICES ASSUME NEW k \in 1..Len(txns), txns[k].stamp >= c, NEW obj \in Inserts(txns[k].ops),
                        obj \notin InLogs(logs)
                 PROVE  \E row \in rows : row.obj = obj
      BY DEF Since
    <2> DEFINE row == [obj |-> obj, stamp |-> txns[k].stamp]
    <2>0. row \in Tables /\ row.obj = obj /\ row.stamp = txns[k].stamp
      BY <1>1, InsertedIs DEF Tables
    <2> HIDE DEF row
    <2>1. row.stamp >= timestamp
      BY <1>8, <1>9, <2>0
    <2>2. ASSUME Key(row.obj) \in keys PROVE FALSE
      <3>1. PICK i \in done : \E old \in Objs(logs[i]) : Key(row.obj) = Key(old)
        BY <1>5, <2>2
      <3>2. PICK old \in Objs(logs[i]) : Key(row.obj) = Key(old)
        BY <3>1
      <3>3. row.obj \in Objects /\ old \in Objects /\ old \in InLogs(logs)
        BY <1>2, <1>10, <2>0
      <3>4. row.obj = old
        BY <3>2, <3>3, ObjectsAssumption
      <3> QED
        BY <2>0, <3>3, <3>4
    <2> QED
      BY <1>6, <2>0, <2>1, <2>2
  <1>14. IsFiniteSet(rows) /\ Distinct(rows) /\ rows \in SUBSET Entry
    <2>1. IsFiniteSet(rows)
      BY <1>2, <1>7, FS_Subset
    <2> QED
      BY <1>2, <1>7, <2>1 DEF Distinct
  <1> QED
    BY <1>11, <1>12, <1>13, <1>14 DEF rows, keys

LEMMA FakeLogKeeps ==
    ASSUME IInv, FakeLog
    PROVE  IInv'
  <1>1. /\ TypeOK /\ logs \in Seq(Log) /\ txns \in Seq(Txn) /\ files = <<>>
        /\ UNCHANGED <<layout, txns, slot, publication, logs>>
    BY DEF IInv, TypeOK, FakeLog, database
  <1>2. PICK timestamp \in Minute, done \in SUBSET Kept :
           /\ ChooseTimestamp(timestamp)
           /\ ChooseLogs(timestamp, done)
           /\ LET rows == ReadObjects(Tables, timestamp, ObjectsDone({logs[i].lines : i \in done}))
              IN  IF rows = {} THEN phase' = "diff" /\ files' = <<>>
                               ELSE phase' = "write" /\ files' = LogFiles(Entries(rows))
    BY DEF FakeLog
  <1> DEFINE rows == ReadObjects(Tables, timestamp, ObjectsDone({logs[i].lines : i \in done}))
             objs == {row.obj : row \in rows}
  <1>3. /\ rows \in SUBSET Entry /\ IsFiniteSet(rows) /\ Distinct(rows)
        /\ objs \cap InLogs(logs) = {}
        /\ objs \subseteq NewObjects(txns)
        /\ Since(txns, cutoff', Len(txns)) \subseteq InLogs(logs) \cup objs
    <2>1. cutoff' = timestamp \/ ~TooLate(timestamp)
      BY <1>2 DEF ChooseTimestamp
    <2> QED
      BY <1>2, <2>1, FakeLogFinds
  <1>4. \/ rows = {} /\ phase' = "diff" /\ files' = <<>>
        \/ rows # {} /\ phase' = "write" /\ files' = LogFiles(Entries(rows))
    BY <1>2
  <1>7. cutoff' \in Minute \cup {1} /\ trouble' \in 0..MaxTrouble
    <2>1. trouble \in 0..MaxTrouble /\ MaxTrouble \in Nat
      BY <1>1, RecoveryBounds DEF TypeOK
    <2> QED
      BY <1>2, <2>1 DEF ChooseTimestamp
  <1> HIDE DEF rows
  <1>5. CASE rows = {} /\ phase' = "diff" /\ files' = <<>>
    <2>1. Since(txns, cutoff', Len(txns)) \subseteq InLogs(logs)
      BY <1>3, <1>5
    <2>2. TypeOK'
      BY <1>1, <1>5, <1>7 DEF TypeOK, Phase
    <2>3. GoodFiles(files', logs', NewObjects(txns'))
      BY <1>5, NoFiles
    <2> QED
      BY <1>1, <1>5, <2>1, <2>2, <2>3 DEF IInv
  <1>6. CASE rows # {} /\ phase' = "write" /\ files' = LogFiles(Entries(rows))
    <2>1. PICK entries : entries = Entries(rows)
      OBVIOUS
    <2>2. /\ entries \in Seq(Entry) /\ Range(entries) = rows
          /\ \A i, j \in DOMAIN entries : entries[i].obj = entries[j].obj => i = j
      BY <1>3, <2>1, EntriesSorts
    <2>3. entries # <<>>
      BY <1>6, <2>2 DEF Range
    <2>4. /\ files' \in Seq(Seq(Line))
          /\ \A i \in DOMAIN files' : NewsFile(files'[i])
          /\ AllOnce(files')
          /\ FilesObjects(files') = {entry.obj : entry \in Range(entries)}
      BY <1>6, <2>1, <2>2, <2>3, LogFilesHold
    <2>5. FilesObjects(files') = objs
      BY <2>2, <2>4
    <2>6. TypeOK'
      BY <1>1, <1>6, <1>7, <2>4 DEF TypeOK, Phase
    <2>7. GoodFiles(files', logs', NewObjects(txns'))
      BY <1>1, <1>3, <2>4, <2>5 DEF GoodFiles
    <2>8. Since(txns, cutoff', Len(txns)) \subseteq InLogs(logs) \cup FilesObjects(files')
      BY <1>3, <2>5
    <2> QED
      BY <1>1, <1>6, <2>6, <2>7, <2>8 DEF IInv
  <1> QED
    BY <1>4, <1>5, <1>6

\* The next file is a log then, with the objects of that minute.
LEMMA FakeLogWriteKeeps ==
    ASSUME IInv, FakeLogWrite
    PROVE  IInv'
  <1> DEFINE lines == Head(files)
             rest  == Tail(files)
             log   == LogFile(lines, TRUE, 0)
             n     == Len(files)
             real  == NewObjects(txns)
  <1>1. /\ TypeOK /\ logs \in Seq(Log) /\ files \in Seq(Seq(Line)) /\ files # <<>>
        /\ GoodLogs(logs, real) /\ GoodFiles(files, logs, real)
        /\ phase = "write" /\ logs' = Append(logs, log) /\ files' = rest
        /\ UNCHANGED <<layout, txns, slot, publication, phase, trouble, cutoff>>
        /\ Since(txns, cutoff, Len(txns)) \subseteq InLogs(logs) \cup FilesObjects(files)
    BY DEF IInv, TypeOK, FakeLogWrite, database
  <1>2. /\ n \in Nat /\ n > 0 /\ DOMAIN files = 1..n /\ lines = files[1] /\ lines \in Seq(Line)
        /\ rest \in Seq(Seq(Line)) /\ Len(rest) = n - 1 /\ DOMAIN rest = 1..(n - 1)
        /\ \A k \in 1..(n - 1) : rest[k] = files[k + 1]
    BY <1>1
  <1> HIDE DEF lines, rest, n
  <1>3. /\ 1 \in 1..n
        /\ \A k \in 1..(n - 1) : k + 1 \in 1..n /\ k + 1 # 1
        /\ \A k \in 1..n : k = 1 \/ (k - 1 \in 1..(n - 1) /\ (k - 1) + 1 = k)
        /\ \A k, j \in 1..(n - 1) : k # j => k + 1 # j + 1
    BY <1>2
  <1>4. /\ NewsFile(lines) /\ OnceIn(lines)
        /\ \A k \in 1..(n - 1) : NewsFile(rest[k]) /\ ObjectsIn(rest[k]) \cap ObjectsIn(lines) = {}
    BY <1>1, <1>2, <1>3 DEF GoodFiles, AllOnce
  <1>5. AllOnce(rest)
    <2>1. AllOnce(files)
      BY <1>1 DEF GoodFiles
    <2>2. \A k \in 1..(n - 1) : OnceIn(rest[k])
      BY <1>2, <1>3, <2>1 DEF AllOnce
    <2>3. ASSUME NEW k \in 1..(n - 1), NEW j \in 1..(n - 1), k # j
          PROVE  ObjectsIn(rest[k]) \cap ObjectsIn(rest[j]) = {}
      <3>1. PICK a \in 1..n, b \in 1..n : a = k + 1 /\ b = j + 1 /\ a # b
        BY <1>3, <2>3
      <3>2. rest[k] = files[a] /\ rest[j] = files[b]
        BY <1>2, <3>1
      <3>3. ObjectsIn(files[a]) \cap ObjectsIn(files[b]) = {}
        BY <1>2, <2>1, <3>1 DEF AllOnce
      <3> QED
        BY <3>2, <3>3
    <2> QED
      BY <1>2, <2>2, <2>3 DEF AllOnce
  <1>6. FilesObjects(files) = ObjectsIn(lines) \cup FilesObjects(rest)
    <2>1. ObjectsIn(lines) \subseteq FilesObjects(files)
      BY <1>2, <1>3 DEF FilesObjects
    <2>2. FilesObjects(rest) \subseteq FilesObjects(files)
      BY <1>2, <1>3 DEF FilesObjects
    <2>3. FilesObjects(files) \subseteq ObjectsIn(lines) \cup FilesObjects(rest)
      <3> SUFFICES ASSUME NEW k \in 1..n, NEW obj \in ObjectsIn(files[k])
                   PROVE  obj \in ObjectsIn(lines) \cup FilesObjects(rest)
        BY <1>2 DEF FilesObjects
      <3>1. CASE k = 1
        BY <1>2, <3>1
      <3>2. CASE k # 1
        <4>1. k - 1 \in 1..(n - 1) /\ rest[k - 1] = files[k]
          BY <1>2, <1>3, <3>2
        <4> QED
          BY <1>2, <4>1 DEF FilesObjects
      <3> QED
        BY <3>1, <3>2
    <2> QED
      BY <2>1, <2>2, <2>3
  <1>7. FilesObjects(rest) \cap ObjectsIn(lines) = {}
    BY <1>2, <1>4 DEF FilesObjects
  <1>8. /\ log \in Log /\ log.status = "log" /\ log.fake = TRUE /\ Objs(log) = ObjectsIn(lines)
        /\ log.lines = lines
    BY <1>2, RecoveryBounds DEF Log, LogFile, LSN, Objs
  <1> HIDE DEF log
  <1>9. GoodLog(log, real)
    <2>1. ObjectsIn(lines) \subseteq real
      BY <1>1, <1>6 DEF GoodFiles
    <2>2. ObjectsIn(lines) # {}
      <3>1. lines \in Seq(Line) /\ lines # <<>>
        BY <1>2, <1>4 DEF NewsFile
      <3>2. DOMAIN lines # {}
        BY <3>1
      <3> QED
        BY <1>4, <3>2 DEF NewsFile, ObjectsIn
    <2> QED
      BY <1>4, <1>8, <2>1, <2>2 DEF GoodLog
  <1>10. Objs(log) \cap InLogs(logs) = {}
    BY <1>1, <1>6, <1>8 DEF GoodFiles
  <1>11. /\ logs' \in Seq(Log) /\ GoodLogs(logs', real)
         /\ InLogs(logs') = InLogs(logs) \cup ObjectsIn(lines)
    <2> HIDE DEF real
    <2> QED
      BY <1>1, <1>8, <1>9, <1>10, OneLogMore
  <1>12. GoodFiles(files', logs', real)
    BY <1>1, <1>2, <1>4, <1>5, <1>6, <1>7, <1>11 DEF GoodFiles
  <1>13. TypeOK'
    BY <1>1, <1>2, <1>11 DEF TypeOK
  <1>14. Since(txns, cutoff, Len(txns)) \subseteq InLogs(logs') \cup FilesObjects(files')
    BY <1>1, <1>6, <1>11
  <1> QED
    BY <1>1, <1>11, <1>12, <1>13, <1>14 DEF IInv

LEMMA FakeLogEndKeeps ==
    ASSUME IInv, FakeLogEnd
    PROVE  IInv'
  <1>1. /\ TypeOK /\ phase = "write" /\ files = <<>> /\ phase' = "diff"
        /\ UNCHANGED <<layout, txns, slot, publication, logs, files, trouble, cutoff>>
    BY DEF IInv, FakeLogEnd, database
  <1>2. Since(txns, cutoff, Len(txns)) \subseteq InLogs(logs)
    BY <1>1, NoFiles DEF IInv
  <1>3. TypeOK'
    BY <1>1 DEF TypeOK, Phase
  <1> QED
    BY <1>1, <1>2, <1>3 DEF IInv

LEMMA FakeLogKilledKeeps ==
    ASSUME IInv, FakeLogKilled
    PROVE  IInv'
  <1>1. /\ UNCHANGED <<layout, txns, logs, slot, publication, cutoff>> /\ files' = <<>> /\ phase' = "fake"
    BY DEF FakeLogKilled, database
  <1>2. trouble' \in 0..MaxTrouble
    BY RecoveryBounds DEF FakeLogKilled, IInv, TypeOK
  <1>3. publication' \in BOOLEAN
    BY <1>1 DEF IInv, TypeOK
  <1> QED
    BY <1>1, <1>2, <1>3, MovesKeep

-----------------------------------------------------------------------------
(***************************************************************************)
(* The end of the procedure.                                               *)
(***************************************************************************)

LEMMA PublishKeeps ==
    ASSUME IInv, PublishFakeLogs
    PROVE  IInv'
  <1>1. /\ TypeOK /\ logs \in Seq(Log) /\ phase = "diff" /\ phase' = "enable" /\ files = <<>>
        /\ GoodLogs(logs, NewObjects(txns)) /\ Since(txns, cutoff, Len(txns)) \subseteq InLogs(logs)
        /\ UNCHANGED <<layout, txns, slot, publication, files, trouble, cutoff>>
    BY DEF IInv, TypeOK, PublishFakeLogs, database
  <1>2. /\ Renamed(logs, logs')
        /\ \A i \in DOMAIN logs : logs'[i].status # "log"
        /\ \A i \in DOMAIN logs : logs'[i].status = "lost" => logs[i].status = "lost"
    BY CreateDiffRetires DEF PublishFakeLogs
  <1>3. GoodLogs(logs', NewObjects(txns)) /\ InLogs(logs') = InLogs(logs)
    BY <1>1, <1>2, RenamedLogs
  <1>4. logs' \in Seq(Log) /\ DOMAIN logs' = DOMAIN logs
    BY <1>2 DEF Renamed
  <1>5. TypeOK'
    BY <1>1, <1>4 DEF TypeOK, Phase
  <1>6. GoodFiles(files', logs', NewObjects(txns'))
    BY <1>1, NoFiles
  <1> QED
    BY <1>1, <1>2, <1>3, <1>4, <1>5, <1>6 DEF IInv

\* enable-replication, and its death between its two transactions.
LEMMA EnableKeeps ==
    ASSUME IInv, CreatePublication \/ ReplicationKilled
    PROVE  IInv'
  <1>1. /\ TypeOK /\ files = <<>> /\ phase \in {"enable", "addslot", "unpublish"}
        /\ UNCHANGED <<layout, txns, slot, logs, files, cutoff>>
    BY DEF IInv, CreatePublication, ReplicationKilled, database
  <1>2. publication' \in BOOLEAN /\ trouble' \in 0..MaxTrouble
    <2>1. publication \in BOOLEAN /\ trouble \in 0..MaxTrouble /\ MaxTrouble \in Nat
      BY RecoveryBounds DEF IInv, TypeOK
    <2>2. CASE CreatePublication
      BY <2>1, <2>2 DEF CreatePublication
    <2>3. CASE ReplicationKilled
      BY <2>1, <2>3 DEF ReplicationKilled
    <2> QED
      BY <2>2, <2>3
  <1>3. CASE phase = "unpublish"
    <2>1. phase' = "disable"
      BY <1>3 DEF CreatePublication, ReplicationKilled
    <2> QED
      BY <1>1, <1>2, <2>1, MovesKeep
  <1>4. CASE phase \in {"enable", "addslot"}
    <2>1. phase' \in {"enable", "addslot"}
      BY <1>4 DEF CreatePublication, ReplicationKilled
    <2>2. TypeOK'
      BY <1>1, <1>2, <2>1 DEF TypeOK, Phase
    <2> QED
      BY <1>1, <1>4, <2>1, <2>2 DEF IInv
  <1> QED
    BY <1>1, <1>3, <1>4

\* The slot is past everything, and everything is in a log.
LEMMA CreateSlotKeeps ==
    ASSUME IInv, CreateSlot
    PROVE  IInv'
  <1>1. /\ TypeOK /\ txns \in Seq(Txn) /\ logs \in Seq(Log) /\ files = <<>> /\ phase = "addslot" /\ phase' = "run"
        /\ UNCHANGED <<layout, txns, publication, logs, files, trouble, cutoff>> /\ slot' = Len(txns)
        /\ Since(txns, cutoff, Len(txns)) \subseteq InLogs(logs) /\ \A i \in DOMAIN logs : logs[i].status # "log"
        /\ GoodLogs(logs, NewObjects(txns))
    BY DEF IInv, TypeOK, CreateSlot, database
  <1>2. Upto(txns, slot') = NewObjects(txns) /\ slot' \in Nat
    BY <1>1, UptoAll
  <1>3. InStep(logs, txns, slot', cutoff)
    BY <1>1, <1>2 DEF InStep, GoodLogs, GoodLog
  <1>4. TypeOK'
    BY <1>1, <1>2 DEF TypeOK, Phase
  <1> QED
    BY <1>1, <1>3, <1>4 DEF IInv

-----------------------------------------------------------------------------
(***************************************************************************)
(* The theorems.                                                           *)
(***************************************************************************)

LEMMA InitIInv == Init => IInv
  <1> SUFFICES ASSUME Init PROVE IInv
    OBVIOUS
  <1>1. /\ layout = [t \in Type |-> FirstLayout] /\ txns = <<>> /\ slot = 0 /\ publication = TRUE
        /\ logs = <<>> /\ phase = "run" /\ files = <<>> /\ cutoff = 1 /\ trouble = 0
    BY DEF Init
  <1>2. Len(<<>>) = 0 /\ DOMAIN <<>> = {} /\ <<>> \in Seq(Log) /\ <<>> \in Seq(Seq(Line)) /\ <<>> \in Seq(Txn)
    OBVIOUS
  <1>3. TypeOK
    BY <1>1, <1>2, RecoveryBounds, LayoutAssumption DEF TypeOK, LSN, NoSlot, Phase
  <1>4. FreshTxns(<<>>) /\ GoodLogs(<<>>, NewObjects(<<>>))
    BY <1>2 DEF FreshTxns, GoodLogs, Apart
  <1>5. InStep(<<>>, <<>>, 0, 1)
    <2>1. Since(<<>>, 1, 0) = {}
      BY <1>2, UptoAll, SinceUpto
    <2> QED
      BY <1>2, <2>1, UptoAll DEF InStep
  <1>6. GoodFiles(<<>>, <<>>, NewObjects(<<>>))
    BY NoFiles
  <1> QED
    BY <1>1, <1>2, <1>3, <1>4, <1>5, <1>6 DEF IInv

\* Each step, of the database, the script, the operator or what breaks, keeps
\* the invariant.
LEMMA NextIInv == IInv /\ [Next]_vars => IInv'
  <1> SUFFICES ASSUME IInv, [Next]_vars PROVE IInv'
    OBVIOUS
  <1>1. CASE Commit
    BY <1>1, CommitKeeps
  <1>2. CASE Migrate
    BY <1>2, MigrateKeeps
  <1>3. CASE Catchup
    BY <1>3, CatchupKeeps
  <1>4. CASE GetLog
    BY <1>4, GetLogKeeps
  <1>5. CASE CreateDiff
    BY <1>5, CreateDiffKeeps
  <1>6. CASE Break
    BY <1>6, BreakKeeps
  <1>7. CASE FakeLogKilled
    BY <1>7, FakeLogKilledKeeps
  <1>8. CASE ReplicationKilled \/ CreatePublication
    BY <1>8, EnableKeeps
  <1>9. CASE StopWrites \/ DropSlot \/ DropSlotFails \/ DropPublication \/ CreatePublicationFails
    BY <1>9, FirstStepsKeep
  <1>10. CASE FakeLog
    BY <1>10, FakeLogKeeps
  <1>11. CASE FakeLogWrite
    BY <1>11, FakeLogWriteKeeps
  <1>12. CASE FakeLogEnd
    BY <1>12, FakeLogEndKeeps
  <1>13. CASE PublishFakeLogs
    BY <1>13, PublishKeeps
  <1>14. CASE CreateSlot
    BY <1>14, CreateSlotKeeps
  <1>15. CASE UNCHANGED vars
    <2>1. UNCHANGED <<layout, txns, slot, publication, logs, phase, files, trouble, cutoff>>
      BY <1>15 DEF vars, database
    <2> QED
      BY <2>1 DEF IInv, TypeOK
  <1>16. CASE GetLogFails
    BY <1>15, <1>16 DEF GetLogFails
  <1> QED
    BY <1>1, <1>2, <1>3, <1>4, <1>5, <1>6, <1>7, <1>8, <1>9, <1>10, <1>11, <1>12, <1>13, <1>14,
       <1>15, <1>16 DEF Next, Procedure

\* The invariant holds in every state: the logs, the slot and a running
\* fake-log are in step with the database.
THEOREM Invariance == Spec => []IInv
  BY InitIInv, NextIInv, PTL DEF Spec

\* The types.
THEOREM TypeCorrect == Spec => []TypeOK
  <1>1. IInv => TypeOK
    BY DEF IInv
  <1> QED
    BY <1>1, Invariance, PTL

\* Whatever columns the tables have or had, get-log and fake-log write an
\* object version into a log only as it is in the database (the parser of
\* pgoutput finds the id, the version and the changeset of a row).
THEOREM LogsTellTheTruth == Spec => []OnlyRealObjects
  <1>1. IInv => OnlyRealObjects
    <2> SUFFICES ASSUME IInv, NEW i \in DOMAIN logs, NEW k \in News(i)
                 PROVE  logs[i].lines[k].obj \in Inserted
      BY DEF OnlyRealObjects
    <2>1. logs[i].lines[k].obj \in Objs(logs[i])
      BY DEF News, Objs, ObjectsIn, NewsIn
    <2> QED
      BY <2>1, InsertedIs DEF IInv, GoodLogs, GoodLog
  <1> QED
    BY <1>1, Invariance, PTL

\* Through every recovery, killed or not, an object version is in the logs
\* once, so that no diff repeats it (fake-log --log).
THEOREM NothingLoggedTwice == Spec => []LoggedOnce
  <1>1. IInv => LoggedOnce
    <2> SUFFICES ASSUME IInv, NEW i \in Kept, NEW j \in Kept, NEW k \in News(i), NEW m \in News(j),
                        logs[i].lines[k].obj = logs[j].lines[m].obj
                 PROVE  i = j /\ k = m
      BY DEF LoggedOnce
    <2>1. /\ i \in DOMAIN logs /\ j \in DOMAIN logs
          /\ logs[i].status # "lost" /\ logs[j].status # "lost"
      BY DEF Kept
    <2>2. Apart(logs) /\ OnceIn(logs[i].lines)
      BY <2>1 DEF IInv, GoodLogs, GoodLog
    <2>3. logs[i].lines[k].obj \in Objs(logs[i]) /\ logs[j].lines[m].obj \in Objs(logs[j])
      BY DEF News, Objs, ObjectsIn, NewsIn
    <2>4. i = j
      BY <2>1, <2>2, <2>3 DEF Apart
    <2>5. k \in NewsIn(logs[i].lines) /\ m \in NewsIn(logs[i].lines)
      BY <2>4 DEF News, NewsIn
    <2> QED
      BY <2>2, <2>4, <2>5 DEF OnceIn
  <1> QED
    BY <1>1, Invariance, PTL

\* When cron is on, what the slot is past is in a log that create-diff has
\* published or will: whatever has broken before, nothing is lost for good but
\* what is older than a --timestamp that was too late.
THEOREM RecoveredCompletely == Spec => []NothingMissing
  <1>1. IInv => NothingMissing
    <2> SUFFICES ASSUME IInv, phase = "run", NEW n \in 1..slot, txns[n].stamp >= cutoff,
                        NEW obj \in InsertedBy(txns[n])
                 PROVE  obj \in LoggedObjects
      BY DEF NothingMissing
    <2>1. InStep(logs, txns, slot, cutoff) /\ LoggedObjects = InLogs(logs)
      BY LoggedIs DEF IInv, TypeOK
    <2>2. obj \in Since(txns, cutoff, slot)
      BY InsertedIs DEF Since
    <2> QED
      BY <2>1, <2>2 DEF InStep
  <1> QED
    BY <1>1, Invariance, PTL

\* create-diff finds an object in every pending log, so it marks them all.
THEOREM PendingCanBeRetired == Spec => []PendingHasObjects
  <1>1. IInv => PendingHasObjects
    <2> SUFFICES ASSUME IInv, NEW i \in Pending PROVE ReadLog(logs[i].lines) # <<>>
      BY DEF PendingHasObjects
    <2>1. i \in DOMAIN logs /\ logs[i].status = "log"
      BY DEF Pending
    <2>2. logs \in Seq(Log) /\ GoodLog(logs[i], NewObjects(txns))
      BY <2>1 DEF IInv, TypeOK, GoodLogs
    <2>3. logs[i] \in Log
      BY <2>1, <2>2
    <2>4. Objs(logs[i]) # {}
      BY <2>1, <2>2 DEF GoodLog
    <2> QED
      BY <2>3, <2>4, LogTypes
  <1> QED
    BY <1>1, Invariance, PTL

\* A log of get-log is whole transactions: entries, and one line C for them.
THEOREM TransactionsAreWhole == Spec => []EveryCommitHasEntries
  <1>1. IInv => EveryCommitHasEntries
    <2> SUFFICES ASSUME IInv, NEW i \in DOMAIN logs, ~logs[i].fake
                 PROVE  /\ Last(logs[i].lines).action = "C"
                        /\ \A k \in DOMAIN logs[i].lines :
                              logs[i].lines[k].action = "C" => k > 1 /\ logs[i].lines[k - 1].action # "C"
      BY DEF EveryCommitHasEntries
    <2>1. logs[i].lines # <<>> /\ Ends(logs[i].lines, FALSE)
      BY DEF IInv, GoodLogs, GoodLog
    <2> QED
      BY <2>1 DEF Ends, Last
  <1> QED
    BY <1>1, Invariance, PTL

\* osmdbt-catchup finds no pending log of fake-log when cron is on.
THEOREM CronRunsAgain == Spec => []CronCanRun
  <1>1. IInv => CronCanRun
    BY DEF IInv, InStep, CronCanRun, Pending
  <1> QED
    BY <1>1, Invariance, PTL

=============================================================================
