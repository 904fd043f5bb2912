--------------------------------- MODULE Names ---------------------------------
(***************************************************************************)
(* The numbers that are the names of things: lsn_type, by which catchup    *)
(* finds the newest log, and State::path, by which a reader of the feed    *)
(* finds a diff.  The other modules take LSNs and sequence numbers as      *)
(* numbers; the theorems say why they may.                                 *)
(***************************************************************************)
EXTENDS Integers, Sequences, TLAPS

CONSTANT Half      \* one more than the largest half of an LSN, 2^32

(***************************************************************************)
(* lsn_type.  PostgreSQL writes an LSN as two hexadecimal numbers of up to *)
(* 32 bits each, without leading zeros.                                    *)
(***************************************************************************)

Word == 0..(Half - 1)

\* lsn_type::lsn_type: (upper_part << 32U) + lower_part, in 64 bits.
Lsn(upper, lower) == (upper * Half + lower) % (Half * Half)

Upper(lsn) == lsn \div Half
Lower(lsn) == lsn % Half

(***************************************************************************)
(* State::path: nine digits, a directory for each three.                   *)
(***************************************************************************)

Top(n)    == (n \div 1000) \div 1000
Middle(n) == (n \div 1000) % 1000
Low(n)    == n % 1000

SequenceNumber == {n \in Nat : n # 0 /\ Top(n) \in 0..999}

Dir1(n) == Top(n)
Dir2(n) == <<Top(n), Middle(n)>>
Path(n) == <<Top(n), Middle(n), Low(n)>>

\* The order in which a directory listing has two names of the same length.
Listed(p, q) ==
    \/ p[1] < q[1]
    \/ p[1] = q[1] /\ p[2] < q[2]
    \/ p[1] = q[1] /\ p[2] = q[2] /\ p[3] < q[3]

-----------------------------------------------------------------------------

\* Two halves fit into the number, nothing is cut off.
LEMMA LsnFits ==
    ASSUME Half \in Nat \ {0}, NEW upper \in Word, NEW lower \in Word
    PROVE  Lsn(upper, lower) = upper * Half + lower
  <1>1. upper * Half + lower \in 0..(Half * Half - 1)
    BY SMT DEF Word
  <1>2. \A size \in Nat \ {0} : \A x \in 0..(size - 1) : x % size = x
    BY SMT
  <1>3. Half * Half \in Nat \ {0}
    BY SMT
  <1> QED
    BY <1>1, <1>2, <1>3 DEF Lsn

\* What lsn_type has read from the name of a log is what str() passes to the
\* database: catchup advances to the very LSN that get-log has read.
THEOREM LsnRoundTrip ==
    ASSUME Half \in Nat \ {0}, NEW upper \in Word, NEW lower \in Word
    PROVE  /\ Upper(Lsn(upper, lower)) = upper
           /\ Lower(Lsn(upper, lower)) = lower
  <1>1. /\ (upper * Half + lower) \div Half = upper
        /\ (upper * Half + lower) % Half = lower
    BY SMT DEF Word
  <1> QED
    BY <1>1, LsnFits DEF Upper, Lower

\* A larger upper half makes a larger number, whatever the lower halves are.
LEMMA UpperDecides ==
    ASSUME Half \in Nat \ {0},
           NEW u \in Word, NEW l \in Word, NEW v \in Word, NEW m \in Word, u < v
    PROVE  u * Half + l < v * Half + m
  <1>1. PICK d \in Nat : v = u + 1 + d
    <2>1. v - u - 1 \in Nat /\ v = u + 1 + (v - u - 1)
      BY SMT DEF Word
    <2> QED
      BY <2>1
  <1>2. v * Half = u * Half + Half + d * Half
    BY <1>1, SMT DEF Word
  <1>3. d * Half \in Nat /\ u * Half \in Nat
    BY <1>1, SMT DEF Word
  <1> QED
    BY <1>2, <1>3, SMT DEF Word

\* operator< is PostgreSQL's order, by the halves as numbers; that of the
\* texts is another one.  So the largest LSN get_lsn finds is that of the log
\* that reaches furthest.
THEOREM LsnOrder ==
    ASSUME Half \in Nat \ {0},
           NEW u \in Word, NEW l \in Word, NEW v \in Word, NEW m \in Word
    PROVE  Lsn(u, l) < Lsn(v, m) <=> u < v \/ (u = v /\ l < m)
  <1>1. Lsn(u, l) = u * Half + l /\ Lsn(v, m) = v * Half + m
    BY LsnFits
  <1>2. u * Half + l \in Nat /\ v * Half + m \in Nat
    BY SMT DEF Word
  <1>3. CASE u < v
    BY <1>1, <1>3, UpperDecides
  <1>4. CASE u = v
    BY <1>1, <1>4, SMT DEF Word
  <1>5. CASE v < u
    <2>1. v * Half + m < u * Half + l
      BY <1>5, UpperDecides
    <2> QED
      BY <1>1, <1>2, <1>5, <2>1, SMT DEF Word
  <1> QED
    BY <1>3, <1>4, <1>5, SMT DEF Word

-----------------------------------------------------------------------------

\* Numbers compare by what is before the last three digits, then by these.
LEMMA LastDigits ==
    ASSUME NEW m \in Nat, NEW n \in Nat
    PROVE  /\ m \div 1000 \in Nat /\ n \div 1000 \in Nat
           /\ m < n <=> \/ m \div 1000 < n \div 1000
                        \/ m \div 1000 = n \div 1000 /\ m % 1000 < n % 1000
  <1>1. \A k \in Nat : /\ k = (k \div 1000) * 1000 + (k % 1000)
                       /\ k % 1000 \in 0..999
                       /\ k \div 1000 \in Nat
    BY SMT
  <1> QED
    BY <1>1, SMT

\* Their names sort in the order of their sequence numbers.
THEOREM PathsInOrder ==
    \A m, n \in SequenceNumber : m < n <=> Listed(Path(m), Path(n))
  <1> SUFFICES ASSUME NEW m \in SequenceNumber, NEW n \in SequenceNumber
               PROVE  m < n <=> Listed(Path(m), Path(n))
    OBVIOUS
  <1>1. Listed(Path(m), Path(n)) <=>
            \/ Top(m) < Top(n)
            \/ Top(m) = Top(n) /\ Middle(m) < Middle(n)
            \/ Top(m) = Top(n) /\ Middle(m) = Middle(n) /\ Low(m) < Low(n)
    BY DEF Listed, Path
  <1>2. m \in Nat /\ n \in Nat
    BY DEF SequenceNumber
  <1>3. m < n <=> \/ m \div 1000 < n \div 1000
                  \/ m \div 1000 = n \div 1000 /\ Low(m) < Low(n)
    BY <1>2, LastDigits DEF Low
  <1>4. m \div 1000 \in Nat /\ n \div 1000 \in Nat
    BY <1>2, LastDigits
  <1>5. m \div 1000 < n \div 1000
            <=> \/ Top(m) < Top(n)
                \/ Top(m) = Top(n) /\ Middle(m) < Middle(n)
    BY <1>4, LastDigits DEF Top, Middle
  <1>6. m \div 1000 = n \div 1000 <=> Top(m) = Top(n) /\ Middle(m) = Middle(n)
    BY <1>4, SMT DEF Top, Middle
  <1> QED
    BY <1>1, <1>3, <1>5, <1>6

\* Two diffs never have the same name.
THEOREM PathsDiffer ==
    \A m, n \in SequenceNumber : Path(m) = Path(n) => m = n
  <1> SUFFICES ASSUME NEW m \in SequenceNumber, NEW n \in SequenceNumber,
                      Path(m) = Path(n)
               PROVE  m = n
    OBVIOUS
  <1>1. m \in Nat /\ n \in Nat
    BY DEF SequenceNumber
  <1>2. m \div 1000 \in Nat /\ n \div 1000 \in Nat
    BY <1>1, LastDigits
  <1>3. /\ (m \div 1000) \div 1000 = (n \div 1000) \div 1000
        /\ (m \div 1000) % 1000 = (n \div 1000) % 1000
        /\ m % 1000 = n % 1000
    BY DEF Path, Top, Middle, Low
  <1>4. \A j, k \in Nat : j \div 1000 = k \div 1000 /\ j % 1000 = k % 1000 => j = k
    BY SMT
  <1> QED
    BY <1>1, <1>2, <1>3, <1>4

\* What is before the last three digits changes when they become zero.
LEMMA Carry ==
    ASSUME NEW n \in Nat, n # 0
    PROVE  /\ n % 1000 # 0 => (n - 1) \div 1000 = n \div 1000
           /\ n % 1000 = 0 => n \div 1000 # 0 /\ (n - 1) \div 1000 = n \div 1000 - 1
  BY SMT

\* create_directories makes a directory for every 1000th diff, and one at the
\* first level, whose entry only the last sync_dir makes durable, for every
\* 1000th of those.
THEOREM NewDirectories ==
    \A n \in SequenceNumber : n # 1 =>
        /\ Dir2(n) # Dir2(n - 1) <=> Low(n) = 0
        /\ Dir1(n) # Dir1(n - 1) <=> Low(n) = 0 /\ Middle(n) = 0
  <1> SUFFICES ASSUME NEW n \in SequenceNumber, n # 1
               PROVE  /\ Dir2(n) # Dir2(n - 1) <=> Low(n) = 0
                      /\ Dir1(n) # Dir1(n - 1) <=> Low(n) = 0 /\ Middle(n) = 0
    OBVIOUS
  <1>1. n \in Nat /\ n # 0 /\ n \div 1000 \in Nat
    BY LastDigits DEF SequenceNumber
  <1>2. Dir2(n) = Dir2(n - 1) <=> Top(n) = Top(n - 1) /\ Middle(n) = Middle(n - 1)
    BY DEF Dir2
  <1>3. CASE Low(n) # 0
    <2>1. (n - 1) \div 1000 = n \div 1000
      BY <1>1, <1>3, Carry DEF Low
    <2> QED
      BY <1>2, <1>3, <2>1 DEF Dir1, Top, Middle
  <1>4. CASE Low(n) = 0
    <2>1. n \div 1000 # 0 /\ (n - 1) \div 1000 = n \div 1000 - 1
      BY <1>1, <1>4, Carry DEF Low
    <2>2. CASE Middle(n) # 0
      <3>1. Top(n - 1) = Top(n)
        BY <1>1, <2>1, <2>2, Carry DEF Top, Middle
      <3>2. Middle(n - 1) # Middle(n)
        BY <1>1, <2>1, <2>2, SMT DEF Middle
      <3> QED
        BY <1>2, <1>4, <2>2, <3>1, <3>2 DEF Dir1
    <2>3. CASE Middle(n) = 0
      <3>1. Top(n - 1) = Top(n) - 1 /\ Top(n) \in Nat
        BY <1>1, <2>1, <2>3, Carry, LastDigits DEF Top, Middle
      <3>2. Top(n - 1) # Top(n)
        BY <3>1, SMT
      <3> QED
        BY <1>2, <1>4, <2>3, <3>2 DEF Dir1
    <2> QED
      BY <2>2, <2>3
  <1> QED
    BY <1>3, <1>4

=============================================================================
