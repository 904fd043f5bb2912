------------------------------ MODULE FeedProofs ------------------------------
(***************************************************************************)
(* Theorems about Feed, the promise of osmdbt as a whole, for every number *)
(* of changes.  Whatever implements Feed inherits them.                    *)
(***************************************************************************)
EXTENDS Feed, TLAPS

\* Every prefix of the feed is closed: a crash may leave any of them.
PrefixesClosed == \A n \in 0..Len(feed) : DownClosed(UpTo(n))

IInv ==
    /\ TypeOK
    /\ NothingLost
    /\ Published \subseteq kept
    /\ PrefixesClosed
    /\ Once

-----------------------------------------------------------------------------

\* Steps that leave the feed alone leave its prefixes alone.
LEMMA FeedUnchanged ==
    ASSUME UNCHANGED feed
    PROVE  /\ \A n : UpTo(n)' = UpTo(n)
           /\ Published' = Published
           /\ Once => Once'
  BY DEF UpTo, Published, Once

\* A new transaction is newer than everything in the feed.
LEMMA CommitStep == IInv /\ Commit => IInv'
  <1> SUFFICES ASSUME IInv, Commit PROVE IInv'
    OBVIOUS
  <1>1. PICK t \in Nat : (\A u \in committed : u < t) /\ committed' = committed \cup {t}
    BY DEF Commit
  <1>2. UNCHANGED <<forgotten, kept, feed, durable>>
    BY DEF Commit
  <1>3. TypeOK' /\ NothingLost'
    BY <1>1, <1>2 DEF IInv, TypeOK, NothingLost
  <1>4. (Published \subseteq kept)' /\ Once'
    BY <1>2, FeedUnchanged DEF IInv
  <1>5. PrefixesClosed'
    <2> SUFFICES ASSUME NEW n \in 0..Len(feed) PROVE DownClosed(UpTo(n))'
      BY <1>2 DEF PrefixesClosed
    <2>1. DownClosed(UpTo(n)) /\ UpTo(n)' = UpTo(n)
      BY <1>2, FeedUnchanged DEF IInv, PrefixesClosed
    <2>2. UpTo(n) \subseteq committed
      <3>1. Len(feed) \in Nat
        BY DEF IInv, TypeOK
      <3>2. UpTo(n) \subseteq Published
        BY <3>1 DEF UpTo, Published
      <3> QED
        BY <3>2 DEF IInv, TypeOK
    <2>3. committed \subseteq Nat /\ t \in Nat
      BY DEF IInv, TypeOK
    <2>4. ASSUME NEW x \in UpTo(n), NEW u \in committed \cup {t}, u < x PROVE u \in UpTo(n)
      <3>1. x < t /\ x \in Nat
        BY <1>1, <2>2, <2>3
      <3>2. u # t
        BY <2>3, <2>4, <3>1
      <3> QED
        BY <2>1, <2>4, <3>2 DEF DownClosed
    <2> QED
      BY <1>1, <2>1, <2>4 DEF DownClosed
  <1> QED
    BY <1>3, <1>4, <1>5 DEF IInv

\* Steps that leave the feed and the database's changes alone.
LEMMA QuietStep ==
    ASSUME IInv, UNCHANGED <<committed, feed>>, TypeOK', NothingLost', kept \subseteq kept'
    PROVE  IInv'
  <1>1. (Published \subseteq kept)' /\ Once'
    BY FeedUnchanged DEF IInv
  <1>2. PrefixesClosed'
    BY FeedUnchanged DEF IInv, PrefixesClosed, DownClosed
  <1> QED
    BY <1>1, <1>2 DEF IInv

\* Keeping, forgetting, settling and doing nothing.
LEMMA QuietSteps == IInv /\ (Keep \/ Forget \/ Settle \/ UNCHANGED vars) => IInv'
  <1> SUFFICES ASSUME IInv, Keep \/ Forget \/ Settle \/ UNCHANGED vars PROVE IInv'
    OBVIOUS
  <1>1. UNCHANGED <<committed, feed>> /\ kept \subseteq kept'
    BY DEF Keep, Forget, Settle, vars
  <1>2. Len(feed) \in Nat
    BY DEF IInv, TypeOK
  <1>3. TypeOK' /\ NothingLost'
    <2>1. CASE Keep \/ Forget
      BY <2>1 DEF IInv, TypeOK, NothingLost, Keep, Forget
    <2>2. CASE Settle
      BY <1>2, <2>2 DEF IInv, TypeOK, NothingLost, Settle
    <2>3. CASE UNCHANGED vars
      BY <2>3 DEF IInv, TypeOK, NothingLost, vars
    <2> QED
      BY <2>1, <2>2, <2>3
  <1> QED
    BY <1>1, <1>3, QuietStep

\* A new diff holds what no diff holds yet, and leaves nothing older behind.
LEMMA PublishStep == IInv /\ Publish => IInv'
  <1> SUFFICES ASSUME IInv, Publish PROVE IInv'
    OBVIOUS
  <1>1. PICK diff \in SUBSET kept : /\ diff \cap Published = {}
                                    /\ DownClosed(Published \cup diff)
                                    /\ feed' = Append(feed, diff)
    BY DEF Publish
  <1>2. durable' \in {durable, Len(feed')} /\ UNCHANGED <<committed, forgotten, kept>>
    BY DEF Publish
  <1>3. Len(feed) \in Nat /\ feed \in Seq(SUBSET Nat) /\ diff \in SUBSET Nat
    BY <1>1 DEF IInv, TypeOK
  <1>0. PICK last \in Nat : last = Len(feed) + 1
    BY <1>3
  <1>4. feed' \in Seq(SUBSET Nat)
    BY <1>1, <1>3
  <1>5. Len(feed') = last
    BY <1>0, <1>1, <1>3
  <1>6. feed'[last] = diff /\ \A i \in 1..Len(feed) : feed'[i] = feed[i]
    BY <1>0, <1>1, <1>3
  <1>7. TypeOK' /\ NothingLost'
    BY <1>0, <1>2, <1>3, <1>4, <1>5 DEF IInv, TypeOK, NothingLost
  <1>8. \A n \in 0..Len(feed) : UpTo(n)' = UpTo(n)
    BY <1>3, <1>6 DEF UpTo
  <1>9. UpTo(last)' = Published \cup diff
    <2>1. \A i \in 1..last : i \in 1..Len(feed) \/ i = last
      BY <1>0, <1>3
    <2>2. \A i \in 1..Len(feed) : i \in 1..last
      BY <1>0, <1>3
    <2>3. last \in 1..last
      BY <1>0, <1>3
    <2> QED
      BY <1>6, <2>1, <2>2, <2>3 DEF UpTo, Published
  <1>10. Published' = Published \cup diff
    BY <1>5, <1>9 DEF Published, UpTo
  <1>11. (Published \subseteq kept)'
    BY <1>2, <1>10 DEF IInv
  <1>12. PrefixesClosed'
    <2> SUFFICES ASSUME NEW n \in 0..last PROVE DownClosed(UpTo(n))'
      BY <1>5 DEF PrefixesClosed
    <2>1. CASE n \in 0..Len(feed)
      <3>1. DownClosed(UpTo(n)) /\ UpTo(n)' = UpTo(n)
        BY <1>8, <2>1 DEF IInv, PrefixesClosed
      <3> QED
        BY <1>2, <3>1 DEF DownClosed
    <2>2. CASE n = last
      <3>1. UpTo(n)' = Published \cup diff
        BY <1>9, <2>2
      <3> QED
        BY <1>1, <1>2, <3>1 DEF DownClosed
    <2> QED
      BY <1>0, <1>3, <2>1, <2>2
  <1>13. Once'
    <2>1. \A i \in 1..Len(feed) : diff \cap feed[i] = {}
      BY <1>1 DEF Published, UpTo
    <2>2. \A i \in 1..last : i \in 1..Len(feed) \/ i = last
      BY <1>0, <1>3
    <2> QED
      BY <1>5, <1>6, <2>1, <2>2 DEF IInv, Once
  <1> QED
    BY <1>7, <1>11, <1>12, <1>13 DEF IInv

\* A crash leaves a prefix of the feed, and what that prefix holds.
LEMMA CrashStep == IInv /\ Crash => IInv'
  <1> SUFFICES ASSUME IInv, Crash PROVE IInv'
    OBVIOUS
  <1>1. PICK m \in durable..Len(feed) :
          feed' = SubSeq(feed, 1, m) /\ durable' = m /\ UpTo(m) \subseteq kept'
    BY DEF Crash
  <1>2. forgotten \subseteq kept' /\ kept' \subseteq kept /\ UNCHANGED <<committed, forgotten>>
    BY DEF Crash
  <1>3. feed \in Seq(SUBSET Nat) /\ Len(feed) \in Nat /\ m \in 0..Len(feed)
    BY DEF IInv, TypeOK
  <1>4. feed' \in Seq(SUBSET Nat) /\ Len(feed') = m
    BY <1>1, <1>3
  <1>5. \A i \in 1..m : feed'[i] = feed[i]
    BY <1>1, <1>3
  <1>6. TypeOK' /\ NothingLost'
    BY <1>1, <1>2, <1>3, <1>4 DEF IInv, TypeOK, NothingLost
  <1>7. \A n \in 0..m : UpTo(n)' = UpTo(n)
    BY <1>3, <1>5 DEF UpTo
  <1>8. (Published \subseteq kept)'
    <2>1. Published' = UpTo(m)'
      BY <1>4 DEF Published, UpTo
    <2> QED
      BY <1>1, <1>3, <1>7, <2>1
  <1>9. PrefixesClosed'
    <2> SUFFICES ASSUME NEW n \in 0..m PROVE DownClosed(UpTo(n))'
      BY <1>4 DEF PrefixesClosed
    <2>1. DownClosed(UpTo(n)) /\ UpTo(n)' = UpTo(n)
      BY <1>3, <1>7 DEF IInv, PrefixesClosed
    <2> QED
      BY <1>2, <2>1 DEF DownClosed
  <1>10. Once'
    BY <1>3, <1>4, <1>5 DEF IInv, Once
  <1> QED
    BY <1>6, <1>8, <1>9, <1>10 DEF IInv

\* The inductive invariant holds in every reachable state.
THEOREM Invariance == Spec => []IInv
  <1>1. Init => IInv
    <2> SUFFICES ASSUME Init PROVE IInv
      OBVIOUS
    <2>1. Len(feed) = 0 /\ feed \in Seq(SUBSET Nat)
      BY DEF Init
    <2>2. UpTo(0) = {} /\ Published = {}
      BY <2>1 DEF UpTo, Published
    <2> QED
      BY <2>1, <2>2 DEF Init, IInv, TypeOK, NothingLost, PrefixesClosed, DownClosed, Once
  <1>2. IInv /\ [Next]_vars => IInv'
    BY CommitStep, QuietSteps, PublishStep, CrashStep DEF Next
  <1> QED
    BY <1>1, <1>2, PTL DEF Spec

\* The variables keep their types.
THEOREM TypeCorrect == Spec => []TypeOK
  <1>1. IInv => TypeOK
    BY DEF IInv
  <1> QED
    BY <1>1, Invariance, PTL

\* What the database has forgotten is kept: nothing is lost.
THEOREM FeedLosesNothing == Spec => []NothingLost
  <1>1. IInv => NothingLost
    BY DEF IInv
  <1> QED
    BY <1>1, Invariance, PTL

\* The feed has no gap, through any crash.
THEOREM FeedIsClosed == Spec => []NoGap
  <1>1. IInv => NoGap
    <2>1. TypeOK => Len(feed) \in 0..Len(feed)
      BY DEF TypeOK
    <2> QED
      BY <2>1 DEF IInv, PrefixesClosed, NoGap, Published
  <1> QED
    BY <1>1, Invariance, PTL

\* No change is in the feed twice.
THEOREM FeedHasNoDuplicates == Spec => []Once
  <1>1. IInv => Once
    BY DEF IInv
  <1> QED
    BY <1>1, Invariance, PTL

\* What has survived one crash, or was settled before it, is in the feed for
\* good: the settled part only grows, and no diff in it is changed.
THEOREM SettledIsForever == Spec => Forever
  <1> DEFINE Keeps == /\ durable <= durable'
                      /\ \A n \in 1..durable : n <= Len(feed') /\ feed'[n] = feed[n]
  <1>1. TypeOK /\ [Next]_vars => [Keeps]_vars
    <2> SUFFICES ASSUME TypeOK, Next PROVE Keeps
      OBVIOUS
    <2>1. durable \in Nat /\ Len(feed) \in Nat /\ durable <= Len(feed) /\ feed \in Seq(SUBSET Nat)
      BY DEF TypeOK
    <2>2. CASE Commit \/ Keep \/ Forget \/ Settle
      BY <2>1, <2>2 DEF Commit, Keep, Forget, Settle
    <2>3. CASE Publish
      <3>1. PICK diff \in SUBSET kept : feed' = Append(feed, diff)
        BY <2>3 DEF Publish
      <3>2. diff \in SUBSET Nat
        BY DEF TypeOK
      <3>3. Len(feed') = Len(feed) + 1 /\ \A n \in 1..Len(feed) : feed'[n] = feed[n]
        BY <2>1, <3>1, <3>2
      <3> QED
        BY <2>1, <2>3, <3>3 DEF Publish
    <2>4. CASE Crash
      <3>1. PICK m \in durable..Len(feed) : feed' = SubSeq(feed, 1, m) /\ durable' = m
        BY <2>4 DEF Crash
      <3>2. Len(feed') = m /\ \A n \in 1..m : feed'[n] = feed[n]
        BY <2>1, <3>1
      <3> QED
        BY <2>1, <3>1, <3>2
    <2> QED
      BY <2>2, <2>3, <2>4 DEF Next
  <1> QED
    BY <1>1, TypeCorrect, PTL DEF Spec, Forever

=============================================================================
