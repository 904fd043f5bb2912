--------------------------------- MODULE Feed ---------------------------------
(***************************************************************************)
(* What osmdbt as a whole promises, without commands, processes, logs and  *)
(* files: every change of the database goes into a feed of diffs, in the   *)
(* order of the commits, exactly once, and what is settled stays.          *)
(*                                                                         *)
(* A change is the number of its transaction.  The database may forget a   *)
(* change only when it is kept outside of it.  Pipeline implements this    *)
(* (ImplementsFeed there) as long as neither scripts overlap nor the       *)
(* database takes back what it has confirmed.                              *)
(***************************************************************************)
EXTENDS Integers, Sequences

VARIABLES
    committed,   \* the changes made in the database
    forgotten,   \* those the database need not deliver any more
    kept,        \* those that are kept outside of the database
    feed,        \* the diffs: a sequence of sets of changes
    durable      \* so many diffs survive a crash

vars == <<committed, forgotten, kept, feed, durable>>

\* The changes in the first n diffs.
UpTo(n)   == UNION {feed[i] : i \in 1..n}
Published == UpTo(Len(feed))

\* The set of changes c has every committed change that is older than one of it.
DownClosed(c) == \A t \in c, u \in committed : u < t => u \in c

TypeOK ==
    /\ committed \subseteq Nat
    /\ forgotten \subseteq committed
    /\ kept \subseteq committed
    /\ feed \in Seq(SUBSET Nat)
    /\ durable \in 0..Len(feed)

Init ==
    /\ committed = {}
    /\ forgotten = {}
    /\ kept = {}
    /\ feed = <<>>
    /\ durable = 0

Commit ==
    /\ \E t \in committed' \cap Nat :
          /\ \A u \in committed : u < t
          /\ committed' = committed \cup {t}
    /\ UNCHANGED <<forgotten, kept, feed, durable>>

Keep ==
    /\ kept \subseteq kept' /\ kept' \subseteq committed
    /\ UNCHANGED <<committed, forgotten, feed, durable>>

Forget ==
    /\ forgotten \subseteq forgotten' /\ forgotten' \subseteq kept
    /\ UNCHANGED <<committed, kept, feed, durable>>

\* The next diff: changes that are not in the feed, the oldest ones of those.
Publish ==
    /\ \E diff \in SUBSET kept :
          /\ diff \cap Published = {}
          /\ DownClosed(Published \cup diff)
          /\ feed' = Append(feed, diff)
    /\ durable' \in {durable, Len(feed')}
    /\ UNCHANGED <<committed, forgotten, kept>>

Settle ==
    /\ durable' \in durable..Len(feed)
    /\ UNCHANGED <<committed, forgotten, kept, feed>>

\* A crash takes back diffs that were not settled, and changes that are neither
\* forgotten nor published.
Crash ==
    /\ \E n \in durable..Len(feed) :
          /\ feed' = SubSeq(feed, 1, n)
          /\ durable' = n
          /\ UpTo(n) \subseteq kept'
    /\ forgotten \subseteq kept' /\ kept' \subseteq kept
    /\ UNCHANGED <<committed, forgotten>>

Next == Commit \/ Keep \/ Forget \/ Publish \/ Settle \/ Crash

Spec == Init /\ [][Next]_vars

(***************************************************************************)
(* What follows, proved in FeedProofs.                                     *)
(***************************************************************************)

\* What the database has forgotten is kept.
NothingLost == forgotten \subseteq kept

\* Readers of the feed never miss a change that is older than one they got.
NoGap == DownClosed(Published)

\* Readers of the feed get no change twice.
Once == \A m, n \in 1..Len(feed) : m # n => feed[m] \cap feed[n] = {}

\* A diff that survives a crash is never changed and never taken back.
Forever ==
    [][/\ durable <= durable'
       /\ \A n \in 1..durable : n <= Len(feed') /\ feed'[n] = feed[n]]_vars

=============================================================================
