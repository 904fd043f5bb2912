------------------------------- MODULE DiffJoin -------------------------------
(***************************************************************************)
(* How create-diff puts an object of the diff together: process_nodes,     *)
(* process_ways and process_relations read the tags, the way nodes or      *)
(* relation members and the objects themselves with one query each, all    *)
(* ordered by id and version, and merge the results in one pass.  There is *)
(* a cursor on each detail list that is only ever moved past the details   *)
(* of the object at hand (add_tags, add_way_nodes, add_members).           *)
(*                                                                         *)
(* The queries run one after the other in a READ COMMITTED transaction: a  *)
(* redaction may be committed between two of them.                         *)
(*                                                                         *)
(* A key stands for an id and a version, in the order of the queries.  The *)
(* n-th tag of an object is n; `refs' are the nodes of a way or the        *)
(* members of a relation (a node has none).                                *)
(***************************************************************************)
EXTENDS Integers, Sequences, FiniteSets, SequencesExt

CONSTANTS
    MaxKey,      \* bound: object versions
    MaxTags,     \* bound: tags of an object version
    MaxRefs,     \* bound: nodes or members of an object version
    MayRepeat,   \* the logs read together may name an object version twice
    MayRedact    \* object versions may be redacted

ASSUME JoinBounds == MaxKey \in Nat /\ MaxTags \in Nat /\ MaxRefs \in Nat

VARIABLES
    tagsOf,      \* database: number of tags of each object version
    refsOf,      \* database: number of refs of each object version
    stampOf,     \* database: timestamp of each object version
    redacted,    \* database: the redacted object versions
    wanted,      \* how often each object version is in the logs
    query,       \* the next query, or the merge
    tags,        \* result of get_tags
    refs,        \* result of get_nodes or get_members
    rows,        \* result of the query for the objects, those not merged yet
    diff,        \* the objects written so far
    maxStamp     \* *max_timestamp

database == <<tagsOf, refsOf, stampOf, wanted>>
vars == <<database, redacted, query, tags, refs, rows, diff, maxStamp>>

Key     == 1..MaxKey
Stamps  == {1, 2}
Detail  == [key : Key, n : Nat]
Row     == [key : Key, stamp : Stamps, ignored : BOOLEAN]

InDiff  == Range(diff)

TypeOK ==
    /\ tagsOf \in [Key -> 0..MaxTags]
    /\ refsOf \in [Key -> 0..MaxRefs]
    /\ stampOf \in [Key -> Stamps]
    /\ redacted \subseteq Key
    /\ wanted \in [Key -> 0..2]
    /\ query \in {"tags", "refs", "rows", "merge"}
    /\ tags \in Seq(Detail)
    /\ refs \in Seq(Detail)
    /\ rows \in Seq(Row)
    /\ \A o \in InDiff : o.key \in Key /\ o.tags \in Seq(Nat) /\ o.refs \in Seq(Nat)
    /\ maxStamp \in {0} \cup Stamps

\* One of the object versions is the newest, whatever its place in the order.
Init ==
    /\ tagsOf \in [Key -> 0..MaxTags]
    /\ refsOf \in [Key -> 0..MaxRefs]
    /\ stampOf \in {[k \in Key |-> IF k = newest THEN 2 ELSE 1] : newest \in Key}
    /\ redacted = {}
    /\ wanted \in [Key -> 0..(IF MayRepeat THEN 2 ELSE 1)]
    /\ \E k \in Key : wanted[k] > 0
    /\ query = "tags"
    /\ tags = <<>>
    /\ refs = <<>>
    /\ rows = <<>>
    /\ diff = <<>>
    /\ maxStamp = 0

(***************************************************************************)
(* The queries: an INNER JOIN with the list of the wanted object versions  *)
(* has each of its rows as often as the object version is in that list.    *)
(***************************************************************************)

Times(n, x) == [i \in 1..n |-> x]

\* Rows made by Make(k) for each wanted k, in the order of the keys.
Joined(Make(_)) == FlattenSeq([k \in Key |-> Make(k)])

\* ORDER BY id, version, key or sequence_id: equal rows follow each other.
DetailsOf(count, k) ==
    FlattenSeq([n \in 1..count[k] |-> Times(wanted[k], [key |-> k, n |-> n])])

GetTags ==
    /\ query = "tags"
    /\ tags' = Joined(LAMBDA k : DetailsOf(tagsOf, k))
    /\ query' = "refs"
    /\ UNCHANGED <<database, redacted, refs, rows, diff, maxStamp>>

GetRefs ==
    /\ query = "refs"
    /\ refs' = Joined(LAMBDA k : DetailsOf(refsOf, k))
    /\ query' = "rows"
    /\ UNCHANGED <<database, redacted, tags, rows, diff, maxStamp>>

GetRows ==
    /\ query = "rows"
    /\ rows' = Joined(LAMBDA k : Times(wanted[k],
                  [key |-> k, stamp |-> stampOf[k], ignored |-> k \in redacted]))
    /\ query' = "merge"
    /\ UNCHANGED <<database, redacted, tags, refs, diff, maxStamp>>

(***************************************************************************)
(* The merge.  A cursor is modelled by what is left of its list.           *)
(***************************************************************************)

\* (mutated: at most one detail, an `if' instead of the loop)
RunLengthOne(details, k) ==
    IF details # <<>> /\ Head(details).key = k THEN 1 ELSE 0

\* How many details at the front belong to object version k.
RunLength(details, k) ==
    CHOOSE n \in 0..Len(details) :
        /\ \A i \in 1..n : details[i].key = k
        /\ n < Len(details) => details[n + 1].key # k

Numbers(details) == [i \in DOMAIN details |-> details[i].n]

\* (mutated: the timestamps are added up)
StampSum(stamp) == maxStamp + stamp

Newer(stamp) == IF stamp > maxStamp THEN stamp ELSE maxStamp

\* (mutated: the loop ends at the first redacted object version)
StopAtRedacted ==
    /\ query = "merge"
    /\ rows # <<>>
    /\ Head(rows).ignored
    /\ maxStamp' = Newer(Head(rows).stamp)
    /\ rows' = <<>>
    /\ UNCHANGED <<database, redacted, query, tags, refs, diff>>

\* A redacted object version is left out; its timestamp counts, its details
\* stay where they are.
SkipRedacted ==
    /\ query = "merge"
    /\ rows # <<>>
    /\ Head(rows).ignored
    /\ maxStamp' = Newer(Head(rows).stamp)
    /\ rows' = Tail(rows)
    /\ UNCHANGED <<database, redacted, query, tags, refs, diff>>

\* The object with the details at the cursors, which move past them.
AddObject ==
    /\ query = "merge"
    /\ rows # <<>>
    /\ ~Head(rows).ignored
    /\ LET k  == Head(rows).key
           nt == RunLength(tags, k)
           nr == RunLength(refs, k)
       IN  /\ diff' = Append(diff, [key  |-> k,
                                    tags |-> Numbers(SubSeq(tags, 1, nt)),
                                    refs |-> Numbers(SubSeq(refs, 1, nr))])
           /\ tags' = SubSeq(tags, nt + 1, Len(tags))
           /\ refs' = SubSeq(refs, nr + 1, Len(refs))
    /\ maxStamp' = Newer(Head(rows).stamp)
    /\ rows' = Tail(rows)
    /\ UNCHANGED <<database, redacted, query>>

\* Meanwhile a moderator redacts an object version in the database.
Redact(k) ==
    /\ MayRedact
    /\ query # "merge"
    /\ k \notin redacted
    /\ redacted' = redacted \cup {k}
    /\ UNCHANGED <<database, query, tags, refs, rows, diff, maxStamp>>

Next ==
    \/ GetTags \/ GetRefs \/ GetRows
    \/ SkipRedacted \/ AddObject
    \/ \E k \in Key : Redact(k)

Spec == Init /\ [][Next]_vars

(***************************************************************************)
(* Properties.                                                             *)
(***************************************************************************)

AllOf(count, k) == [n \in 1..count[k] |-> n]
Merged == query = "merge" /\ rows = <<>>

\* man osmdbt-create-diff: "The created change file will contain all the
\* nodes, ways, and relations": an object comes with all its tags, way nodes
\* or members, in their order.
DetailsComplete ==
    \A o \in InDiff : o.tags = AllOf(tagsOf, o.key) /\ o.refs = AllOf(refsOf, o.key)

\* A skipped object version with details is before k and blocks the cursor.
Behind(count, k) == \E b \in redacted : b < k /\ wanted[b] > 0 /\ count[b] > 0

\* Each detail of k as often as k is wanted.
Repeated(count, k) ==
    [i \in 1..(count[k] * wanted[k]) |-> (i + wanted[k] - 1) \div wanted[k]]

\* What can go wrong with the details of an object, and no more than that: the
\* details of a skipped object version block the cursor for all the objects
\* after it; of an object that is wanted twice the first copy takes the details
\* of both.  All others are complete.
CompleteUpToSkipped ==
    \A i \in DOMAIN diff :
        LET k     == diff[i].key
            first == \A j \in 1..(i - 1) : diff[j].key # k
        IN  /\ ~Behind(tagsOf, k) => diff[i].tags = IF first THEN Repeated(tagsOf, k) ELSE <<>>
            /\ ~Behind(refsOf, k) => diff[i].refs = IF first THEN Repeated(refsOf, k) ELSE <<>>

\* An object that is in the logs once is never described by halves: it has all
\* its tags or none, and all its refs or none.
AllOrNone ==
    \A o \in InDiff : wanted[o.key] = 1 =>
        /\ o.tags \in {<<>>, AllOf(tagsOf, o.key)}
        /\ o.refs \in {<<>>, AllOf(refsOf, o.key)}

\* When the merge is over, the diff has every wanted object version that was
\* not redacted when the objects were read, as often as it is in the logs, in
\* the order of the keys, and no other.
EveryObjectMerged ==
    Merged =>
        /\ \A k \in Key : Cardinality({o \in DOMAIN diff : diff[o].key = k})
                            = IF k \in redacted THEN 0 ELSE wanted[k]
        /\ \A i, j \in DOMAIN diff : i < j => diff[i].key <= diff[j].key

=============================================================================
