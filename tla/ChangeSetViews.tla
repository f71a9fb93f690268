--------------------------- MODULE ChangeSetViews ---------------------------
(***************************************************************************)
(* The terms in which the proofs speak of a change set of the overlay:     *)
(* when it is sound, what it shows of a key at every depth of              *)
(* transactions, and what an operation does to what it shows.              *)
(***************************************************************************)
EXTENDS OverlayedChangeSet

Data == Seq(Bytes)

Sets == [tag : {"set"}, data : {d \in Data : WellCoded(d)}]

Appends == [tag : {"append"}, data : Data, current : Nat, materialized : Nat \cup {NoLength},
            parent : Nat \cup {NoParent}]

Entries == {RemoveEntry} \cup Sets \cup Appends

Linked(v) == v.tag = "append" /\ v.parent # NoParent

\* The elements of a list, and that there is a length in front of them
Elements(v) == SubSeq(v.data, compact_len(v.materialized) + 1, Len(v.data))

Formed(v) == v.data = Compact(v.materialized) \o Elements(v)

\* What a version shows
Shown(v) == as_option(materialize_in_place(v))

\* How many elements version i has, when the last one has c
Holds(V, c, i) ==
  IF i = Len(V) THEN c
  ELSE IF Linked(V[i + 1]) THEN V[i + 1].parent - compact_len(V[i].materialized)
  ELSE Len(Elements(V[i]))

Link(V, c, i) ==
  /\ Linked(V[i]) => /\ i > 1 /\ V[i - 1].tag = "append"
                     /\ V[i].parent - compact_len(V[i - 1].materialized) \in 0..Holds(V, c, i)
  /\ i < Len(V) /\ V[i].tag = "append" /\ ~ Linked(V[i + 1]) => Formed(V[i])

Links(V, c) == \A i \in 1..Len(V) : Link(V, c, i)

Chain(V) ==
  /\ V \in Seq(Entries)
  /\ V # <<>> => /\ Last(V).tag = "append" => Formed(Last(V))
                 /\ Links(V, Len(Elements(Last(V))))

\* The bytes of a list with one more element; what is no list is replaced.
More(d, e) ==
  IF extract_length(d) = NoLength THEN Compact(1) \o <<e>>
  ELSE Append(replace_length(d, extract_length(d), extract_length(d) + 1), e)

\* The bytes that a version shows, none when it removes the key
Plain(v) == IF Shown(v) = <<>> THEN <<>> ELSE Shown(v)[1]

Count(D, k, d) == Cardinality({i \in (d + 1)..Len(D) : k \in D[i]})

\* What a key shows: its last version, or what the backend has
Seen(V, b) == IF V = <<>> THEN b ELSE Shown(Last(V))

\* What it shows again when the transactions above a depth are rolled back
ValueOf(V, D, k, b, d) == Seen(Undone(V, Count(D, k, d)), b)

\* One version for each transaction that wrote the key, and at most one more
KeySound(V, D, k) == Chain(V) /\ (Len(V) = Count(D, k, 0) \/ Len(V) = Count(D, k, 0) + 1)

ChangeSets(K) == [changes : UNION {[S -> Seq(Entries)] : S \in SUBSET K}, dirty : Seq(SUBSET K),
                  client : Nat, mode : {"client", "runtime"}]

Sound(cs, K) ==
  /\ cs \in ChangeSets(K)
  /\ \A k \in K : KeySound(Versions(cs, k), cs.dirty, k)
  /\ \A k \in DOMAIN cs.changes : cs.changes[k] # <<>>

ValueIn(cs, k, b, d) == ValueOf(Versions(cs, k), cs.dirty, k, b, d)

\* Same depth and mode
Alongside(cs, ds) == Len(cs.dirty) = Len(ds.dirty) /\ cs.client = ds.client /\ cs.mode = ds.mode

\* At most what the keys of S show now is changed.
Alters(cs, ds, S, K) ==
  /\ Sound(ds, K) /\ Alongside(ds, cs)
  /\ \A k \in K : \A b : \A d \in 0..Len(cs.dirty) :
        k \notin S \/ d # Len(cs.dirty) => ValueIn(ds, k, b, d) = ValueIn(cs, k, b, d)

\* One key shows x now.
Puts(cs, ds, k, x, K) == Alters(cs, ds, {k}, K) /\ \A b : ValueIn(ds, k, b, Len(cs.dirty)) = x

\* The keys of S show no value now.
Removes(cs, ds, S, K) ==
  /\ Sound(ds, K) /\ Alongside(ds, cs)
  /\ \A k \in S : \A b : ValueIn(ds, k, b, Len(cs.dirty)) = <<>>
  /\ \A k \in K : \A b : \A d \in 0..Len(cs.dirty) :
        k \notin S \/ d # Len(cs.dirty) => ValueIn(ds, k, b, d) = ValueIn(cs, k, b, d)

\* "ds" is "cs" after reads.
Reads(cs, ds, K) ==
  /\ Sound(ds, K) /\ Alongside(ds, cs) /\ DOMAIN ds.changes = DOMAIN cs.changes
  /\ \A k \in K : \A b : \A d \in 0..Len(cs.dirty) : ValueIn(ds, k, b, d) = ValueIn(cs, k, b, d)

\* The keys of S are read.
ReadIn(cs, S) ==
  [changes |-> [k \in DOMAIN cs.changes |-> IF k \in S THEN Read(cs.changes[k]) ELSE cs.changes[k]],
   dirty |-> cs.dirty, client |-> cs.client, mode |-> cs.mode]

Starts(cs, ds, K) ==
  /\ Sound(ds, K) /\ Len(ds.dirty) = Len(cs.dirty) + 1 /\ ds.client = cs.client /\ ds.mode = cs.mode
  /\ \A k \in K : \A b : ValueIn(ds, k, b, Len(cs.dirty) + 1) = ValueIn(cs, k, b, Len(cs.dirty))
  /\ \A k \in K : \A b : \A d \in 0..Len(cs.dirty) : ValueIn(ds, k, b, d) = ValueIn(cs, k, b, d)

RollsBack(cs, ds, K) ==
  /\ Sound(ds, K) /\ Len(ds.dirty) = Len(cs.dirty) - 1 /\ ds.client = cs.client /\ ds.mode = cs.mode
  /\ \A k \in K : \A b : \A d \in 0..(Len(cs.dirty) - 1) : ValueIn(ds, k, b, d) = ValueIn(cs, k, b, d)

Commits(cs, ds, K) ==
  /\ Sound(ds, K) /\ Len(ds.dirty) = Len(cs.dirty) - 1 /\ ds.client = cs.client /\ ds.mode = cs.mode
  /\ \A k \in K : \A b : ValueIn(ds, k, b, Len(cs.dirty) - 1) = ValueIn(cs, k, b, Len(cs.dirty))
  /\ \A k \in K : \A b : \A d \in 0..(Len(cs.dirty) - 1) :
        d # Len(cs.dirty) - 1 => ValueIn(ds, k, b, d) = ValueIn(cs, k, b, d)

Remodes(cs, ds, K, c, m) ==
  /\ Sound(ds, K) /\ ds.dirty = cs.dirty /\ ds.changes = cs.changes /\ ds.client = c /\ ds.mode = m
  /\ \A k \in K : \A b : \A d \in 0..Len(cs.dirty) : ValueIn(ds, k, b, d) = ValueIn(cs, k, b, d)

\* A change set without changes, beside another one
Fresh(ds, K, n, c, m) ==
  /\ Sound(ds, K) /\ DOMAIN ds.changes = {} /\ Len(ds.dirty) = n /\ ds.client = c /\ ds.mode = m
  /\ \A k \in K : \A b : \A d \in 0..n : ValueIn(ds, k, b, d) = b

Exits(cs, ds, K) ==
  /\ Sound(ds, K) /\ Len(ds.dirty) = cs.client /\ ds.client = cs.client /\ ds.mode = "client"
  /\ \A k \in K : \A b : \A d \in 0..cs.client : ValueIn(ds, k, b, d) = ValueIn(cs, k, b, d)

\* What enter_runtime does, without what it leaves alone
Enters(cs, ds, K) ==
  /\ Sound(ds, K) /\ Len(ds.dirty) = Len(cs.dirty) /\ ds.client = Len(cs.dirty) /\ ds.mode = "runtime"
  /\ \A k \in K : \A b : \A d \in 0..Len(cs.dirty) : ValueIn(ds, k, b, d) = ValueIn(cs, k, b, d)

\* Cardinalities of finite sets
CountLaw ==
  /\ IsFiniteSet({}) /\ \A n \in Nat : IsFiniteSet(1..n)
  /\ \A S : IsFiniteSet(S) =>
       /\ Cardinality(S) \in Nat /\ (Cardinality(S) = 0 <=> S = {})
       /\ \A T \in SUBSET S : IsFiniteSet(T) /\ Cardinality(T) <= Cardinality(S)
       /\ \A x \in S : Cardinality(S \ {x}) = Cardinality(S) - 1
       /\ \A x : x \notin S => Cardinality(S \cup {x}) = Cardinality(S) + 1

=============================================================================
