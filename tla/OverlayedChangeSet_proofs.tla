----------------------- MODULE OverlayedChangeSet_proofs -----------------------
(***************************************************************************)
(* Facts about the versions of a key and the operations of a change set    *)
(* (OverlayedChangeSet), whatever lists are appended to and however        *)
(* transactions are nested.  The first part is about the versions of one   *)
(* key: what an entry shows, and how the data of a list is lent to the     *)
(* version above.  The second part is about all keys of a change set: each *)
(* operation keeps it sound (Sound), and does to what every key shows at   *)
(* every depth (ValueIn) what it does to a stack of copies.                *)
(***************************************************************************)
EXTENDS ChangeSetViews, WellFoundedInduction, TLAPS

(* Sequences with the same elements are the same. *)
LEMMA SeqEqual ==
  ASSUME NEW S, NEW s \in Seq(S), NEW t \in Seq(S), Len(s) = Len(t), \A i \in 1..Len(s) : s[i] = t[i]
  PROVE  s = t
OBVIOUS

-----------------------------------------------------------------------------
(* Sequences. *)

(* A sequence is its front and its last element. *)
LEMMA FrontLast ==
  ASSUME NEW S, NEW s \in Seq(S), s # <<>>
  PROVE  /\ Front(s) \in Seq(S) /\ Last(s) \in S
         /\ Len(s) \in Nat \ {0} /\ Len(Front(s)) = Len(s) - 1
         /\ s = Append(Front(s), Last(s))
<1>1. Len(s) \in Nat \ {0} /\ Front(s) \in Seq(S)  BY DEF Front
<1>2. Last(s) \in S  BY DEF Last
<1>3. s = Append(Front(s), Last(s))  BY DEF Front, Last
<1>4. Len(s) = Len(Front(s)) + 1 /\ Len(Front(s)) \in Nat
  <2> HIDE DEF Front, Last
  <2> QED  BY <1>1, <1>2, <1>3
<1> QED  BY <1>1, <1>2, <1>3, <1>4

(* An appended element is the last, and the sequence the front. *)
LEMMA FrontOfAppend ==
  ASSUME NEW S, NEW s \in Seq(S), NEW e \in S
  PROVE  /\ Append(s, e) \in Seq(S) /\ Append(s, e) # <<>>
         /\ Front(Append(s, e)) = s /\ Last(Append(s, e)) = e
         /\ Len(Append(s, e)) = Len(s) + 1 /\ Len(s) \in Nat
BY DEF Front, Last

(* A prefix that reaches into the second of two sequences. *)
LEMMA PrefixOfConcat ==
  ASSUME NEW S, NEW s \in Seq(S), NEW t \in Seq(S), NEW n \in 0..Len(t)
  PROVE  SubSeq(s \o t, 1, Len(s) + n) = s \o SubSeq(t, 1, n) /\ SubSeq(t, 1, n) \in Seq(S)
           /\ Len(SubSeq(t, 1, n)) = n
<1>1. SubSeq(s \o t, 1, Len(s) + n) = s \o SubSeq(t, 1, n)  OBVIOUS
<1>2. SubSeq(t, 1, n) \in Seq(S)  OBVIOUS
<1>3. Len(SubSeq(t, 1, n)) = n  OBVIOUS
<1> QED  BY <1>1, <1>2, <1>3

(* What follows the first of two sequences is the second. *)
LEMMA SuffixOfConcat ==
  ASSUME NEW S, NEW s \in Seq(S), NEW t \in Seq(S)
  PROVE  SubSeq(s \o t, Len(s) + 1, Len(s \o t)) = t /\ Len(s \o t) = Len(s) + Len(t)
           /\ s \o t \in Seq(S)
OBVIOUS

(* Appending to two sequences appends to the second. *)
LEMMA AppendToConcat ==
  ASSUME NEW S, NEW s \in Seq(S), NEW t \in Seq(S), NEW e \in S
  PROVE  Append(s \o t, e) = s \o Append(t, e)
OBVIOUS

(* A sequence is a prefix and what follows it. *)
LEMMA SplitAt ==
  ASSUME NEW S, NEW s \in Seq(S), NEW n \in 0..Len(s)
  PROVE  s = SubSeq(s, 1, n) \o SubSeq(s, n + 1, Len(s)) /\ SubSeq(s, n + 1, Len(s)) \in Seq(S)
           /\ Len(SubSeq(s, n + 1, Len(s))) = Len(s) - n
<1> DEFINE a == SubSeq(s, 1, n)
           b == SubSeq(s, n + 1, Len(s))
<1>a. a \in Seq(S) /\ Len(a) = n /\ (\A i \in 1..n : a[i] = s[i])  OBVIOUS
<1>b. b \in Seq(S) /\ Len(b) = Len(s) - n  OBVIOUS
<1>c. \A i \in 1..(Len(s) - n) : b[i] = s[n + i]  OBVIOUS
<1>1. s = a \o b
  <2> HIDE DEF a, b
  <2>a. a \o b \in Seq(S) /\ Len(a \o b) = Len(a) + Len(b)  BY Zenon, <1>a, <1>b, SuffixOfConcat
  <2>1. a \o b \in Seq(S) /\ Len(a \o b) = Len(s)  BY <1>a, <1>b, <2>a
  <2>2. \A i \in 1..n : (a \o b)[i] = s[i]  BY <1>a, <1>b
  <2>3. ASSUME NEW i \in (n + 1)..Len(s) PROVE (a \o b)[i] = s[i]
    <3>1. (a \o b)[i] = b[i - n]  BY <1>a, <1>b
    <3>2. b[i - n] = s[n + (i - n)]  BY <1>c
    <3>3. n + (i - n) = i  OBVIOUS
    <3> QED  BY Zenon, <3>1, <3>2, <3>3
  <2>4. ASSUME NEW i \in 1..Len(s) PROVE s[i] = (a \o b)[i]
    <3>0. i \in Nat /\ n \in Nat /\ Len(s) \in Nat /\ 1 <= i /\ i <= Len(s)  OBVIOUS
    <3>1. i \in 1..n \/ i \in (n + 1)..Len(s)  BY ONLY <3>0
    <3> QED  BY Zenon, <3>1, <2>2, <2>3
  <2>5. Len(s) = Len(a \o b)  BY <2>1
  <2> QED  BY Zenon, <2>1, <2>4, <2>5, SeqEqual
<1>2. SubSeq(s, n + 1, Len(s)) \in Seq(S)  OBVIOUS
<1>3. Len(SubSeq(s, n + 1, Len(s))) = Len(s) - n  OBVIOUS
<1> QED  BY Zenon, <1>1, <1>2, <1>3

(* A prefix of a prefix is a prefix. *)
LEMMA PrefixOfPrefix ==
  ASSUME NEW S, NEW s \in Seq(S), NEW m \in 0..Len(s), NEW n \in 0..m
  PROVE  SubSeq(SubSeq(s, 1, m), 1, n) = SubSeq(s, 1, n)
OBVIOUS

(* An appended element does not change the prefixes. *)
LEMMA PrefixOfAppend ==
  ASSUME NEW S, NEW s \in Seq(S), NEW n \in 0..Len(s), NEW e \in S
  PROVE  SubSeq(Append(s, e), 1, n) = SubSeq(s, 1, n)
OBVIOUS

-----------------------------------------------------------------------------
(* Entries. *)

(* The three variants of StorageEntry. *)
LEMMA EntryCases ==
  ASSUME NEW v \in Entries
  PROVE  /\ v.tag \in {"remove", "set", "append"}
         /\ v.tag = "remove" => v = RemoveEntry
         /\ v.tag = "set" => v \in Sets
         /\ v.tag = "append" => v \in Appends
BY DEF Entries, Sets, Appends, RemoveEntry

(* The encoding of a length has as many bytes as Compact::compact_len says. *)
LEMMA CompactIs ==
  ASSUME NEW n \in Nat \cup {NoLength}
  PROVE  /\ Compact(n) \in Data /\ compact_len(n) = Len(Compact(n)) /\ compact_len(n) \in Nat
         /\ n \in Nat => compact_len(n) > 0 /\ Compact(n)[1] = Byte("len", n)
<1>1. Byte("len", n) \in Bytes /\ Byte("more", n) \in Bytes  BY DEF Byte, Bytes, NoLength
<1>2. CASE n = NoLength  BY <1>2 DEF Compact, compact_len, Data, NoLength
<1>3. CASE n # NoLength /\ n < CompactLimit
  <2>1. Compact(n) = <<Byte("len", n)>>  BY <1>3 DEF Compact
  <2> QED  BY <1>1, <2>1 DEF compact_len, Data
<1>4. CASE n # NoLength /\ ~(n < CompactLimit)
  <2>1. Compact(n) = <<Byte("len", n), Byte("more", n)>>  BY <1>4 DEF Compact
  <2> QED  BY <1>1, <2>1 DEF compact_len, Data
<1> QED  BY <1>2, <1>3, <1>4

(* An entry made of a length and elements has those elements. *)
LEMMA MadeOf ==
  ASSUME NEW m \in Nat \cup {NoLength}, NEW es \in Data, NEW v,
         v.materialized = m, v.data = Compact(m) \o es
  PROVE  /\ Elements(v) = es /\ Formed(v) /\ v.data \in Data
         /\ Len(v.data) = compact_len(m) + Len(es)
<1>1. Compact(m) \in Data /\ compact_len(m) = Len(Compact(m))  BY CompactIs
<1>2. /\ SubSeq(Compact(m) \o es, Len(Compact(m)) + 1, Len(Compact(m) \o es)) = es
      /\ Len(Compact(m) \o es) = Len(Compact(m)) + Len(es) /\ Compact(m) \o es \in Data
  BY <1>1, SuffixOfConcat DEF Data
<1>3. Elements(v) = es  BY Zenon, <1>1, <1>2 DEF Elements
<1> QED  BY Zenon, <1>1, <1>2, <1>3 DEF Formed

(* The data of a list is the encoded length and the elements. *)
LEMMA FormedIs ==
  ASSUME NEW v \in Appends, Formed(v)
  PROVE  /\ Elements(v) \in Data /\ Len(Elements(v)) \in Nat
         /\ Len(v.data) = compact_len(v.materialized) + Len(Elements(v))
<1>1. v.data \in Data /\ v.materialized \in Nat \cup {NoLength}  BY DEF Appends
<1>2. /\ Compact(v.materialized) \in Data /\ compact_len(v.materialized) \in Nat
      /\ compact_len(v.materialized) = Len(Compact(v.materialized))
  BY Zenon, <1>1, CompactIs
<1>3. Elements(v) \in Data
  <2> DEFINE n == compact_len(v.materialized)
  <2> HIDE DEF n
  <2>1. SubSeq(v.data, n + 1, Len(v.data)) \in Data  BY <1>1, <1>2 DEF Data, n
  <2> QED  BY <2>1 DEF Elements, n
<1>4. Len(Compact(v.materialized) \o Elements(v)) = Len(Compact(v.materialized)) + Len(Elements(v))
  BY Zenon, <1>2, <1>3, SuffixOfConcat DEF Data
<1>5. Len(Elements(v)) \in Nat  BY <1>3 DEF Data
<1> QED  BY Zenon, <1>2, <1>3, <1>4, <1>5 DEF Formed

(* A list shows its elements behind their number, whatever length is in front of its     *)
(* data (materialize_in_place).                                                          *)
LEMMA ShownIs ==
  ASSUME NEW v \in Appends, Formed(v)
  PROVE  /\ Shown(v) = <<Compact(v.current) \o Elements(v)>>
         /\ materialize_in_place(v) \in Appends
         /\ materialize_in_place(v).current = v.current
         /\ materialize_in_place(v).parent = v.parent
         /\ Formed(materialize_in_place(v))
         /\ Elements(materialize_in_place(v)) = Elements(v)
<1>1. v.tag = "append"  BY DEF Appends
<1>2. CASE v.materialized # v.current
  <2> DEFINE d == replace_length(v.data, v.materialized, v.current)
             w == [v EXCEPT !.data = d, !.materialized = v.current]
  <2>1. materialize_in_place(v) = w
    BY <1>1, <1>2 DEF materialize_in_place, Appends
  <2>2. d = Compact(v.current) \o Elements(v)  BY DEF replace_length, Elements
  <2>3. v.current \in Nat \cup {NoLength} /\ Elements(v) \in Data
    BY FormedIs DEF Appends
  <2>4. w.data = d /\ w.materialized = v.current /\ w.current = v.current /\ w.parent = v.parent
        /\ w.tag = "append"
    BY <1>1 DEF Appends
  <2> HIDE DEF d
  <2>5. Elements(w) = Elements(v) /\ Formed(w) /\ d \in Data
    <3> HIDE DEF w
    <3>1. w.materialized = v.current /\ w.data = Compact(v.current) \o Elements(v)  BY Zenon, <2>2, <2>4
    <3> QED  BY Zenon, <3>1, <2>3, <2>4, MadeOf
  <2>6. w \in Appends  BY <2>5 DEF Appends
  <2> HIDE DEF w
  <2> QED  BY <2>1, <2>2, <2>4, <2>5, <2>6 DEF Shown, as_option
<1>3. CASE v.materialized = v.current
  <2>1. materialize_in_place(v) = v  BY <1>3 DEF materialize_in_place
  <2> QED  BY <1>1, <1>3, <2>1 DEF Shown, as_option, Formed
<1> QED  BY <1>2, <1>3

\* A list with other elements and another length in front of them
RestoredTo(p, m, es) == [p EXCEPT !.materialized = m, !.data = Compact(m) \o es]

(* What is given back to a parent is as many elements as it had (restore_append_to_parent). *)
LEMMA RestoredIs ==
  ASSUME NEW p \in Appends, NEW v \in Appends, Formed(v),
         NEW n \in 0..Len(Elements(v)), n = v.parent - compact_len(p.materialized)
  PROVE  /\ restore_append_to_parent(p, v.data, v.materialized, v.parent)
              = RestoredTo(p, v.materialized, SubSeq(Elements(v), 1, n))
         /\ SubSeq(Elements(v), 1, n) \in Data /\ Len(SubSeq(Elements(v), 1, n)) = n
<1> DEFINE c == compact_len(v.materialized)
           target == (v.parent + c) - compact_len(p.materialized)
           e == Elements(v)
<1>1. v.materialized \in Nat \cup {NoLength} /\ p.materialized \in Nat \cup {NoLength}
      /\ v.parent \in Int /\ v.data \in Data
  BY DEF Appends, NoParent
<1>2. c \in Nat /\ compact_len(p.materialized) \in Nat /\ Compact(v.materialized) \in Data
      /\ c = Len(Compact(v.materialized))
  BY Zenon, <1>1, CompactIs
<1>3. e \in Data /\ Len(e) \in Nat /\ Len(v.data) = c + Len(e)  BY Zenon, FormedIs
<1> HIDE DEF c, e
<1>4. target = c + n  BY <1>1, <1>2
<1>5. (IF target < Len(v.data) THEN target ELSE Len(v.data)) = c + n
  <2>1. n \in 0..Len(e)  BY DEF e
  <2> HIDE DEF target
  <2> QED  BY ONLY <2>1, <1>2, <1>3, <1>4
<1>6. v.data = Compact(v.materialized) \o e  BY DEF Formed, e
<1>7. SubSeq(v.data, 1, c + n) = Compact(v.materialized) \o SubSeq(e, 1, n)
      /\ SubSeq(e, 1, n) \in Data /\ Len(SubSeq(e, 1, n)) = n
  <2>1. n \in 0..Len(e)  BY DEF e
  <2> DEFINE a == Compact(v.materialized)
  <2>2. a \in Seq(Bytes) /\ e \in Seq(Bytes)  BY Zenon, <1>2, <1>3 DEF Data
  <2> HIDE DEF a
  <2>3. SubSeq(a \o e, 1, Len(a) + n) = a \o SubSeq(e, 1, n)
        /\ SubSeq(e, 1, n) \in Seq(Bytes) /\ Len(SubSeq(e, 1, n)) = n
    BY ONLY <2>1, <2>2, PrefixOfConcat
  <2> QED  BY Zenon, <2>3, <1>2, <1>6 DEF Data, a
<1>8. p.tag = "append"  BY DEF Appends
<1>9. restore_append_to_parent(p, v.data, v.materialized, v.parent)
        = [p EXCEPT !.materialized = v.materialized, !.data = SubSeq(v.data, 1, c + n)]
  BY Zenon, <1>5, <1>8 DEF restore_append_to_parent, c
<1> QED  BY Zenon, <1>7, <1>9 DEF e, RestoredTo

(* A list that gets its data back has a length and elements. *)
LEMMA RestoredFormed ==
  ASSUME NEW p \in Appends, NEW m \in Nat \cup {NoLength}, NEW es \in Data
  PROVE  LET q == RestoredTo(p, m, es)
         IN  /\ q \in Appends /\ Formed(q) /\ Elements(q) = es
             /\ q.current = p.current /\ q.parent = p.parent /\ q.materialized = m
<1> DEFINE q == RestoredTo(p, m, es)
<1>1. q.materialized = m /\ q.data = Compact(m) \o es /\ q.current = p.current
      /\ q.parent = p.parent /\ q.tag = "append"
  BY DEF Appends, RestoredTo
<1>2. Elements(q) = es /\ Formed(q) /\ Compact(m) \o es \in Data
  <2> HIDE DEF q
  <2> QED  BY Zenon, <1>1, MadeOf
<1>3. q \in Appends  BY Zenon, <1>2 DEF Appends, RestoredTo
<1> HIDE DEF q
<1> QED  BY Zenon, <1>1, <1>2, <1>3 DEF q

-----------------------------------------------------------------------------
(* Chains: a list that took its data from the version below, a list too, has at least    *)
(* the elements that are to go back.                                                     *)

\* How many elements go back from "v" to the last of the versions "below"
Owed(below, v) == v.parent - compact_len(Last(below).materialized)

(* The links of a sequence of versions, from those of what is below the last one. *)
LEMMA LinksOfAppend ==
  ASSUME NEW F \in Seq(Entries), NEW v \in Entries, NEW c
  PROVE  Links(Append(F, v), c) <=>
           IF Linked(v)
           THEN F # <<>> /\ Last(F).tag = "append" /\ Owed(F, v) \in 0..c /\ Links(F, Owed(F, v))
           ELSE Chain(F)
<1> DEFINE V == Append(F, v)
           n == Len(F)
           x == IF Linked(v) THEN Owed(F, v) ELSE Len(Elements(Last(F)))
<1>1. n \in Nat /\ Len(V) = n + 1 /\ V[n + 1] = v /\ \A i \in 1..n : V[i] = F[i]
  OBVIOUS
<1>2. F # <<>> => n > 0 /\ Last(F) = F[n]  BY DEF Last
<1>3. F = <<>> => n = 0 /\ ~(n > 0)  OBVIOUS
<1> HIDE DEF V, n, x
<1>4. ASSUME NEW i \in 1..n
      PROVE  Link(V, c, i) <=> /\ Link(F, x, i)
                               /\ i = n /\ F[n].tag = "append" /\ ~ Linked(v) => Formed(F[n])
  <2>1. V[i] = F[i] /\ i > 0 /\ i <= n /\ i # Len(V) /\ i < Len(V) /\ i \in Nat  BY <1>1
  <2>2. i > 1 => V[i - 1] = F[i - 1]  BY <1>1
  <2>3. CASE i = n
    <3>1. V[i + 1] = v  BY <1>1, <2>3
    <3>2. Last(F) = F[i]  BY <1>2, <1>3, <2>1, <2>3
    <3>3. Holds(V, c, i) = x  BY Zenon, <3>1, <3>2, <2>1 DEF Holds, x, Owed
    <3>4. Holds(F, x, i) = x  BY Zenon, <2>3 DEF Holds, n
    <3>5. ~(i < Len(F))  BY <2>1, <2>3 DEF n
    <3> QED  BY Zenon, <3>1, <3>3, <3>4, <3>5, <2>1, <2>2, <2>3 DEF Link
  <2>4. CASE i # n
    <3>1. V[i + 1] = F[i + 1] /\ i < n  BY <1>1, <2>1, <2>4
    <3>2. Holds(V, c, i) = Holds(F, x, i)  BY Zenon, <3>1, <2>1, <2>4 DEF Holds, n
    <3> QED  BY Zenon, <3>1, <3>2, <2>1, <2>2, <2>4 DEF Link, n
  <2> QED  BY <2>3, <2>4
<1>5. Link(V, c, n + 1) <=> (Linked(v) => n > 0 /\ F[n].tag = "append" /\ Owed(F, v) \in 0..c)
  <2>1. V[n + 1] = v /\ n + 1 = Len(V) /\ ~(n + 1 < Len(V))  BY <1>1
  <2>2. Holds(V, c, n + 1) = c  BY <2>1 DEF Holds
  <2>3. (n + 1) - 1 = n /\ (n + 1 > 1 <=> n > 0)  BY <1>1
  <2>4. CASE n > 0
    <3>1. V[n] = F[n] /\ Last(F) = F[n]  BY <1>1, <1>2, <1>3, <2>4
    <3> QED  BY Zenon, <2>1, <2>2, <2>3, <2>4, <3>1 DEF Link, Owed
  <2>5. CASE ~(n > 0)  BY Zenon, <2>1, <2>2, <2>3, <2>5 DEF Link
  <2> QED  BY <2>4, <2>5
<1>6. 1..Len(V) = 1..n \cup {n + 1}  BY <1>1
<1>7. Links(V, c) <=> (\A i \in 1..n : Link(V, c, i)) /\ Link(V, c, n + 1)
  BY Zenon, <1>6 DEF Links
<1>8. (\A i \in 1..n : Link(V, c, i)) <=>
        /\ Links(F, x)
        /\ n > 0 /\ F[n].tag = "append" /\ ~ Linked(v) => Formed(F[n])
  <2>1. n > 0 => n \in 1..n  BY <1>1
  <2>2. ~(n > 0) => 1..n = {}  BY <1>1
  <2> QED  BY Zenon, <1>4, <2>1, <2>2 DEF Links, n
<1>9. CASE Linked(v)
  <2>1. x = Owed(F, v)  BY <1>9 DEF x
  <2> QED  BY Zenon, <1>2, <1>3, <1>5, <1>7, <1>8, <1>9, <2>1 DEF V
<1>10. CASE ~ Linked(v)
  <2>1. x = Len(Elements(Last(F)))  BY <1>10 DEF x
  <2>2. n = 0 => 1..n = {}  BY <1>1
  <2>3. F = <<>> => Links(F, x)  BY Zenon, <2>2, <1>3 DEF Links, n
  <2>4. n > 0 \/ F = <<>>  BY <1>2
  <2> QED  BY Zenon, <1>2, <1>3, <1>5, <1>7, <1>8, <1>10, <2>1, <2>3, <2>4 DEF V, Chain
<1> QED  BY <1>9, <1>10

(* A version that is not linked, or one with the same link, on the same versions. *)
LEMMA ChainOfAppend ==
  ASSUME NEW F \in Seq(Entries), NEW v \in Entries
  PROVE  Chain(Append(F, v)) <=>
           /\ v.tag = "append" => Formed(v)
           /\ IF Linked(v)
              THEN /\ F # <<>> /\ Last(F).tag = "append" /\ Owed(F, v) \in 0..Len(Elements(v))
                   /\ Links(F, Owed(F, v))
              ELSE Chain(F)
<1>1. Append(F, v) \in Seq(Entries) /\ Append(F, v) # <<>> /\ Last(Append(F, v)) = v
  BY Zenon, FrontOfAppend
<1>2. Chain(Append(F, v)) <=> (v.tag = "append" => Formed(v)) /\ Links(Append(F, v), Len(Elements(v)))
  BY Zenon, <1>1 DEF Chain
<1> QED  BY Zenon, <1>2, LinksOfAppend

(* A version with the same parent_size keeps the links of the chain. *)
LEMMA SameLinks ==
  ASSUME NEW G \in Seq(Entries), NEW p \in Appends, NEW q \in Appends, p.parent = q.parent, NEW c
  PROVE  Links(Append(G, p), c) <=> Links(Append(G, q), c)
<1>1. p \in Entries /\ q \in Entries  BY Zenon DEF Entries
<1>2. Linked(p) <=> Linked(q)  BY DEF Linked, Appends
<1>3. Owed(G, p) = Owed(G, q)  BY Zenon DEF Owed
<1> QED  BY Zenon, <1>1, <1>2, <1>3, LinksOfAppend

(* Replacing the last element of a sequence. *)
LEMMA ReplaceLast ==
  ASSUME NEW S, NEW s \in Seq(S), NEW e \in S
  PROVE  \A x \in S : [Append(s, x) EXCEPT ![Len(Append(s, x))] = e] = Append(s, e)
<1> TAKE x \in S
<1> DEFINE t == [Append(s, x) EXCEPT ![Len(Append(s, x))] = e]
<1>1. Append(s, x) \in Seq(S) /\ Len(Append(s, x)) = Len(s) + 1 /\ Len(s) \in Nat  OBVIOUS
<1>2. Append(s, e) \in Seq(S) /\ Len(Append(s, e)) = Len(s) + 1  OBVIOUS
<1>3. /\ t \in Seq(S) /\ Len(t) = Len(s) + 1
      /\ \A j \in 1..(Len(s) + 1) : t[j] = IF j = Len(s) + 1 THEN e ELSE Append(s, x)[j]
  <2> DEFINE a == Append(s, x)
             n == Len(a)
  <2>1. a \in Seq(S) /\ n \in 1..Len(a)  BY <1>1
  <2> HIDE DEF a, n
  <2>2. /\ [a EXCEPT ![n] = e] \in Seq(S) /\ Len([a EXCEPT ![n] = e]) = Len(a)
        /\ \A j \in 1..Len(a) : [a EXCEPT ![n] = e][j] = IF j = n THEN e ELSE a[j]
    BY <2>1
  <2>3. n = Len(s) + 1 /\ Len(a) = Len(s) + 1 /\ t = [a EXCEPT ![n] = e] /\ a = Append(s, x)
    BY Zenon, <1>1 DEF a, n
  <2> HIDE DEF t
  <2> QED  BY Zenon, <2>2, <2>3
<1>4. \A i \in 1..(Len(s) + 1) : t[i] = Append(s, e)[i]
  <2> TAKE i \in 1..(Len(s) + 1)
  <2>1. CASE i = Len(s) + 1
    <3>1. t[i] = e  BY Zenon, <2>1, <1>3
    <3>2. Append(s, e)[i] = e  BY <2>1, <1>1
    <3> QED  BY Zenon, <3>1, <3>2
  <2>2. CASE i # Len(s) + 1
    <3>1. i \in 1..Len(s)  BY <2>2, <1>1
    <3>2. t[i] = Append(s, x)[i]  BY Zenon, <2>2, <1>3
    <3>3. Append(s, x)[i] = s[i] /\ Append(s, e)[i] = s[i]  BY <3>1
    <3> QED  BY Zenon, <3>2, <3>3
  <2> QED  BY <2>1, <2>2
<1> HIDE DEF t
<1> QED  BY Zenon, <1>2, <1>3, <1>4, SeqEqual DEF t

\* The last of the versions "below" when "v" gives its data back
Given(below, v) ==
  RestoredTo(Last(below), v.materialized, SubSeq(Elements(v), 1, Owed(below, v)))

(* The version below the last of a chain, once the data of the last is given back to it. *)
LEMMA GivenIs ==
  ASSUME NEW F \in Seq(Entries), NEW v \in Entries, Chain(Append(F, v)), Linked(v)
  PROVE  /\ F # <<>> /\ Front(F) \in Seq(Entries) /\ Last(F) \in Appends /\ v \in Appends
         /\ F = Append(Front(F), Last(F))
         /\ Given(F, v) \in Appends /\ Formed(Given(F, v))
         /\ Given(F, v).parent = Last(F).parent /\ Given(F, v).current = Last(F).current
         /\ Given(F, v).materialized = v.materialized
         /\ Elements(Given(F, v)) = SubSeq(Elements(v), 1, Owed(F, v))
         /\ Len(Elements(Given(F, v))) = Owed(F, v)
         /\ Owed(F, v) \in 0..Len(Elements(v)) /\ Elements(v) \in Data /\ Formed(v)
         /\ GivenBack(F, v) = Append(Front(F), Given(F, v))
         /\ Chain(GivenBack(F, v))
<1> DEFINE p == Last(F)
           o == Owed(F, v)
<1>1. /\ v.tag = "append" /\ Formed(v)
      /\ F # <<>> /\ p.tag = "append" /\ o \in 0..Len(Elements(v)) /\ Links(F, o)
  BY Zenon, ChainOfAppend DEF Linked
<1>2. Front(F) \in Seq(Entries) /\ p \in Entries /\ F = Append(Front(F), p)
  BY Zenon, <1>1, FrontLast
<1>3. p \in Appends /\ v \in Appends  BY Zenon, <1>1, <1>2, EntryCases
<1>4. o = v.parent - compact_len(p.materialized)  BY DEF Owed
<1> HIDE DEF p, o
<1>5. /\ restore_append_to_parent(p, v.data, v.materialized, v.parent)
           = RestoredTo(p, v.materialized, SubSeq(Elements(v), 1, o))
      /\ SubSeq(Elements(v), 1, o) \in Data /\ Len(SubSeq(Elements(v), 1, o)) = o
  BY Zenon, <1>1, <1>3, <1>4, RestoredIs
<1>6. Given(F, v) = restore_append_to_parent(p, v.data, v.materialized, v.parent)
  BY Zenon, <1>5 DEF Given, p, o
<1> DEFINE q == Given(F, v)
<1>7. v.materialized \in Nat \cup {NoLength}  BY <1>3 DEF Appends
<1>8. /\ q \in Appends /\ Formed(q) /\ Elements(q) = SubSeq(Elements(v), 1, o)
      /\ q.current = p.current /\ q.parent = p.parent /\ q.materialized = v.materialized
  <2> DEFINE es == SubSeq(Elements(v), 1, o)
  <2>1. es \in Data  BY Zenon, <1>5
  <2>2. q = RestoredTo(p, v.materialized, es)  BY Zenon, <1>5, <1>6
  <2> HIDE DEF q, es
  <2>3. LET r == RestoredTo(p, v.materialized, es)
        IN  /\ r \in Appends /\ Formed(r) /\ Elements(r) = es
            /\ r.current = p.current /\ r.parent = p.parent /\ r.materialized = v.materialized
    BY Zenon, <2>1, <1>3, <1>7, RestoredFormed
  <2> QED  BY Zenon, <2>2, <2>3 DEF es
<1>9. GivenBack(F, v) = [F EXCEPT ![Len(F)] = q]
  <2>1. ~(v.tag # "append" \/ v.parent = NoParent)  BY Zenon DEF Linked
  <2>2. GivenBack(F, v) = [F EXCEPT ![Len(F)] = restore_append_to_parent(F[Len(F)], v.data, v.materialized, v.parent)]
    BY Zenon, <2>1 DEF GivenBack
  <2>3. F[Len(F)] = p  BY Zenon DEF Last, p
  <2> QED  BY Zenon, <2>2, <2>3, <1>6
<1>10. q \in Entries  BY Zenon, <1>8 DEF Entries
<1>11. [F EXCEPT ![Len(F)] = q] = Append(Front(F), q)
  <2> HIDE DEF q
  <2>1. [Append(Front(F), p) EXCEPT ![Len(Append(Front(F), p))] = q] = Append(Front(F), q)
    BY <1>2, <1>10, ReplaceLast
  <2> QED  BY Zenon, <2>1, <1>2
<1>12. Chain(Append(Front(F), q))
  <2> HIDE DEF q
  <2>0. Links(Append(Front(F), p), o)  BY Zenon, <1>1, <1>2
  <2>1. Links(Append(Front(F), q), o)
    BY Zenon, <2>0, <1>2, <1>3, <1>8, SameLinks
  <2>2. Len(Elements(q)) = o  BY Zenon, <1>5, <1>8
  <2> QED  BY Zenon, <2>1, <2>2, <1>2, <1>8, <1>10, FrontOfAppend DEF Chain
<1>13. Elements(v) \in Data  BY Zenon, <1>1, <1>3, FormedIs
<1> QED  BY Zenon, <1>1, <1>2, <1>3, <1>5, <1>8, <1>9, <1>11, <1>12, <1>13 DEF p, o

(* Rolling back a version leaves a chain, one version shorter (close_transaction). *)
LEMMA RolledBackIs ==
  ASSUME NEW F \in Seq(Entries), NEW v \in Entries, Chain(Append(F, v))
  PROVE  /\ RolledBack(Append(F, v)) = GivenBack(F, v)
         /\ Chain(GivenBack(F, v)) /\ GivenBack(F, v) \in Seq(Entries)
         /\ Len(GivenBack(F, v)) = Len(F)
         /\ ~ Linked(v) => GivenBack(F, v) = F
<1>1. RolledBack(Append(F, v)) = GivenBack(F, v)
  BY Zenon, FrontOfAppend DEF RolledBack
<1>2. CASE Linked(v)
  <2>1. /\ F # <<>> /\ Front(F) \in Seq(Entries) /\ F = Append(Front(F), Last(F))
        /\ Given(F, v) \in Appends /\ Last(F) \in Appends
        /\ GivenBack(F, v) = Append(Front(F), Given(F, v)) /\ Chain(GivenBack(F, v))
    BY Zenon, <1>2, GivenIs
  <2>2. Given(F, v) \in Entries /\ Last(F) \in Entries  BY Zenon, <2>1 DEF Entries
  <2>3. Len(Append(Front(F), Given(F, v))) = Len(Append(Front(F), Last(F)))
    BY <2>1, <2>2, FrontOfAppend
  <2>4. Len(GivenBack(F, v)) = Len(F)  BY Zenon, <2>1, <2>3
  <2> QED  BY Zenon, <1>1, <1>2, <2>1, <2>4 DEF Chain
<1>3. CASE ~ Linked(v)
  <2>1. GivenBack(F, v) = F  BY Zenon, <1>3 DEF GivenBack, Linked
  <2>2. Chain(F)  BY Zenon, <1>3, ChainOfAppend
  <2> QED  BY Zenon, <1>1, <1>3, <2>1, <2>2
<1> QED  BY <1>2, <1>3

(* The same, of versions that are not taken apart. *)
LEMMA RolledBackOf ==
  ASSUME NEW V, Chain(V), V # <<>>
  PROVE  /\ Front(V) \in Seq(Entries) /\ Last(V) \in Entries /\ V = Append(Front(V), Last(V))
         /\ RolledBack(V) = GivenBack(Front(V), Last(V))
         /\ Chain(RolledBack(V)) /\ RolledBack(V) \in Seq(Entries)
         /\ Len(RolledBack(V)) = Len(V) - 1 /\ Len(V) \in Nat \ {0}
<1>1. V \in Seq(Entries)  BY Zenon DEF Chain
<1>2. /\ Front(V) \in Seq(Entries) /\ Last(V) \in Entries /\ V = Append(Front(V), Last(V))
      /\ Len(Front(V)) = Len(V) - 1 /\ Len(V) \in Nat \ {0}
  BY Zenon, <1>1, FrontLast
<1>3. Chain(Append(Front(V), Last(V)))  BY Zenon, <1>2
<1>4. /\ RolledBack(Append(Front(V), Last(V))) = GivenBack(Front(V), Last(V))
      /\ Chain(GivenBack(Front(V), Last(V))) /\ GivenBack(Front(V), Last(V)) \in Seq(Entries)
      /\ Len(GivenBack(Front(V), Last(V))) = Len(Front(V))
  BY Zenon, <1>2, <1>3, RolledBackIs
<1> QED  BY Zenon, <1>2, <1>4

\* What an operation does to the versions of a key: one more is there when "more" holds,
\* and without the last one they are what they were, or what they were without theirs.
Changed(V, W, more) ==
  /\ Chain(W) /\ W # <<>>
  /\ RolledBack(W) = IF more \/ V = <<>> THEN V ELSE RolledBack(V)
  /\ Len(W) = IF more \/ V = <<>> THEN Len(V) + 1 ELSE Len(V)

(* A version that is not linked, on top of a chain. *)
LEMMA OnTop ==
  ASSUME NEW U, Chain(U), NEW v \in Entries, ~ Linked(v), v.tag = "append" => Formed(v)
  PROVE  /\ Chain(Append(U, v)) /\ RolledBack(Append(U, v)) = U /\ Last(Append(U, v)) = v
         /\ Append(U, v) # <<>> /\ Len(Append(U, v)) = Len(U) + 1
<1>1. U \in Seq(Entries)  BY Zenon DEF Chain
<1>2. Chain(Append(U, v))  BY Zenon, <1>1, ChainOfAppend
<1>3. RolledBack(Append(U, v)) = U  BY Zenon, <1>1, <1>2, RolledBackIs
<1> QED  BY Zenon, <1>1, <1>2, <1>3, FrontOfAppend

(* OverlayedEntry::set *)
LEMMA SetIs ==
  ASSUME NEW V, Chain(V), NEW v \in Entries, v.tag # "append", NEW first
  PROVE  Changed(V, entry_set(V, v, first), first) /\ Last(entry_set(V, v, first)) = v
<1>1. ~ Linked(v)  BY Zenon DEF Linked
<1>2. CASE first \/ V = <<>>
  <2>1. entry_set(V, v, first) = Append(V, v)  BY Zenon, <1>2 DEF entry_set
  <2> QED  BY Zenon, <1>1, <1>2, <2>1, OnTop DEF Changed
<1>3. CASE ~(first \/ V = <<>>)
  <2>1. entry_set(V, v, first) = Append(GivenBack(Front(V), Last(V)), v)
    BY Zenon, <1>3 DEF entry_set
  <2>2. /\ RolledBack(V) = GivenBack(Front(V), Last(V)) /\ Chain(RolledBack(V))
        /\ Len(RolledBack(V)) = Len(V) - 1 /\ Len(V) \in Nat \ {0}
    BY Zenon, <1>3, RolledBackOf
  <2>3. entry_set(V, v, first) = Append(RolledBack(V), v)  BY Zenon, <2>1, <2>2
  <2>4. /\ Chain(Append(RolledBack(V), v)) /\ RolledBack(Append(RolledBack(V), v)) = RolledBack(V)
        /\ Last(Append(RolledBack(V), v)) = v /\ Append(RolledBack(V), v) # <<>>
        /\ Len(Append(RolledBack(V), v)) = Len(RolledBack(V)) + 1
    BY Zenon, <1>1, <2>2, OnTop
  <2>5. Len(Append(RolledBack(V), v)) = Len(V)  BY <2>2, <2>4
  <2> QED  BY Zenon, <1>3, <2>3, <2>4, <2>5 DEF Changed
<1> QED  BY <1>2, <1>3

(* A first append to a value makes a list that shows the longer value. *)
LEMMA AppendedToIs ==
  ASSUME NEW d, WellCoded(d), NEW e \in Bytes
  PROVE  /\ AppendedTo(d, e) \in Appends /\ AppendedTo(d, e) \in Entries
         /\ Formed(AppendedTo(d, e)) /\ ~ Linked(AppendedTo(d, e))
         /\ Shown(AppendedTo(d, e)) = <<More(d, e)>>
<1> DEFINE v == AppendedTo(d, e)
           n == extract_length(d)
<1>1. d \in Data  BY Zenon DEF WellCoded, Data
<1>2. CASE n = NoLength
  <2>1. v = [tag |-> "append", data |-> <<e>>, current |-> 1, materialized |-> NoLength,
             parent |-> NoParent]
    BY Zenon, <1>2 DEF AppendedTo, Appended
  <2>2. <<e>> \in Data  BY DEF Data
  <2>3. Compact(NoLength) \o <<e>> = <<e>>  BY DEF Compact
  <2>4. v \in Appends /\ v.materialized = NoLength /\ v.data = Compact(NoLength) \o <<e>>
        /\ v.parent = NoParent /\ v.current = 1
    BY <2>1, <2>2, <2>3 DEF Appends
  <2> HIDE DEF v, n
  <2>5. Elements(v) = <<e>> /\ Formed(v)  BY Zenon, <2>2, <2>4, MadeOf
  <2>6. Shown(v) = <<Compact(1) \o <<e>>>>  BY Zenon, <2>4, <2>5, ShownIs
  <2> QED  BY Zenon, <1>2, <2>4, <2>5, <2>6 DEF v, n, More, Linked, Entries
<1>3. CASE n # NoLength
  <2> DEFINE c == compact_len(n)
             rest == SubSeq(d, c + 1, Len(d))
  <2>1. n \in Nat /\ c <= Len(d) /\ SubSeq(d, 1, c) = Compact(n)
    BY Zenon, <1>3 DEF WellCoded
  <2>2. c \in Nat /\ Compact(n) \in Data  BY Zenon, <2>1, CompactIs
  <2>3. c \in 0..Len(d)  BY <2>1, <2>2, <1>1 DEF Data
  <2> HIDE DEF c
  <2>4. d = SubSeq(d, 1, c) \o rest /\ rest \in Data
    BY Zenon, <2>3, <1>1, SplitAt DEF Data
  <2>5. v = [tag |-> "append", data |-> Append(d, e), current |-> n + 1, materialized |-> n,
             parent |-> NoParent]
    BY Zenon, <1>3 DEF AppendedTo, Appended
  <2> HIDE DEF rest, n, v
  <2>6. Append(rest, e) \in Data /\ Append(d, e) \in Data  BY <2>4, <1>1 DEF Data
  <2>7. Append(d, e) = Compact(n) \o Append(rest, e)
    <3>1. d = Compact(n) \o rest  BY Zenon, <2>1, <2>4
    <3> DEFINE a == Compact(n)
    <3>2. a \in Seq(Bytes) /\ rest \in Seq(Bytes)  BY Zenon, <2>2, <2>4 DEF Data
    <3> HIDE DEF a
    <3>3. Append(a \o rest, e) = a \o Append(rest, e)  BY ONLY <3>2, e \in Bytes
    <3> QED  BY Zenon, <3>1, <3>3 DEF a
  <2>8. v \in Appends /\ v.materialized = n /\ v.data = Compact(n) \o Append(rest, e)
        /\ v.parent = NoParent /\ v.current = n + 1
    BY <2>1, <2>5, <2>6, <2>7 DEF Appends
  <2>9. Elements(v) = Append(rest, e) /\ Formed(v)  BY Zenon, <2>1, <2>6, <2>8, MadeOf
  <2>10. Shown(v) = <<Compact(n + 1) \o Append(rest, e)>>  BY Zenon, <2>8, <2>9, ShownIs
  <2>11. n + 1 \in Nat  BY <2>1
  <2>12. Compact(n + 1) \in Data  BY Zenon, <2>11, CompactIs
  <2>13. Compact(n + 1) \o Append(rest, e) = Append(Compact(n + 1) \o rest, e)
    <3> DEFINE a == Compact(n + 1)
    <3>1. a \in Seq(Bytes) /\ rest \in Seq(Bytes)  BY Zenon, <2>12, <2>4 DEF Data
    <3> HIDE DEF a
    <3>2. Append(a \o rest, e) = a \o Append(rest, e)  BY ONLY <3>1, e \in Bytes
    <3> QED  BY Zenon, <3>2 DEF a
  <2>14. More(d, e) = Append(Compact(n + 1) \o rest, e)
    BY Zenon, <1>3 DEF More, replace_length, n, rest, c
  <2> QED  BY Zenon, <2>8, <2>9, <2>10, <2>13, <2>14 DEF v, Linked, Entries
<1> QED  BY <1>2, <1>3

(* An append counts the length up and adds the element. *)
LEMMA MoreOf ==
  ASSUME NEW n \in Nat, NEW es \in Data, NEW e \in Bytes
  PROVE  /\ More(Compact(n) \o es, e) = Compact(n + 1) \o Append(es, e)
         /\ extract_length(Compact(n) \o es) = n
<1> DEFINE a == Compact(n)
           d == a \o es
<1>1. a \in Seq(Bytes) /\ compact_len(n) = Len(a) /\ Len(a) > 0 /\ a[1] = Byte("len", n)
      /\ es \in Seq(Bytes)
  BY Zenon, CompactIs DEF Data
<1>2. Compact(n + 1) \in Seq(Bytes)
  <2>1. n + 1 \in Nat  OBVIOUS
  <2> QED  BY Zenon, <2>1, CompactIs DEF Data
<1> HIDE DEF a
<1>3. d # <<>> /\ d[1] = a[1]  BY ONLY <1>1
<1>4. extract_length(d) = n /\ n # NoLength
  <2>1. d[1].kind = "len" /\ d[1].n = n  BY <1>1, <1>3 DEF Byte
  <2>2. n # NoLength  BY DEF NoLength
  <2> QED  BY Zenon, <1>3, <2>1, <2>2 DEF extract_length
<1>5. SubSeq(d, Len(a) + 1, Len(d)) = es  BY ONLY <1>1
<1>6. replace_length(d, n, n + 1) = Compact(n + 1) \o es
  BY Zenon, <1>1, <1>5 DEF replace_length
<1> DEFINE b == Compact(n + 1)
<1>7. More(d, e) = Append(b \o es, e)  BY Zenon, <1>4, <1>6 DEF More
<1>8. Append(b \o es, e) = b \o Append(es, e)
  <2> HIDE DEF b
  <2>1. b \in Seq(Bytes) /\ es \in Seq(Bytes)  BY Zenon, <1>1, <1>2 DEF b
  <2> QED  BY ONLY <2>1, e \in Bytes
<1> QED  BY Zenon, <1>4, <1>7, <1>8 DEF a

(* The two ways in which a list grows: in place, and moved to a new version. *)
LEMMA GrownIs ==
  ASSUME NEW u \in Appends, Formed(u), NEW e \in Bytes, NEW v \in Appends,
         v.materialized = u.materialized, v.data = Append(u.data, e), v.current = u.current + 1
  PROVE  /\ Formed(v) /\ Elements(v) = Append(Elements(u), e)
         /\ Len(Elements(v)) = Len(Elements(u)) + 1 /\ Len(Elements(u)) \in Nat
         /\ Shown(v) = <<More(Plain(u), e)>>
<1> DEFINE m == u.materialized
           es == Elements(u)
<1>1. m \in Nat \cup {NoLength} /\ u.current \in Nat  BY DEF Appends
<1>2. es \in Data /\ Len(es) \in Nat  BY Zenon, FormedIs
<1>3. Compact(m) \in Data  BY Zenon, <1>1, CompactIs
<1>4. u.data = Compact(m) \o es  BY Zenon DEF Formed
<1> HIDE DEF m, es
<1>5. Append(es, e) \in Data /\ Len(Append(es, e)) = Len(es) + 1  BY <1>2 DEF Data
<1>6. Append(Compact(m) \o es, e) = Compact(m) \o Append(es, e)
  <2> DEFINE a == Compact(m)
  <2>1. a \in Seq(Bytes) /\ es \in Seq(Bytes)  BY Zenon, <1>2, <1>3 DEF Data
  <2> HIDE DEF a
  <2>2. Append(a \o es, e) = a \o Append(es, e)  BY ONLY <2>1, e \in Bytes
  <2> QED  BY Zenon, <2>2 DEF a
<1>7. v.data = Compact(m) \o Append(es, e) /\ v.materialized = m  BY Zenon, <1>4, <1>6 DEF m
<1>8. Elements(v) = Append(es, e) /\ Formed(v)  BY Zenon, <1>1, <1>5, <1>7, MadeOf
<1>9. Shown(v) = <<Compact(u.current + 1) \o Append(es, e)>>  BY Zenon, <1>8, ShownIs
<1>10. Shown(u) = <<Compact(u.current) \o es>>  BY Zenon, ShownIs DEF es
<1>11. Plain(u) = Compact(u.current) \o es  BY <1>10 DEF Plain
<1>12. More(Plain(u), e) = Compact(u.current + 1) \o Append(es, e)
  BY Zenon, <1>1, <1>2, <1>11, MoreOf
<1> QED  BY Zenon, <1>2, <1>5, <1>8, <1>9, <1>12 DEF es

(* What an append starts from when the value is not a list. *)
LEMMA PlainIs ==
  ASSUME NEW u \in Entries, u.tag # "append"
  PROVE  /\ WellCoded(IF u.tag = "set" THEN u.data ELSE <<>>)
         /\ Plain(u) = IF u.tag = "set" THEN u.data ELSE <<>>
         /\ Shown(u) = IF u.tag = "set" THEN <<u.data>> ELSE <<>>
<1>1. materialize_in_place(u) = u  BY Zenon DEF materialize_in_place
<1>2. CASE u.tag = "set"
  <2>1. WellCoded(u.data)  BY <1>2, EntryCases DEF Sets
  <2>2. Shown(u) = <<u.data>>  BY <1>1, <1>2 DEF Shown, as_option
  <2> QED  BY <1>2, <2>1, <2>2 DEF Plain
<1>3. CASE u.tag = "remove"
  <2>1. WellCoded(<<>>)  BY DEF WellCoded, extract_length
  <2>2. Shown(u) = <<>>  BY Zenon, <1>1, <1>3 DEF Shown, as_option
  <2> QED  BY <1>3, <2>1, <2>2 DEF Plain
<1> QED  BY Zenon, <1>2, <1>3, EntryCases

(* OverlayedEntry::append: the list gets longer, and what is below is as before. *)
LEMMA AppendIs ==
  ASSUME NEW V, Chain(V), NEW e \in Bytes, NEW first, NEW init, WellCoded(init)
  PROVE  LET W == entry_append(V, e, first, init)
         IN  Changed(V, W, first)
               /\ Shown(Last(W)) = <<More(IF V = <<>> THEN init ELSE Plain(Last(V)), e)>>
<1> DEFINE W == entry_append(V, e, first, init)
           old == Last(V)
           F == Front(V)
<1>1. CASE V = <<>>
  <2> DEFINE v == AppendedTo(init, e)
  <2>1. W = <<v>>  BY Zenon, <1>1 DEF entry_append
  <2>2. v \in Entries /\ Formed(v) /\ ~ Linked(v) /\ Shown(v) = <<More(init, e)>>
    BY Zenon, AppendedToIs
  <2>3. W = Append(V, v)  BY <2>1, <1>1
  <2> HIDE DEF v
  <2>4. /\ Chain(Append(V, v)) /\ RolledBack(Append(V, v)) = V /\ Last(Append(V, v)) = v
        /\ Append(V, v) # <<>> /\ Len(Append(V, v)) = Len(V) + 1
    BY Zenon, <2>2, OnTop
  <2> HIDE DEF W
  <2> QED  BY Zenon, <1>1, <2>2, <2>3, <2>4 DEF Changed, W
<1>2. CASE V # <<>>
  <2>1. /\ F \in Seq(Entries) /\ old \in Entries /\ V = Append(F, old)
        /\ RolledBack(V) = GivenBack(F, old) /\ Len(V) \in Nat \ {0}
        /\ Chain(RolledBack(V)) /\ Len(RolledBack(V)) = Len(V) - 1
    BY Zenon, <1>2, RolledBackOf
  <2>2. Chain(Append(F, old))  BY Zenon, <2>1
  <2> HIDE DEF F, old
  <2>3. CASE old.tag # "append"
    <3> DEFINE d == IF old.tag = "set" THEN old.data ELSE <<>>
               v == AppendedTo(d, e)
    <3>1. WellCoded(d) /\ Plain(old) = d  BY Zenon, <2>1, <2>3, PlainIs
    <3>2. W = IF first THEN Append(V, v) ELSE Append(F, v)
      BY Zenon, <1>2, <2>3 DEF entry_append, Replaced, old, F
    <3> HIDE DEF d
    <3>3. v \in Entries /\ Formed(v) /\ ~ Linked(v) /\ Shown(v) = <<More(d, e)>>
      BY Zenon, <3>1, AppendedToIs
    <3>4. ~ Linked(old)  BY Zenon, <2>3 DEF Linked
    <3>5. RolledBack(V) = F  BY Zenon, <3>4, <2>1, <2>2, RolledBackIs
    <3> HIDE DEF v, W
    <3>6. CASE first
      <4>1. /\ Chain(Append(V, v)) /\ RolledBack(Append(V, v)) = V /\ Last(Append(V, v)) = v
            /\ Append(V, v) # <<>> /\ Len(Append(V, v)) = Len(V) + 1
        BY Zenon, <3>3, OnTop
      <4> QED  BY Zenon, <1>2, <3>1, <3>2, <3>3, <3>6, <4>1 DEF Changed, W, old
    <3>7. CASE ~ first
      <4>1. /\ Chain(Append(F, v)) /\ RolledBack(Append(F, v)) = F /\ Last(Append(F, v)) = v
            /\ Append(F, v) # <<>> /\ Len(Append(F, v)) = Len(F) + 1
        BY Zenon, <2>1, <3>3, <3>5, OnTop
      <4>2. Len(Append(F, v)) = Len(V)  BY <2>1, <3>5, <4>1
      <4> QED  BY Zenon, <1>2, <3>1, <3>2, <3>3, <3>5, <3>7, <4>1, <4>2 DEF Changed, W, old
    <3> QED  BY Zenon, <3>6, <3>7
  <2>4. CASE old.tag = "append"
    <3>1. old \in Appends /\ Formed(old)  BY Zenon, <2>1, <2>2, <2>4, EntryCases, ChainOfAppend
    <3>2. CASE first
      <4> DEFINE u == [old EXCEPT !.data = <<>>]
                 v == Appended(Append(old.data, e), old.current + 1, old.materialized, Len(old.data))
                 n == Len(Elements(old))
                 G == Append(F, u)
      <4>1. W = Append(G, v)
        BY Zenon, <1>2, <2>4, <3>2 DEF entry_append, Replaced, old, F
      <4>2. u \in Appends /\ u.parent = old.parent /\ u.materialized = old.materialized
            /\ u.tag = "append" /\ u.current = old.current
        <5>1. <<>> \in Data  BY DEF Data
        <5> QED  BY <3>1, <5>1 DEF Appends
      <4>3. v \in Appends /\ v.materialized = old.materialized /\ v.data = Append(old.data, e)
            /\ v.current = old.current + 1 /\ v.parent = Len(old.data) /\ v.tag = "append"
        <5>1. old.data \in Data /\ old.current \in Nat /\ old.materialized \in Nat \cup {NoLength}
          BY <3>1 DEF Appends
        <5>2. Append(old.data, e) \in Data /\ Len(old.data) \in Nat  BY <5>1 DEF Data
        <5> QED  BY <5>1, <5>2 DEF Appends, Appended
      <4> HIDE DEF u, v
      <4>4. /\ Formed(v) /\ Elements(v) = Append(Elements(old), e) /\ Len(Elements(v)) = n + 1
            /\ n \in Nat /\ Shown(v) = <<More(Plain(old), e)>>
        BY Zenon, <3>1, <4>3, GrownIs
      <4>5. u \in Entries /\ v \in Entries  BY Zenon, <4>2, <4>3 DEF Entries
      <4>6. G \in Seq(Entries) /\ G # <<>> /\ Front(G) = F /\ Last(G) = u /\ Len(G) = Len(F) + 1
        BY Zenon, <2>1, <4>5, FrontOfAppend
      <4> HIDE DEF G
      <4>7. Len(old.data) = compact_len(old.materialized) + n
        BY Zenon, <3>1, FormedIs
      <4>8. compact_len(old.materialized) \in Nat
        <5>1. old.materialized \in Nat \cup {NoLength}  BY <3>1 DEF Appends
        <5> QED  BY Zenon, <5>1, CompactIs
      <4>9. Owed(G, v) = n
        <5>1. Owed(G, v) = Len(old.data) - compact_len(old.materialized)
          BY Zenon, <4>2, <4>3, <4>6 DEF Owed
        <5> HIDE DEF n
        <5> QED  BY <5>1, <4>4, <4>7, <4>8
      <4>10. Linked(v)
        <5>1. Len(old.data) # NoParent  BY <3>1 DEF Appends, Data, NoParent
        <5> QED  BY Zenon, <5>1, <4>3 DEF Linked
      <4>11. Links(Append(F, old), n)  BY Zenon, <2>2, <2>1, FrontOfAppend DEF Chain
      <4>12. Links(G, n)  BY Zenon, <4>11, <4>2, <3>1, <2>1, SameLinks DEF G
      <4>13. Owed(G, v) \in 0..Len(Elements(v))
        <5> HIDE DEF n
        <5> QED  BY <4>4, <4>9
      <4>14. Chain(Append(G, v))
        BY Zenon, <4>2, <4>4, <4>5, <4>6, <4>9, <4>10, <4>12, <4>13, ChainOfAppend
      <4>15. GivenBack(G, v) = Append(F, Given(G, v)) /\ RolledBack(Append(G, v)) = GivenBack(G, v)
        BY Zenon, <4>5, <4>6, <4>10, <4>14, GivenIs, RolledBackIs
      <4>16. Given(G, v) = old
        <5>1. Given(G, v) = RestoredTo(u, old.materialized, SubSeq(Append(Elements(old), e), 1, n))
          BY Zenon, <4>3, <4>4, <4>6, <4>9 DEF Given
        <5>2. Elements(old) \in Data  BY Zenon, <3>1, FormedIs
        <5>3. SubSeq(Append(Elements(old), e), 1, n) = Elements(old)
          <6> DEFINE es == Elements(old)
          <6>1. es \in Seq(Bytes)  BY Zenon, <5>2 DEF Data
          <6> HIDE DEF es
          <6>2. SubSeq(Append(es, e), 1, Len(es)) = es  BY ONLY <6>1, e \in Bytes
          <6> QED  BY Zenon, <6>2 DEF es
        <5>4. old.data = Compact(old.materialized) \o Elements(old)  BY Zenon, <3>1 DEF Formed
        <5>5. Given(G, v) = [u EXCEPT !.materialized = old.materialized, !.data = old.data]
          BY Zenon, <5>1, <5>3, <5>4 DEF RestoredTo
        <5> QED  BY Zenon, <5>5, <3>1 DEF u, Appends
      <4>17. RolledBack(W) = V  BY Zenon, <4>1, <4>15, <4>16, <2>1
      <4>18. Last(W) = v /\ W # <<>> /\ Len(W) = Len(G) + 1
        <5> HIDE DEF W
        <5> QED  BY Zenon, <4>1, <4>5, <4>6, FrontOfAppend
      <4>19. Len(V) = Len(F) + 1  BY Zenon, <2>1, FrontOfAppend
      <4> HIDE DEF W
      <4> QED  BY Zenon, <1>2, <3>2, <4>1, <4>4, <4>6, <4>14, <4>17, <4>18, <4>19 DEF Changed, W, old
    <3>3. CASE ~ first
      <4> DEFINE v == [old EXCEPT !.data = Append(@, e), !.current = @ + 1]
                 n == Len(Elements(old))
      <4>1. W = Append(F, v)
        BY Zenon, <1>2, <2>4, <3>3 DEF entry_append, Replaced, old, F
      <4>2. v \in Appends /\ v.materialized = old.materialized /\ v.data = Append(old.data, e)
            /\ v.current = old.current + 1 /\ v.parent = old.parent /\ v.tag = "append"
        <5>1. old.data \in Data  BY <3>1 DEF Appends
        <5>2. Append(old.data, e) \in Data  BY <5>1 DEF Data
        <5> DEFINE x == Append(old.data, e)
                   y == old.current + 1
        <5>3. v = [old EXCEPT !.data = x, !.current = y]  BY <3>1 DEF Appends
        <5>4. x \in Data /\ y \in Nat  BY <3>1, <5>2 DEF Appends
        <5>5. old \in Appends  BY Zenon, <3>1
        <5> HIDE DEF x, y, v
        <5>6. v \in Appends /\ v.materialized = old.materialized /\ v.data = x
            /\ v.current = y /\ v.parent = old.parent /\ v.tag = "append"
          BY ONLY Zenon, <5>3, <5>4, <5>5 DEF Appends
        <5> QED  BY Zenon, <5>6 DEF x, y
      <4> HIDE DEF v
      <4>3. /\ Formed(v) /\ Elements(v) = Append(Elements(old), e) /\ Len(Elements(v)) = n + 1
            /\ n \in Nat /\ Shown(v) = <<More(Plain(old), e)>>
        BY Zenon, <3>1, <4>2, GrownIs
      <4>4. v \in Entries  BY Zenon, <4>2 DEF Entries
      <4>5. Linked(v) <=> Linked(old)  BY Zenon, <4>2, <2>4 DEF Linked
      <4>6. Owed(F, v) = Owed(F, old)  BY Zenon, <4>2 DEF Owed
      <4>7. Last(W) = v /\ W # <<>> /\ Len(W) = Len(V)
        <5>1. Len(V) = Len(F) + 1  BY Zenon, <2>1, FrontOfAppend
        <5> HIDE DEF W
        <5> QED  BY Zenon, <5>1, <4>1, <4>4, <2>1, FrontOfAppend
      <4>8. Chain(Append(F, v)) /\ RolledBack(Append(F, v)) = RolledBack(V)
        <5>1. CASE Linked(old)
          <6>1. /\ F # <<>> /\ Last(F).tag = "append" /\ Owed(F, old) \in 0..n
                /\ Links(F, Owed(F, old))
            BY Zenon, <5>1, <2>1, <2>2, ChainOfAppend
          <6>2. Owed(F, old) \in 0..Len(Elements(v))
            <7> HIDE DEF n
            <7> QED  BY <6>1, <4>3
          <6>3. Chain(Append(F, v))
            BY Zenon, <6>1, <6>2, <5>1, <4>3, <4>4, <4>5, <4>6, <2>1, ChainOfAppend
          <6>4. RolledBack(Append(F, v)) = Append(Front(F), Given(F, v))
            BY Zenon, <6>3, <5>1, <4>4, <4>5, <2>1, GivenIs, RolledBackIs
          <6>5. RolledBack(V) = Append(Front(F), Given(F, old)) /\ Elements(old) \in Data
            BY Zenon, <5>1, <2>1, <2>2, GivenIs
          <6>6. SubSeq(Elements(v), 1, Owed(F, v)) = SubSeq(Elements(old), 1, Owed(F, old))
            <7> DEFINE es == Elements(old)
                       o == Owed(F, old)
            <7>1. es \in Seq(Bytes) /\ o \in 0..Len(es)  BY Zenon, <6>1, <6>5 DEF Data
            <7> HIDE DEF es, o
            <7>2. SubSeq(Append(es, e), 1, o) = SubSeq(es, 1, o)  BY ONLY <7>1, e \in Bytes
            <7> QED  BY Zenon, <7>2, <4>3, <4>6 DEF es, o
          <6>7. Given(F, v) = Given(F, old)  BY Zenon, <6>6, <4>2 DEF Given
          <6> QED  BY Zenon, <6>3, <6>4, <6>5, <6>7
        <5>2. CASE ~ Linked(old)
          <6>1. Chain(F)  BY Zenon, <5>2, <2>1, <2>2, ChainOfAppend
          <6>2. Chain(Append(F, v)) /\ RolledBack(Append(F, v)) = F
            BY Zenon, <6>1, <5>2, <4>3, <4>4, <4>5, OnTop
          <6>3. RolledBack(V) = F  BY Zenon, <5>2, <2>1, <2>2, RolledBackIs
          <6> QED  BY Zenon, <6>2, <6>3
        <5> QED  BY <5>1, <5>2
      <4> HIDE DEF W
      <4> QED  BY Zenon, <1>2, <3>3, <4>1, <4>3, <4>7, <4>8 DEF Changed, W, old
    <3> QED  BY Zenon, <3>2, <3>3
  <2> QED  BY Zenon, <2>3, <2>4
<1> QED  BY Zenon, <1>1, <1>2

(* The last two versions become one, and without it the others are as without both. *)
LEMMA MergedIs ==
  ASSUME NEW V, Chain(V), Len(V) > 1
  PROVE  /\ Chain(Merged(V)) /\ Merged(V) # <<>> /\ Len(Merged(V)) = Len(V) - 1
         /\ RolledBack(Merged(V)) = RolledBack(RolledBack(V))
         /\ Shown(Last(Merged(V))) = Shown(Last(V))
<1> DEFINE F == Front(V)
           new == Last(V)
           G == Front(F)
           old == Last(F)
<1>1. V \in Seq(Entries) /\ V # <<>>
  <2>1. V \in Seq(Entries)  BY Zenon DEF Chain
  <2>2. V # <<>>
    <3> SUFFICES ASSUME V = <<>> PROVE FALSE  OBVIOUS
    <3> QED  BY Len(V) > 1
  <2> QED  BY Zenon, <2>1, <2>2
<1>2. /\ F \in Seq(Entries) /\ new \in Entries /\ V = Append(F, new) /\ Len(F) = Len(V) - 1
      /\ Len(V) \in Nat
  BY Zenon, <1>1, FrontLast
<1>3. F # <<>>
  <2> HIDE DEF F
  <2> SUFFICES ASSUME F = <<>> PROVE FALSE  OBVIOUS
  <2>1. Len(F) = 0  OBVIOUS
  <2>2. Len(V) > 1  OBVIOUS
  <2>3. Len(F) = Len(V) - 1 /\ Len(V) \in Nat  BY Zenon, <1>2
  <2> QED  BY ONLY <2>1, <2>2, <2>3
<1>4. G \in Seq(Entries) /\ old \in Entries /\ F = Append(G, old) /\ Len(G) = Len(F) - 1
  BY Zenon, <1>2, <1>3, FrontLast
<1>5. Merged(V) = IF new.tag = "append" /\ old.tag = "append" /\ new.parent # NoParent
                  THEN Append(G, [new EXCEPT !.parent = old.parent])
                  ELSE Append(GivenBack(G, old), new)
  BY Zenon DEF Merged, Replaced
<1> HIDE DEF F, new, G, old
<1>6. Chain(Append(F, new))  BY Zenon, <1>2
<1>7. CASE Linked(new)
  <2> DEFINE n == [new EXCEPT !.parent = old.parent]
             q == Given(F, new)
             s == Owed(F, new)
  <2>1. /\ old \in Appends /\ new \in Appends /\ Formed(new)
        /\ q \in Appends /\ q.parent = old.parent /\ q.materialized = new.materialized
        /\ Elements(q) = SubSeq(Elements(new), 1, s) /\ Len(Elements(q)) = s
        /\ s \in 0..Len(Elements(new)) /\ Elements(new) \in Data
        /\ GivenBack(F, new) = Append(G, q) /\ Chain(GivenBack(F, new))
    BY Zenon, <1>2, <1>6, <1>7, GivenIs DEF old, G
  <2>2. Merged(V) = Append(G, n)
    <3>1. old.tag = "append"  BY <2>1 DEF Appends
    <3> QED  BY Zenon, <3>1, <1>5, <1>7 DEF Linked
  <2>3. n \in Appends /\ n.parent = old.parent /\ n.materialized = new.materialized
        /\ n.data = new.data /\ n.current = new.current
    BY Zenon, <2>1 DEF Appends
  <2> HIDE DEF n, q, s
  <2>4. Elements(n) = Elements(new) /\ Formed(n)  BY Zenon, <2>1, <2>3 DEF Elements, Formed
  <2>5. n \in Entries /\ q \in Entries  BY Zenon, <2>1, <2>3 DEF Entries
  <2>6. (Linked(n) <=> Linked(old)) /\ (Linked(q) <=> Linked(old))
    BY <2>1, <2>3 DEF Linked, Appends
  <2>7. Owed(G, n) = Owed(G, old) /\ Owed(G, q) = Owed(G, old)  BY Zenon, <2>1, <2>3 DEF Owed
  <2>8. Chain(Append(G, q))  BY Zenon, <2>1
  <2>9. RolledBack(V) = Append(G, q)  BY Zenon, <2>1, <1>2, <1>6, RolledBackIs
  <2>10. Chain(Append(G, n)) /\ RolledBack(Append(G, n)) = RolledBack(Append(G, q))
    <3>1. CASE Linked(old)
      <4> DEFINE o == Owed(G, old)
      <4>1. G # <<>> /\ Last(G).tag = "append" /\ o \in 0..s /\ Links(G, o)
        BY Zenon, <3>1, <2>1, <2>5, <2>6, <2>7, <2>8, <1>4, ChainOfAppend
      <4> HIDE DEF o
      <4>2. Elements(new) \in Seq(Bytes)  BY Zenon, <2>1 DEF Data
      <4>3. o \in 0..Len(Elements(n)) /\ s \in 0..Len(Elements(n))
        <5>1. Len(Elements(new)) \in Nat  BY <4>2
        <5>2. s \in 0..Len(Elements(new))  BY Zenon, <2>1
        <5>3. o \in 0..Len(Elements(new))  BY ONLY <5>1, <5>2, <4>1
        <5> QED  BY Zenon, <5>2, <5>3, <2>4
      <4>4. Chain(Append(G, n))
        BY Zenon, <4>1, <4>3, <3>1, <2>4, <2>5, <2>6, <2>7, <1>4, ChainOfAppend DEF o
      <4>5. RolledBack(Append(G, n)) = Append(Front(G), Given(G, n))
        BY Zenon, <4>4, <3>1, <2>5, <2>6, <1>4, GivenIs, RolledBackIs
      <4>6. RolledBack(Append(G, q)) = Append(Front(G), Given(G, q))
        BY Zenon, <2>8, <3>1, <2>5, <2>6, <1>4, GivenIs, RolledBackIs
      <4>7. SubSeq(SubSeq(Elements(new), 1, s), 1, o) = SubSeq(Elements(new), 1, o)
        <5> DEFINE es == Elements(new)
        <5>1. es \in Seq(Bytes) /\ s \in 0..Len(es) /\ o \in 0..s  BY Zenon, <4>1, <4>2, <2>1
        <5> HIDE DEF es
        <5>2. SubSeq(SubSeq(es, 1, s), 1, o) = SubSeq(es, 1, o)  BY ONLY <5>1
        <5> QED  BY Zenon, <5>2 DEF es
      <4>8. Given(G, n) = Given(G, q)
        BY Zenon, <4>7, <2>1, <2>3, <2>4, <2>7 DEF Given, o
      <4> QED  BY Zenon, <4>4, <4>5, <4>6, <4>8
    <3>2. CASE ~ Linked(old)
      <4>1. Chain(G)  BY Zenon, <3>2, <2>5, <2>6, <2>8, <1>4, ChainOfAppend
      <4>2. Chain(Append(G, n)) /\ RolledBack(Append(G, n)) = G
        BY Zenon, <4>1, <3>2, <2>4, <2>5, <2>6, OnTop
      <4>3. RolledBack(Append(G, q)) = G  BY Zenon, <3>2, <2>5, <2>6, <2>8, <1>4, RolledBackIs
      <4> QED  BY Zenon, <4>2, <4>3
    <3> QED  BY Zenon, <3>1, <3>2
  <2>11. Shown(n) = Shown(new)
    <3>1. Shown(n) = <<Compact(n.current) \o Elements(n)>>  BY Zenon, <2>3, <2>4, ShownIs
    <3>2. Shown(new) = <<Compact(new.current) \o Elements(new)>>  BY Zenon, <2>1, ShownIs
    <3> QED  BY Zenon, <3>1, <3>2, <2>3, <2>4
  <2>12. Append(G, n) # <<>> /\ Last(Append(G, n)) = n /\ Len(Append(G, n)) = Len(G) + 1
         /\ Len(G) \in Nat
    BY Zenon, <1>4, <2>5, FrontOfAppend
  <2>13. Len(Append(G, n)) = Len(V) - 1  BY <2>12, <1>2, <1>4
  <2> QED  BY Zenon, <2>2, <2>9, <2>10, <2>11, <2>12, <2>13 DEF new
<1>8. CASE ~ Linked(new)
  <2>1. Merged(V) = Append(GivenBack(G, old), new)  BY Zenon, <1>5, <1>8 DEF Linked
  <2>2. Chain(F) /\ (new.tag = "append" => Formed(new))
    BY Zenon, <1>2, <1>6, <1>8, ChainOfAppend
  <2>3. RolledBack(V) = F  BY Zenon, <1>2, <1>6, <1>8, RolledBackIs
  <2>4. Chain(Append(G, old))  BY Zenon, <2>2, <1>4
  <2>5. /\ RolledBack(F) = GivenBack(G, old) /\ Chain(GivenBack(G, old))
        /\ Len(GivenBack(G, old)) = Len(G)
    BY Zenon, <2>4, <1>4, RolledBackIs
  <2> DEFINE U == GivenBack(G, old)
  <2> HIDE DEF U
  <2>6. /\ Chain(Append(U, new)) /\ RolledBack(Append(U, new)) = U /\ Last(Append(U, new)) = new
        /\ Append(U, new) # <<>> /\ Len(Append(U, new)) = Len(U) + 1
    BY Zenon, <1>2, <1>8, <2>2, <2>5, OnTop DEF U
  <2>7. Len(Append(U, new)) = Len(V) - 1
    <3>1. Len(U) = Len(G)  BY Zenon, <2>5 DEF U
    <3> QED  BY <3>1, <2>6, <1>2, <1>4
  <2> QED  BY Zenon, <2>1, <2>3, <2>5, <2>6, <2>7 DEF U, new
<1> QED  BY Zenon, <1>7, <1>8

-----------------------------------------------------------------------------
(* Reading: the length in front of a list is written anew, and nothing is seen of it. *)

Alike(v, w) ==
  v = w \/ /\ v \in Appends /\ w \in Appends /\ Formed(v) /\ Formed(w)
           /\ v.current = w.current /\ v.parent = w.parent /\ Elements(v) = Elements(w)

Same(V, W) ==
  /\ Chain(V) /\ Chain(W)
  /\ V = W \/ \E F \in Seq(Entries), v \in Entries, w \in Entries :
                 V = Append(F, v) /\ W = Append(F, w) /\ Alike(v, w)

(* Versions that are the same show the same. *)
LEMMA SameShown ==
  ASSUME NEW V, NEW W, Same(V, W)
  PROVE  /\ V = <<>> <=> W = <<>>
         /\ V # <<>> => Shown(Last(V)) = Shown(Last(W))
<1> SUFFICES ASSUME V # W
             PROVE  V # <<>> /\ W # <<>> /\ Shown(Last(V)) = Shown(Last(W))
  OBVIOUS
<1>1. PICK F \in Seq(Entries), v \in Entries, w \in Entries :
         V = Append(F, v) /\ W = Append(F, w) /\ Alike(v, w)
  BY Zenon DEF Same
<1>2. V # <<>> /\ W # <<>> /\ Last(V) = v /\ Last(W) = w  BY Zenon, <1>1, FrontOfAppend
<1>3. Shown(v) = Shown(w)
  <2>1. CASE v = w  BY <2>1
  <2>2. CASE v # w
    <3>1. /\ v \in Appends /\ w \in Appends /\ Formed(v) /\ Formed(w)
          /\ v.current = w.current /\ Elements(v) = Elements(w)
      BY Zenon, <1>1, <2>2 DEF Alike
    <3>2. Shown(v) = <<Compact(v.current) \o Elements(v)>>  BY Zenon, <3>1, ShownIs
    <3>3. Shown(w) = <<Compact(w.current) \o Elements(w)>>  BY Zenon, <3>1, ShownIs
    <3> QED  BY Zenon, <3>1, <3>2, <3>3
  <2> QED  BY <2>1, <2>2
<1> QED  BY Zenon, <1>2, <1>3

(* Versions that are the same stay so when the last is rolled back. *)
LEMMA SameRolledBack ==
  ASSUME NEW V, NEW W, Same(V, W), V # <<>>
  PROVE  Same(RolledBack(V), RolledBack(W))
<1>1. CASE V = W
  <2>1. Chain(RolledBack(V))  BY Zenon, RolledBackOf DEF Same
  <2> QED  BY Zenon, <1>1, <2>1 DEF Same
<1>2. CASE V # W
  <2>1. PICK F \in Seq(Entries), v \in Entries, w \in Entries :
           V = Append(F, v) /\ W = Append(F, w) /\ Alike(v, w)
    BY Zenon, <1>2 DEF Same
  <2>2. Chain(Append(F, v)) /\ Chain(Append(F, w))  BY Zenon, <2>1 DEF Same
  <2>3. /\ v \in Appends /\ w \in Appends /\ Formed(v) /\ Formed(w)
        /\ v.current = w.current /\ v.parent = w.parent /\ Elements(v) = Elements(w)
    BY Zenon, <2>1, <1>2 DEF Alike
  <2>4. Linked(v) <=> Linked(w)  BY <2>3 DEF Linked, Appends
  <2>5. Owed(F, v) = Owed(F, w)  BY Zenon, <2>3 DEF Owed
  <2>6. CASE Linked(v)
    <3>1. /\ Front(F) \in Seq(Entries) /\ Given(F, v) \in Appends /\ Formed(Given(F, v))
          /\ Given(F, v).parent = Last(F).parent /\ Given(F, v).current = Last(F).current
          /\ Elements(Given(F, v)) = SubSeq(Elements(v), 1, Owed(F, v))
          /\ GivenBack(F, v) = Append(Front(F), Given(F, v)) /\ Chain(GivenBack(F, v))
      BY Zenon, <2>2, <2>6, GivenIs
    <3>2. /\ Given(F, w) \in Appends /\ Formed(Given(F, w))
          /\ Given(F, w).parent = Last(F).parent /\ Given(F, w).current = Last(F).current
          /\ Elements(Given(F, w)) = SubSeq(Elements(w), 1, Owed(F, w))
          /\ GivenBack(F, w) = Append(Front(F), Given(F, w)) /\ Chain(GivenBack(F, w))
      BY Zenon, <2>2, <2>4, <2>6, GivenIs
    <3>3. Alike(Given(F, v), Given(F, w))  BY Zenon, <3>1, <3>2, <2>3, <2>5 DEF Alike
    <3>4. Given(F, v) \in Entries /\ Given(F, w) \in Entries  BY Zenon, <3>1, <3>2 DEF Entries
    <3>5. RolledBack(V) = GivenBack(F, v) /\ RolledBack(W) = GivenBack(F, w)
      BY Zenon, <2>1, <2>2, RolledBackIs
    <3> QED  BY Zenon, <3>1, <3>2, <3>3, <3>4, <3>5 DEF Same
  <2>7. CASE ~ Linked(v)
    <3>1. RolledBack(V) = F /\ RolledBack(W) = F /\ Chain(F)
      BY Zenon, <2>1, <2>2, <2>4, <2>7, RolledBackIs
    <3> QED  BY Zenon, <3>1 DEF Same
  <2> QED  BY Zenon, <2>6, <2>7
<1> QED  BY Zenon, <1>1, <1>2

(* OverlayedEntry::value *)
LEMMA ReadIs ==
  ASSUME NEW V, Chain(V), V # <<>>
  PROVE  Same(V, Read(V)) /\ Len(Read(V)) = Len(V) /\ Read(V) # <<>>
<1> DEFINE F == Front(V)
           v == Last(V)
           w == materialize_in_place(v)
<1>1. F \in Seq(Entries) /\ v \in Entries /\ V = Append(F, v)  BY Zenon, RolledBackOf
<1>2. Read(V) = Append(F, w)  BY Zenon DEF Read, Replaced
<1> HIDE DEF F, v
<1>3. Chain(Append(F, v))  BY Zenon, <1>1
<1>4. CASE v.tag # "append"
  <2>1. w = v  BY Zenon, <1>4 DEF materialize_in_place
  <2> QED  BY Zenon, <1>1, <1>2, <2>1 DEF Same
<1>5. CASE v.tag = "append"
  <2>1. v \in Appends /\ Formed(v)  BY Zenon, <1>1, <1>3, <1>5, EntryCases, ChainOfAppend
  <2>2. w \in Appends /\ Formed(w) /\ Elements(w) = Elements(v) /\ w.current = v.current
        /\ w.parent = v.parent
    BY Zenon, <2>1, ShownIs
  <2> HIDE DEF w
  <2>3. Alike(v, w) /\ w \in Entries  BY Zenon, <2>1, <2>2 DEF Alike, Entries
  <2>4. Links(Append(F, w), Len(Elements(w)))
    <3>1. Links(Append(F, v), Len(Elements(v)))  BY Zenon, <1>1, <1>3, FrontOfAppend DEF Chain
    <3> QED  BY Zenon, <3>1, <2>1, <2>2, <1>1, SameLinks
  <2>5. /\ Append(F, w) \in Seq(Entries) /\ Append(F, w) # <<>> /\ Last(Append(F, w)) = w
        /\ Len(Append(F, w)) = Len(Append(F, v))
    <3>1. /\ Append(F, w) \in Seq(Entries) /\ Append(F, w) # <<>> /\ Last(Append(F, w)) = w
          /\ Len(Append(F, w)) = Len(F) + 1
      BY Zenon, <1>1, <2>3, FrontOfAppend
    <3>2. Len(Append(F, v)) = Len(F) + 1  BY Zenon, <1>1, FrontOfAppend
    <3> QED  BY Zenon, <3>1, <3>2
  <2>6. Chain(Append(F, w))  BY Zenon, <2>2, <2>4, <2>5 DEF Chain
  <2> QED  BY Zenon, <1>1, <1>2, <1>3, <2>3, <2>5, <2>6 DEF Same
<1> QED  BY Zenon, <1>4, <1>5

-----------------------------------------------------------------------------
(* Induction. *)

(* A set of numbers that is not empty has a least one. *)
LEMMA LeastNumber ==
  ASSUME NEW S \in SUBSET Nat, S # {}
  PROVE  \E n \in S : \A m \in S : n <= m
<1>1. PICK x \in S : \A y \in S : ~ (<<y, x>> \in OpToRel(<, Nat))
  BY Zenon, NatLessThanWellFounded, WFMin
<1>2. ASSUME NEW y \in S, ~(x <= y) PROVE FALSE
  <2>1. <<y, x>> \in Nat \X Nat /\ y < x  BY <1>2
  <2>2. <<y, x>> \in OpToRel(<, Nat)  BY <2>1 DEF OpToRel
  <2> QED  BY Zenon, <1>1, <2>2
<1> QED  BY Zenon, <1>2

(* Induction over the numbers that are in a set. *)
LEMMA AllNumbers ==
  ASSUME NEW S, 0 \in S, \A n \in Nat : n \in S => n + 1 \in S
  PROVE  Nat \subseteq S
<1> DEFINE B == Nat \ S
<1> SUFFICES ASSUME B # {} PROVE FALSE  OBVIOUS
<1>1. B \in SUBSET Nat  OBVIOUS
<1> HIDE DEF B
<1>2. PICK n \in B : \A m \in B : n <= m  BY Zenon, <1>1, LeastNumber
<1>3. n \in Nat /\ n \notin S /\ n # 0  BY <1>2 DEF B
<1>4. n - 1 \in Nat /\ (n - 1) + 1 = n /\ ~(n <= n - 1)  BY <1>3
<1>5. n - 1 \in S  BY Zenon, <1>2, <1>4 DEF B
<1> QED  BY <1>3, <1>4, <1>5

-----------------------------------------------------------------------------
(* Versions that are rolled back one after the other. *)

IsPath(V, p, n) == p = [i \in 0..n |-> IF i = 0 THEN V ELSE RolledBack(p[i - 1])]

(* What is computed up to a number can be computed up to the next, in one way only. *)
LEMMA PathsExist ==
  ASSUME NEW V
  PROVE  \A n \in Nat : \E p : IsPath(V, p, n)
<1> DEFINE S == {n \in Nat : \E p : IsPath(V, p, n)}
<1>1. 0 \in S
  <2> DEFINE p == [i \in 0..0 |-> V]
  <2>1. IsPath(V, p, 0)  BY DEF IsPath
  <2> QED  BY <2>1
<1>2. ASSUME NEW n \in Nat, n \in S PROVE n + 1 \in S
  <2>1. PICK p : IsPath(V, p, n)  BY <1>2
  <2> DEFINE q == [i \in 0..(n + 1) |-> IF i = n + 1 THEN RolledBack(p[n]) ELSE p[i]]
  <2>2. ASSUME NEW i \in 0..(n + 1) PROVE q[i] = IF i = 0 THEN V ELSE RolledBack(q[i - 1])
    <3>1. CASE i = n + 1
      <4>1. i # 0 /\ i - 1 = n /\ n \in 0..(n + 1) /\ n # n + 1  BY <3>1
      <4>2. q[n] = p[n]  BY <4>1
      <4>3. q[i] = RolledBack(p[n])  BY <3>1
      <4> HIDE DEF q
      <4> QED  BY Zenon, <4>1, <4>2, <4>3
    <3>2. CASE i # n + 1
      <4>1. i \in 0..n /\ q[i] = p[i]  BY <3>2
      <4>2. i # 0 => i - 1 \in 0..(n + 1) /\ i - 1 # n + 1  BY <4>1
      <4>3. i # 0 => q[i - 1] = p[i - 1]  BY <4>2
      <4>4. p[i] = IF i = 0 THEN V ELSE RolledBack(p[i - 1])  BY Zenon, <2>1, <4>1 DEF IsPath
      <4> HIDE DEF q
      <4> QED  BY Zenon, <4>1, <4>3, <4>4
    <3> QED  BY <3>1, <3>2
  <2>3. q = [i \in 0..(n + 1) |-> q[i]]  OBVIOUS
  <2> HIDE DEF q
  <2>4. q = [i \in 0..(n + 1) |-> IF i = 0 THEN V ELSE RolledBack(q[i - 1])]
    BY Zenon, <2>2, <2>3
  <2>5. IsPath(V, q, n + 1)  BY Zenon, <2>4 DEF IsPath
  <2> QED  BY <2>5
<1> HIDE DEF S
<1>3. Nat \subseteq S  BY <1>1, <1>2, AllNumbers
<1> QED  BY <1>3 DEF S

(* Two runs of rollbacks agree where both are. *)
LEMMA PathsAgree ==
  ASSUME NEW V, NEW p, NEW q, NEW n \in Nat, IsPath(V, p, n), IsPath(V, q, n + 1)
  PROVE  p[n] = q[n]
<1> DEFINE S == {i \in Nat : i <= n => p[i] = q[i]}
<1>1. 0 \in S
  <2>1. 0 \in 0..n /\ 0 \in 0..(n + 1)  OBVIOUS
  <2>2. p[0] = V /\ q[0] = V  BY Zenon, <2>1 DEF IsPath
  <2> QED  BY <2>2
<1>2. ASSUME NEW i \in Nat, i \in S PROVE i + 1 \in S
  <2> SUFFICES ASSUME i + 1 <= n PROVE p[i + 1] = q[i + 1]  OBVIOUS
  <2>1. i + 1 \in 0..n /\ i + 1 \in 0..(n + 1) /\ i + 1 # 0 /\ (i + 1) - 1 = i /\ i <= n  OBVIOUS
  <2>2. p[i] = q[i]  BY <1>2, <2>1
  <2>3. p[i + 1] = RolledBack(p[(i + 1) - 1])  BY Zenon, <2>1 DEF IsPath
  <2>4. q[i + 1] = RolledBack(q[(i + 1) - 1])  BY Zenon, <2>1 DEF IsPath
  <2> QED  BY Zenon, <2>1, <2>2, <2>3, <2>4
<1> HIDE DEF S
<1>3. Nat \subseteq S  BY <1>1, <1>2, AllNumbers
<1> QED  BY <1>3 DEF S

(* Undone rolls back one version after the other. *)
LEMMA UndoneIs ==
  ASSUME NEW V
  PROVE  /\ Undone(V, 0) = V
         /\ \A n \in Nat : Undone(V, n + 1) = RolledBack(Undone(V, n))
<1> DEFINE P(g) == g = [i \in Nat |-> IF i = 0 THEN V ELSE RolledBack(g[i - 1])]
           path(n) == CHOOSE p : IsPath(V, p, n)
           h == [n \in Nat |-> path(n)[n]]
<1>1. ASSUME NEW n \in Nat PROVE IsPath(V, path(n), n)  BY Zenon, PathsExist
<1>2. ASSUME NEW n \in Nat PROVE h[n] = IF n = 0 THEN V ELSE RolledBack(h[n - 1])
  <2> HIDE DEF path
  <2>1. h[n] = path(n)[n]  OBVIOUS
  <2>2. n \in 0..n  OBVIOUS
  <2>3. path(n)[n] = IF n = 0 THEN V ELSE RolledBack(path(n)[n - 1])
    BY Zenon, <1>1, <2>2 DEF IsPath
  <2>4. CASE n = 0  BY <2>1, <2>3, <2>4
  <2>5. CASE n # 0
    <3> DEFINE m == n - 1
    <3>1. m \in Nat /\ m + 1 = n  BY <2>5
    <3>2. h[m] = path(m)[m]  BY <3>1
    <3> HIDE DEF m
    <3>3. IsPath(V, path(m), m) /\ IsPath(V, path(m + 1), m + 1)  BY Zenon, <1>1, <3>1
    <3>4. path(m)[m] = path(m + 1)[m]
      <4> DEFINE p == path(m)
                 q == path(m + 1)
      <4>1. IsPath(V, p, m) /\ IsPath(V, q, m + 1)  BY Zenon, <3>3
      <4> HIDE DEF p, q
      <4>2. m \in Nat  BY Zenon, <3>1
      <4>3. p[m] = q[m]  BY <4>1, <4>2, PathsAgree
      <4> QED  BY Zenon, <4>3 DEF p, q
    <3> HIDE DEF h
    <3>5. h[n] = RolledBack(path(n)[m])  BY Zenon, <2>1, <2>3, <2>5 DEF m
    <3>6. h[n] = RolledBack(h[m])  BY Zenon, <3>1, <3>2, <3>4, <3>5
    <3> QED  BY Zenon, <3>6, <2>5 DEF m
  <2> QED  BY <2>4, <2>5
<1>3. h = [n \in Nat |-> h[n]]  OBVIOUS
<1> HIDE DEF h
<1>4. P(h)  BY Zenon, <1>2, <1>3
<1> DEFINE u == CHOOSE g : P(g)
<1>5. P(u)  BY Zenon, <1>4
<1>6. \A n : Undone(V, n) = u[n]  BY DEF Undone
<1> HIDE DEF u
<1>7. u[0] = V  BY <1>5
<1>8. ASSUME NEW n \in Nat PROVE u[n + 1] = RolledBack(u[n])
  <2>1. n + 1 \in Nat /\ n + 1 # 0 /\ (n + 1) - 1 = n  OBVIOUS
  <2>2. u[n + 1] = RolledBack(u[(n + 1) - 1])  BY Zenon, <1>5, <2>1
  <2> QED  BY Zenon, <2>1, <2>2
<1> QED  BY Zenon, <1>6, <1>7, <1>8

(* Undoing one version more is undoing them after one has been rolled back. *)
LEMMA UndoneFirst ==
  ASSUME NEW V, NEW n \in Nat
  PROVE  Undone(V, n + 1) = Undone(RolledBack(V), n)
<1> DEFINE S == {i \in Nat : Undone(V, i + 1) = Undone(RolledBack(V), i)}
<1>1. 0 \in S
  <2>1. Undone(V, 0 + 1) = RolledBack(Undone(V, 0)) /\ Undone(V, 0) = V  BY Zenon, UndoneIs
  <2>2. Undone(RolledBack(V), 0) = RolledBack(V)  BY Zenon, UndoneIs
  <2> QED  BY <2>1, <2>2
<1>2. ASSUME NEW i \in Nat, i \in S PROVE i + 1 \in S
  <2>1. i + 1 \in Nat  OBVIOUS
  <2>2. Undone(V, (i + 1) + 1) = RolledBack(Undone(V, i + 1))  BY Zenon, <2>1, UndoneIs
  <2>3. Undone(RolledBack(V), i + 1) = RolledBack(Undone(RolledBack(V), i))  BY Zenon, UndoneIs
  <2>4. Undone(V, i + 1) = Undone(RolledBack(V), i)  BY <1>2
  <2> QED  BY Zenon, <2>1, <2>2, <2>3, <2>4
<1> HIDE DEF S
<1>3. Nat \subseteq S  BY Zenon, <1>1, <1>2, AllNumbers
<1> QED  BY <1>3 DEF S

(* Without any number of its versions, a chain is a chain of the others. *)
LEMMA UndoneChain ==
  ASSUME NEW V, Chain(V), NEW n \in 0..Len(V)
  PROVE  Chain(Undone(V, n)) /\ Len(Undone(V, n)) = Len(V) - n
<1> DEFINE S == {i \in Nat : i <= Len(V) => Chain(Undone(V, i)) /\ Len(Undone(V, i)) = Len(V) - i}
<1>0. Len(V) \in Nat
  <2>1. V \in Seq(Entries)  BY Zenon DEF Chain
  <2> QED  BY <2>1
<1>1. 0 \in S
  <2>1. Undone(V, 0) = V  BY Zenon, UndoneIs
  <2> QED  BY <2>1, <1>0
<1>2. ASSUME NEW i \in Nat, i \in S PROVE i + 1 \in S
  <2> SUFFICES ASSUME i + 1 <= Len(V)
               PROVE  Chain(Undone(V, i + 1)) /\ Len(Undone(V, i + 1)) = Len(V) - (i + 1)
    OBVIOUS
  <2> DEFINE U == Undone(V, i)
  <2>1. i <= Len(V) /\ Len(V) - i > 0  BY <1>0
  <2>2. Chain(U) /\ Len(U) = Len(V) - i  BY <1>2, <2>1
  <2>3. Undone(V, i + 1) = RolledBack(U)  BY Zenon, UndoneIs
  <2> HIDE DEF U
  <2>4. U # <<>>
    <3> SUFFICES ASSUME U = <<>> PROVE FALSE  OBVIOUS
    <3>1. Len(U) = 0  OBVIOUS
    <3> QED  BY ONLY <3>1, <2>1, <2>2, <1>0
  <2>5. Chain(RolledBack(U)) /\ Len(RolledBack(U)) = Len(U) - 1  BY Zenon, <2>2, <2>4, RolledBackOf
  <2>6. Len(RolledBack(U)) = Len(V) - (i + 1)
    <3> DEFINE a == Len(RolledBack(U))
               b == Len(U)
               c == Len(V)
    <3>1. a = b - 1 /\ b = c - i /\ c \in Nat  BY Zenon, <1>0, <2>2, <2>5
    <3> HIDE DEF a, b, c
    <3>2. a = c - (i + 1)  BY <3>1
    <3> QED  BY Zenon, <3>2 DEF a, c
  <2> QED  BY Zenon, <2>3, <2>5, <2>6
<1> HIDE DEF S
<1>3. Nat \subseteq S  BY Zenon, <1>1, <1>2, AllNumbers
<1>4. n \in Nat /\ n <= Len(V)  BY <1>0
<1> QED  BY <1>3, <1>4 DEF S

(* What was only read stays the same under any number of roll backs. *)
LEMMA SameUndone ==
  ASSUME NEW V, NEW W, Same(V, W), NEW n \in 0..Len(V)
  PROVE  Same(Undone(V, n), Undone(W, n))
<1> DEFINE S == {i \in Nat : i <= Len(V) => Same(Undone(V, i), Undone(W, i))}
<1>a. Chain(V)  BY Zenon DEF Same
<1>0. Len(V) \in Nat
  <2>1. V \in Seq(Entries)  BY Zenon, <1>a DEF Chain
  <2> QED  BY <2>1
<1>1. 0 \in S
  <2>1. Undone(V, 0) = V /\ Undone(W, 0) = W  BY Zenon, UndoneIs
  <2> QED  BY <2>1
<1>2. ASSUME NEW i \in Nat, i \in S PROVE i + 1 \in S
  <2> SUFFICES ASSUME i + 1 <= Len(V) PROVE Same(Undone(V, i + 1), Undone(W, i + 1))  OBVIOUS
  <2>1. i <= Len(V) /\ Len(V) - i > 0 /\ i \in 0..Len(V)  BY <1>0
  <2>2. Same(Undone(V, i), Undone(W, i))  BY <1>2, <2>1
  <2>3. Len(Undone(V, i)) = Len(V) - i  BY Zenon, <1>a, <2>1, UndoneChain
  <2>4. Undone(V, i) # <<>>
    <3> SUFFICES ASSUME Undone(V, i) = <<>> PROVE FALSE  OBVIOUS
    <3>1. Len(Undone(V, i)) = 0  OBVIOUS
    <3> QED  BY ONLY <3>1, <2>1, <2>3, <1>0
  <2>5. Undone(V, i + 1) = RolledBack(Undone(V, i)) /\ Undone(W, i + 1) = RolledBack(Undone(W, i))
    BY Zenon, UndoneIs
  <2> QED  BY Zenon, <2>2, <2>4, <2>5, SameRolledBack
<1> HIDE DEF S
<1>3. Nat \subseteq S  BY Zenon, <1>1, <1>2, AllNumbers
<1>4. n \in Nat /\ n <= Len(V)  BY <1>0
<1> QED  BY <1>3, <1>4 DEF S

-----------------------------------------------------------------------------
(* How many of the open transactions above a depth wrote a key. *)

(* The number of open transactions above a depth that wrote a key is a number. *)
LEMMA CountIs ==
  ASSUME CountLaw, NEW K, NEW D \in Seq(SUBSET K), NEW k, NEW d \in 0..Len(D)
  PROVE  /\ Count(D, k, d) \in Nat /\ Count(D, k, 0) \in Nat /\ Count(D, k, d) <= Count(D, k, 0)
         /\ Count(D, k, Len(D)) = 0
<1> DEFINE A(e) == {i \in (e + 1)..Len(D) : k \in D[i]}
<1>1. Len(D) \in Nat  OBVIOUS
<1>2. IsFiniteSet(1..Len(D))  BY <1>1 DEF CountLaw
<1>3. A(0) \in SUBSET (1..Len(D)) /\ A(d) \in SUBSET A(0)
  <2>1. A(0) \in SUBSET (1..Len(D))  BY <1>1
  <2>2. ASSUME NEW i \in A(d) PROVE i \in A(0)  BY <1>1
  <2> QED  BY <2>1, <2>2
<1>4. A(Len(D)) = {}  BY <1>1
<1> HIDE DEF A
<1>5. IsFiniteSet(A(0))  BY Zenon, <1>2, <1>3 DEF CountLaw
<1>6. IsFiniteSet(A(d)) /\ Cardinality(A(d)) <= Cardinality(A(0))
  BY Zenon, <1>3, <1>5 DEF CountLaw
<1>7. Cardinality(A(d)) \in Nat /\ Cardinality(A(0)) \in Nat
  BY Zenon, <1>5, <1>6 DEF CountLaw
<1>8. Cardinality(A(Len(D))) = 0  BY Zenon, <1>4 DEF CountLaw
<1> QED  BY Zenon, <1>6, <1>7, <1>8 DEF Count, A

(* A transaction on top counts when it wrote the key. *)
LEMMA CountAppend ==
  ASSUME CountLaw, NEW K, NEW D \in Seq(SUBSET K), NEW s \in SUBSET K, NEW k, NEW d \in 0..Len(D)
  PROVE  Count(Append(D, s), k, d) = IF k \in s THEN Count(D, k, d) + 1 ELSE Count(D, k, d)
<1> DEFINE A == {i \in (d + 1)..Len(D) : k \in D[i]}
           E == Append(D, s)
           B == {i \in (d + 1)..Len(E) : k \in E[i]}
           n == Len(D) + 1
<1>1. Len(D) \in Nat /\ Len(E) = n /\ E[n] = s /\ \A i \in 1..Len(D) : E[i] = D[i]  OBVIOUS
<1> HIDE DEF E
<1>2. \A i \in (d + 1)..Len(D) : i \in 1..Len(D)  BY <1>1
<1>3. B = IF k \in s THEN A \cup {n} ELSE A
  <2>1. \A i : i \in (d + 1)..Len(E) <=> i \in (d + 1)..Len(D) \/ i = n  BY <1>1
  <2>2. \A i \in (d + 1)..Len(D) : E[i] = D[i]  BY Zenon, <1>1, <1>2
  <2>3. E[n] = s  BY Zenon, <1>1
  <2> HIDE DEF n
  <2> QED  BY Zenon, <2>1, <2>2, <2>3
<1>4. n \notin A  BY <1>1
<1>5. IsFiniteSet(A)
  <2>1. IsFiniteSet((d + 1)..Len(D))  BY <1>1 DEF CountLaw
  <2>2. A \subseteq (d + 1)..Len(D)  OBVIOUS
  <2> QED  BY Zenon, <2>1, <2>2 DEF CountLaw
<1> HIDE DEF A, B, n
<1>6. Cardinality(A \cup {n}) = Cardinality(A) + 1  BY Zenon, <1>4, <1>5 DEF CountLaw
<1>7. Cardinality(B) = IF k \in s THEN Cardinality(A) + 1 ELSE Cardinality(A)
  BY Zenon, <1>3, <1>6
<1> QED  BY Zenon, <1>7 DEF Count, A, B, E

-----------------------------------------------------------------------------
(* The versions of one key and the levels at which it is dirty. *)

(* A chain has no versions when its length is 0. *)
LEMMA EmptyOrNot ==
  ASSUME NEW V, Chain(V)
  PROVE  Len(V) \in Nat /\ (V = <<>> <=> Len(V) = 0)
<1>1. V \in Seq(Entries)  BY Zenon DEF Chain
<1> QED  BY ONLY <1>1

(* The current value is that of the last version. *)
LEMMA ValueOnTop ==
  ASSUME CountLaw, NEW K, NEW D \in Seq(SUBSET K), NEW k, NEW V, NEW b
  PROVE  ValueOf(V, D, k, b, Len(D)) = Seen(V, b)
<1>1. Len(D) \in 0..Len(D)  OBVIOUS
<1>2. Count(D, k, Len(D)) = 0  BY Zenon, <1>1, CountIs
<1> QED  BY Zenon, <1>2, UndoneIs DEF ValueOf

(* Below the last transaction there is what is left when it is rolled back. *)
LEMMA ValueBelow ==
  ASSUME CountLaw, NEW K, NEW D \in Seq(SUBSET K), NEW s \in SUBSET K, NEW k, NEW V, NEW b,
         NEW d \in 0..Len(D)
  PROVE  ValueOf(V, Append(D, s), k, b, d) = IF k \in s THEN ValueOf(RolledBack(V), D, k, b, d)
                                             ELSE ValueOf(V, D, k, b, d)
<1> DEFINE n == Count(D, k, d)
<1>1. n \in Nat  BY Zenon, CountIs
<1>2. Count(Append(D, s), k, d) = IF k \in s THEN n + 1 ELSE n  BY CountAppend
<1>3. Undone(V, n + 1) = Undone(RolledBack(V), n)
  <2> HIDE DEF n
  <2> QED  BY Zenon, <1>1, UndoneFirst
<1> QED  BY Zenon, <1>2, <1>3 DEF ValueOf

(* A key is sound with a transaction on top when it is sound without it. *)
LEMMA SoundBelow ==
  ASSUME CountLaw, NEW K, NEW D \in Seq(SUBSET K), NEW s \in SUBSET K, NEW k, NEW V
  PROVE  KeySound(V, Append(D, s), k) <=>
           IF k \in s THEN Chain(V) /\ V # <<>> /\ KeySound(RolledBack(V), D, k)
           ELSE KeySound(V, D, k)
<1> DEFINE n == Count(D, k, 0)
<1>1. 0 \in 0..Len(D)  OBVIOUS
<1>2. n \in Nat  BY Zenon, <1>1, CountIs
<1>3. Count(Append(D, s), k, 0) = IF k \in s THEN n + 1 ELSE n  BY <1>1, CountAppend
<1>4. CASE k \notin s  BY Zenon, <1>3, <1>4 DEF KeySound
<1>5. CASE k \in s
  <2> HIDE DEF n
  <2>1. CASE Chain(V) /\ V # <<>>
    <3> DEFINE x == Len(V)
               y == Len(RolledBack(V))
    <3>1. Chain(RolledBack(V)) /\ y = x - 1 /\ x \in Nat \ {0}  BY Zenon, <2>1, RolledBackOf
    <3> HIDE DEF x, y
    <3>2. (x = n + 1 \/ x = (n + 1) + 1) <=> (y = n \/ y = n + 1)  BY <1>2, <3>1
    <3> QED  BY Zenon, <1>3, <1>5, <2>1, <3>1, <3>2 DEF KeySound, n, x, y
  <2>2. CASE Chain(V) /\ V = <<>>
    <3>1. Len(V) = 0  BY Zenon, <2>2, EmptyOrNot
    <3>2. ~(Len(V) = n + 1 \/ Len(V) = (n + 1) + 1)  BY ONLY <3>1, <1>2
    <3> QED  BY Zenon, <1>3, <1>5, <2>2, <3>2 DEF KeySound, n
  <2>3. CASE ~ Chain(V)  BY Zenon, <1>5, <2>3 DEF KeySound
  <2> QED  BY Zenon, <2>1, <2>2, <2>3
<1> QED  BY <1>4, <1>5

(* A key without versions has the value of the backend at every depth. *)
LEMMA ValueOfNone ==
  ASSUME CountLaw, NEW K, NEW D \in Seq(SUBSET K), NEW k, KeySound(<<>>, D, k), NEW b, NEW d \in 0..Len(D)
  PROVE  ValueOf(<<>>, D, k, b, d) = b
<1>1. /\ Count(D, k, d) \in Nat /\ Count(D, k, 0) \in Nat /\ Count(D, k, d) <= Count(D, k, 0)
  BY Zenon, CountIs
<1>2. Len(<<>>) = 0  OBVIOUS
<1>3. Count(D, k, 0) = 0  BY <1>1, <1>2 DEF KeySound
<1>4. Count(D, k, d) = 0  BY <1>1, <1>3
<1> QED  BY Zenon, <1>4, UndoneIs DEF ValueOf, Seen

(* A key without versions. *)
LEMMA ChainOfNone == Chain(<<>>) /\ Len(<<>>) = 0
BY DEF Chain

(* Without transactions a key has one version or none. *)
LEMMA SoundAtBase ==
  ASSUME CountLaw, NEW V, NEW k
  PROVE  KeySound(V, <<>>, k) <=> Chain(V) /\ (Len(V) = 0 \/ Len(V) = 1)
<1>1. <<>> \in Seq(SUBSET {}) /\ 0 \in 0..Len(<<>>) /\ Len(<<>>) = 0  OBVIOUS
<1>2. Count(<<>>, k, Len(<<>>)) = 0  BY Zenon, <1>1, CountIs
<1>3. Count(<<>>, k, 0) = 0  BY Zenon, <1>1, <1>2
<1>4. Count(<<>>, k, 0) + 1 = 1  BY <1>3
<1> QED  BY Zenon, <1>3, <1>4 DEF KeySound

\* Levels of which the last one gets more keys
Grown(D, S) == IF D = <<>> THEN D ELSE Append(Front(D), Last(D) \cup S)

(* Adding written keys to the top transaction keeps the transactions. *)
LEMMA GrownIsLevels ==
  ASSUME NEW K, NEW D \in Seq(SUBSET K), NEW S \in SUBSET K
  PROVE  Grown(D, S) \in Seq(SUBSET K) /\ Len(Grown(D, S)) = Len(D) /\ Len(D) \in Nat
<1>1. CASE D = <<>>  BY <1>1 DEF Grown
<1>2. CASE D # <<>>
  <2>1. /\ Front(D) \in Seq(SUBSET K) /\ Last(D) \in SUBSET K /\ Len(D) \in Nat \ {0}
        /\ Len(Front(D)) = Len(D) - 1
    BY Zenon, <1>2, FrontLast
  <2>2. Last(D) \cup S \in SUBSET K  BY <2>1
  <2>3. /\ Append(Front(D), Last(D) \cup S) \in Seq(SUBSET K)
        /\ Len(Append(Front(D), Last(D) \cup S)) = Len(Front(D)) + 1
    BY Zenon, <2>1, <2>2, FrontOfAppend
  <2>4. Len(Append(Front(D), Last(D) \cup S)) = Len(D)  BY ONLY <2>1, <2>3
  <2> QED  BY Zenon, <1>2, <2>1, <2>3, <2>4 DEF Grown
<1> QED  BY <1>1, <1>2

\* The key was not written in the last transaction.
FirstWrite(D, k) == D # <<>> /\ k \notin Last(D)

\* What a write changes: what the key shows now
Updated(V, W, D, S, k) ==
  /\ KeySound(W, Grown(D, S), k)
  /\ \A b : ValueOf(W, Grown(D, S), k, b, Len(D)) = Shown(Last(W))
  /\ \A b : \A d \in 0..Len(D) : d # Len(D) =>
        ValueOf(W, Grown(D, S), k, b, d) = ValueOf(V, D, k, b, d)

(* A write in the last transaction changes what that shows, and nothing below it. *)
LEMMA KeyWritten ==
  ASSUME CountLaw, NEW K, NEW D \in Seq(SUBSET K), NEW k, NEW V, KeySound(V, D, k), NEW W,
         NEW S \in SUBSET K,
         k \in S, Changed(V, W, FirstWrite(D, k))
  PROVE  Updated(V, W, D, S, k)
<1> SUFFICES /\ KeySound(W, Grown(D, S), k)
             /\ \A b : ValueOf(W, Grown(D, S), k, b, Len(D)) = Shown(Last(W))
             /\ \A b : \A d \in 0..Len(D) : d # Len(D) =>
                   ValueOf(W, Grown(D, S), k, b, d) = ValueOf(V, D, k, b, d)
  BY Zenon DEF Updated
<1>1. /\ Chain(W) /\ W # <<>>
      /\ RolledBack(W) = IF (D # <<>> /\ k \notin Last(D)) \/ V = <<>> THEN V ELSE RolledBack(V)
      /\ Len(W) = IF (D # <<>> /\ k \notin Last(D)) \/ V = <<>> THEN Len(V) + 1 ELSE Len(V)
  BY Zenon DEF Changed, FirstWrite
<1>2. Grown(D, S) \in Seq(SUBSET K) /\ Len(Grown(D, S)) = Len(D)  BY Zenon, GrownIsLevels
<1>3. ASSUME NEW b PROVE ValueOf(W, Grown(D, S), k, b, Len(D)) = Shown(Last(W))
  <2>1. ValueOf(W, Grown(D, S), k, b, Len(Grown(D, S))) = Seen(W, b)  BY ONLY CountLaw, <1>2, ValueOnTop
  <2> QED  BY Zenon, <2>1, <1>1, <1>2 DEF Seen
<1>4. CASE D = <<>>
  <2>1. Grown(D, S) = <<>>  BY Zenon, <1>4 DEF Grown
  <2>2. Chain(V) /\ (Len(V) = 0 \/ Len(V) = 1)  BY Zenon, <1>4, SoundAtBase
  <2>3. Len(W) = IF V = <<>> THEN Len(V) + 1 ELSE Len(V)  BY Zenon, <1>1, <1>4
  <2>4. V = <<>> <=> Len(V) = 0  BY Zenon, <2>2, EmptyOrNot
  <2>5. Len(W) = 1  BY ONLY <2>2, <2>3, <2>4
  <2>6. KeySound(W, Grown(D, S), k)  BY Zenon, <1>1, <2>1, <2>5, SoundAtBase
  <2>7. ASSUME NEW d \in 0..Len(D) PROVE d = Len(D)  BY <1>4
  <2> QED  BY Zenon, <1>3, <2>6, <2>7
<1>5. CASE D # <<>>
  <2> DEFINE E == Front(D)
             s == Last(D)
  <2>1. /\ E \in Seq(SUBSET K) /\ s \in SUBSET K /\ D = Append(E, s) /\ Len(D) \in Nat \ {0}
        /\ Len(E) = Len(D) - 1
    BY Zenon, <1>5, FrontLast
  <2>2. Grown(D, S) = Append(E, s \cup S) /\ s \cup S \in SUBSET K /\ k \in s \cup S
    BY Zenon, <1>5, <2>1 DEF Grown
  <2>a. E \in Seq(SUBSET K) /\ s \in SUBSET K  BY Zenon, <2>1
  <2>b. KeySound(V, Append(E, s), k)  BY Zenon, <2>1
  <2>c. s \cup S \in SUBSET K /\ k \in s \cup S  BY Zenon, <2>2
  <2> HIDE DEF E, s
  <2>3. CASE k \in s
    <3>1. V # <<>> /\ KeySound(RolledBack(V), E, k)  BY ONLY CountLaw, <2>a, <2>b, <2>3, SoundBelow
    <3>2. RolledBack(W) = RolledBack(V)  BY Zenon, <1>1, <2>3, <3>1 DEF s
    <3>a. Chain(W) /\ W # <<>> /\ KeySound(RolledBack(W), E, k)  BY Zenon, <1>1, <3>1, <3>2
    <3>b. KeySound(W, Append(E, s \cup S), k)  BY ONLY CountLaw, <2>a, <2>c, <3>a, SoundBelow
    <3>3. KeySound(W, Grown(D, S), k)  BY Zenon, <2>2, <3>b
    <3>4. ASSUME NEW b, NEW d \in 0..Len(D), d # Len(D)
          PROVE  ValueOf(W, Grown(D, S), k, b, d) = ValueOf(V, D, k, b, d)
      <4>1. d \in 0..Len(E)  BY <2>1, <3>4
      <4>2. ValueOf(W, Append(E, s \cup S), k, b, d) = ValueOf(RolledBack(W), E, k, b, d)
        BY ONLY CountLaw, <2>a, <2>c, <4>1, ValueBelow
      <4>3. ValueOf(V, Append(E, s), k, b, d) = ValueOf(RolledBack(V), E, k, b, d)
        BY ONLY CountLaw, <2>a, <2>3, <4>1, ValueBelow
      <4> QED  BY Zenon, <2>1, <2>2, <3>2, <4>2, <4>3
    <3> QED  BY Zenon, <1>3, <3>3, <3>4
  <2>4. CASE k \notin s
    <3>1. KeySound(V, E, k)  BY ONLY CountLaw, <2>a, <2>b, <2>4, SoundBelow
    <3>2. RolledBack(W) = V  BY Zenon, <1>1, <1>5, <2>4 DEF s
    <3>a. Chain(W) /\ W # <<>> /\ KeySound(RolledBack(W), E, k)  BY Zenon, <1>1, <3>1, <3>2
    <3>b. KeySound(W, Append(E, s \cup S), k)  BY ONLY CountLaw, <2>a, <2>c, <3>a, SoundBelow
    <3>3. KeySound(W, Grown(D, S), k)  BY Zenon, <2>2, <3>b
    <3>4. ASSUME NEW b, NEW d \in 0..Len(D), d # Len(D)
          PROVE  ValueOf(W, Grown(D, S), k, b, d) = ValueOf(V, D, k, b, d)
      <4>1. d \in 0..Len(E)  BY <2>1, <3>4
      <4>2. ValueOf(W, Append(E, s \cup S), k, b, d) = ValueOf(RolledBack(W), E, k, b, d)
        BY ONLY CountLaw, <2>a, <2>c, <4>1, ValueBelow
      <4>3. ValueOf(V, Append(E, s), k, b, d) = ValueOf(V, E, k, b, d)
        BY ONLY CountLaw, <2>a, <2>4, <4>1, ValueBelow
      <4> QED  BY Zenon, <2>1, <2>2, <3>2, <4>2, <4>3
    <3> QED  BY Zenon, <1>3, <3>3, <3>4
  <2> QED  BY Zenon, <2>3, <2>4
<1> QED  BY <1>4, <1>5

(* Writes to other keys change nothing of a key. *)
LEMMA KeyNotWritten ==
  ASSUME CountLaw, NEW K, NEW D \in Seq(SUBSET K), NEW k, NEW V, KeySound(V, D, k), NEW S \in SUBSET K,
         k \notin S
  PROVE  /\ KeySound(V, Grown(D, S), k)
         /\ \A b : \A d \in 0..Len(D) : ValueOf(V, Grown(D, S), k, b, d) = ValueOf(V, D, k, b, d)
<1>1. CASE D = <<>>  BY Zenon, <1>1 DEF Grown
<1>2. CASE D # <<>>
  <2> DEFINE E == Front(D)
             s == Last(D)
  <2>1. /\ E \in Seq(SUBSET K) /\ s \in SUBSET K /\ D = Append(E, s) /\ Len(D) \in Nat \ {0}
        /\ Len(E) = Len(D) - 1
    BY Zenon, <1>2, FrontLast
  <2>2. Grown(D, S) = Append(E, s \cup S) /\ s \cup S \in SUBSET K /\ (k \in s \cup S <=> k \in s)
    BY Zenon, <1>2, <2>1 DEF Grown
  <2>3. Grown(D, S) \in Seq(SUBSET K) /\ Len(Grown(D, S)) = Len(D)  BY Zenon, GrownIsLevels
  <2>a. E \in Seq(SUBSET K) /\ s \in SUBSET K  BY Zenon, <2>1
  <2>b. s \cup S \in SUBSET K /\ (k \in s \cup S <=> k \in s)  BY Zenon, <2>2
  <2> HIDE DEF E, s
  <2>4. KeySound(V, Append(E, s \cup S), k) <=> KeySound(V, Append(E, s), k)
    BY ONLY CountLaw, <2>a, <2>b, SoundBelow
  <2>5. ASSUME NEW b, NEW d \in 0..Len(D)
        PROVE  ValueOf(V, Grown(D, S), k, b, d) = ValueOf(V, D, k, b, d)
    <3>1. CASE d = Len(D)
      <4>1. ValueOf(V, Grown(D, S), k, b, Len(Grown(D, S))) = Seen(V, b)  BY ONLY CountLaw, <2>3, ValueOnTop
      <4>2. ValueOf(V, D, k, b, Len(D)) = Seen(V, b)  BY Zenon, ValueOnTop
      <4> QED  BY Zenon, <2>3, <3>1, <4>1, <4>2
    <3>2. CASE d # Len(D)
      <4>1. d \in 0..Len(E)  BY <2>1, <3>2
      <4> DEFINE x == IF k \in s THEN ValueOf(RolledBack(V), E, k, b, d) ELSE ValueOf(V, E, k, b, d)
      <4>2. ValueOf(V, Append(E, s \cup S), k, b, d) = x  BY ONLY CountLaw, <2>a, <2>b, <4>1, ValueBelow
      <4>3. ValueOf(V, Append(E, s), k, b, d) = x  BY ONLY CountLaw, <2>a, <4>1, ValueBelow
      <4> QED  BY Zenon, <2>1, <2>2, <4>2, <4>3
    <3> QED  BY <3>1, <3>2
  <2> QED  BY Zenon, <2>1, <2>2, <2>4, <2>5
<1> QED  BY <1>1, <1>2

(* Reading changes nothing of a key. *)
LEMMA KeyRead ==
  ASSUME CountLaw, NEW K, NEW D \in Seq(SUBSET K), NEW k, NEW V, KeySound(V, D, k), V # <<>>
  PROVE  /\ KeySound(Read(V), D, k)
         /\ \A b : \A d \in 0..Len(D) : ValueOf(Read(V), D, k, b, d) = ValueOf(V, D, k, b, d)
<1> DEFINE W == Read(V)
<1>1. Chain(V)  BY Zenon DEF KeySound
<1>2. Same(V, W) /\ Len(W) = Len(V) /\ Chain(W)
  <2>1. Same(V, W) /\ Len(W) = Len(V)  BY Zenon, <1>1, ReadIs
  <2> QED  BY Zenon, <2>1 DEF Same
<1> HIDE DEF W
<1>3. KeySound(W, D, k)  BY Zenon, <1>2 DEF KeySound
<1>4. ASSUME NEW b, NEW d \in 0..Len(D) PROVE ValueOf(W, D, k, b, d) = ValueOf(V, D, k, b, d)
  <2> DEFINE n == Count(D, k, d)
             m == Count(D, k, 0)
  <2>1. n \in Nat /\ m \in Nat /\ n <= m  BY Zenon, CountIs
  <2>2. Len(V) = m \/ Len(V) = m + 1  BY Zenon DEF KeySound
  <2> HIDE DEF n, m
  <2>3. n \in 0..Len(V)  BY <2>1, <2>2
  <2>4. Same(Undone(V, n), Undone(W, n))  BY Zenon, <1>2, <2>3, SameUndone
  <2> QED  BY Zenon, <2>4, SameShown DEF ValueOf, Seen, n
<1> QED  BY Zenon, <1>3, <1>4 DEF W

\* The versions of a key when the last transaction is committed
Kept(V, D, k) ==
  IF k \in Last(D) /\ (IF Len(D) > 1 THEN k \in D[Len(D) - 1] ELSE Len(V) > 1) THEN Merged(V) ELSE V

\* What a commit changes: what the last transaction but one shows
Settled(V, D, k) ==
  /\ KeySound(Kept(V, D, k), Grown(Front(D), Last(D)), k)
  /\ V # <<>> => Kept(V, D, k) # <<>>
  /\ \A b : ValueOf(Kept(V, D, k), Grown(Front(D), Last(D)), k, b, Len(D) - 1)
              = ValueOf(V, D, k, b, Len(D))
  /\ \A b : \A d \in 0..(Len(D) - 1) : d # Len(D) - 1 =>
        ValueOf(Kept(V, D, k), Grown(Front(D), Last(D)), k, b, d) = ValueOf(V, D, k, b, d)

(* A commit keeps what the last transaction shows in the place of what the one below     *)
(* showed.                                                                               *)
LEMMA KeyCommitted ==
  ASSUME CountLaw, NEW K, NEW D \in Seq(SUBSET K), D # <<>>, NEW k, NEW V, KeySound(V, D, k)
  PROVE  Settled(V, D, k)
<1> SUFFICES /\ KeySound(Kept(V, D, k), Grown(Front(D), Last(D)), k)
             /\ V # <<>> => Kept(V, D, k) # <<>>
             /\ \A b : ValueOf(Kept(V, D, k), Grown(Front(D), Last(D)), k, b, Len(D) - 1)
                         = ValueOf(V, D, k, b, Len(D))
             /\ \A b : \A d \in 0..(Len(D) - 1) : d # Len(D) - 1 =>
                   ValueOf(Kept(V, D, k), Grown(Front(D), Last(D)), k, b, d) = ValueOf(V, D, k, b, d)
  BY Zenon DEF Settled
<1> DEFINE E == Front(D)
           s == Last(D)
           W == Kept(V, D, k)
           G == Grown(E, s)
           n == Len(D)
<1>1. /\ E \in Seq(SUBSET K) /\ s \in SUBSET K /\ D = Append(E, s) /\ n \in Nat \ {0}
      /\ Len(E) = n - 1
  BY Zenon, FrontLast
<1>2. E \in Seq(SUBSET K) /\ s \in SUBSET K  BY Zenon, <1>1
<1>3. KeySound(V, Append(E, s), k)  BY Zenon, <1>1
<1>4. G \in Seq(SUBSET K) /\ Len(G) = n - 1  BY Zenon, <1>1, GrownIsLevels
<1>5. Chain(V)  BY Zenon DEF KeySound
<1>6. W = IF k \in s /\ (IF n > 1 THEN k \in D[n - 1] ELSE Len(V) > 1) THEN Merged(V) ELSE V
  BY Zenon DEF Kept
<1>7. Len(V) > 1 => /\ Chain(Merged(V)) /\ Merged(V) # <<>> /\ Len(Merged(V)) = Len(V) - 1
                    /\ RolledBack(Merged(V)) = RolledBack(RolledBack(V))
                    /\ Shown(Last(Merged(V))) = Shown(Last(V))
  BY Zenon, <1>5, MergedIs
<1>8. k \in s => V # <<>> /\ KeySound(RolledBack(V), E, k)  BY ONLY CountLaw, <1>2, <1>3, SoundBelow
<1>9. k \notin s => KeySound(V, E, k)  BY ONLY CountLaw, <1>2, <1>3, SoundBelow
<1>10. Len(V) \in Nat /\ (V = <<>> <=> Len(V) = 0)  BY Zenon, <1>5, EmptyOrNot
<1>11. V # <<>> => Len(RolledBack(V)) = Len(V) - 1  BY Zenon, <1>5, RolledBackOf
<1> HIDE DEF E, s, W, G, n
<1>12. ASSUME V # <<>> => W # <<>>, V = <<>> => W = <<>>,
              V # <<>> => Shown(Last(W)) = Shown(Last(V)), NEW b
       PROVE  ValueOf(W, G, k, b, n - 1) = ValueOf(V, D, k, b, n)
  <2>1. ValueOf(W, G, k, b, Len(G)) = Seen(W, b)  BY ONLY CountLaw, <1>4, ValueOnTop
  <2>2. ValueOf(V, D, k, b, Len(D)) = Seen(V, b)  BY Zenon, ValueOnTop
  <2>3. Seen(W, b) = Seen(V, b)  BY Zenon, <1>12 DEF Seen
  <2> QED  BY Zenon, <1>4, <2>1, <2>2, <2>3 DEF n
<1>13. CASE E = <<>>
  <2>1. G = <<>>  BY Zenon, <1>13 DEF G, Grown
  <2>2. n = 1 /\ ~(n > 1)
    <3>1. Len(E) = 0  BY <1>13
    <3> QED  BY ONLY <3>1, <1>1
  <2>3. W = IF k \in s /\ Len(V) > 1 THEN Merged(V) ELSE V  BY Zenon, <1>6, <2>2
  <2>4. Chain(W) /\ (Len(W) = 0 \/ Len(W) = 1) /\ (V # <<>> => W # <<>> /\ Shown(Last(W)) = Shown(Last(V)))
        /\ (V = <<>> => W = <<>>)
    <3>1. CASE k \in s
      <4>1. KeySound(RolledBack(V), <<>>, k)  BY Zenon, <1>8, <1>13, <3>1
      <4>2. Len(RolledBack(V)) = 0 \/ Len(RolledBack(V)) = 1  BY Zenon, <4>1, SoundAtBase
      <4>3. V # <<>> /\ (Len(V) = 1 \/ Len(V) = 2)
        <5>1. V # <<>>  BY Zenon, <1>8, <3>1
        <5>2. Len(RolledBack(V)) = Len(V) - 1  BY Zenon, <1>11, <5>1
        <5>3. Len(V) = 1 \/ Len(V) = 2  BY ONLY <4>2, <5>2, <1>10
        <5> QED  BY Zenon, <5>1, <5>3
      <4>4. CASE Len(V) = 2
        <5>1. Len(V) > 1 /\ Len(V) - 1 = 1  BY <4>4
        <5> QED  BY Zenon, <1>7, <2>3, <3>1, <4>3, <5>1
      <4>5. CASE Len(V) = 1
        <5>1. ~(Len(V) > 1)  BY <4>5
        <5> QED  BY Zenon, <1>5, <2>3, <4>3, <4>5, <5>1
      <4> QED  BY Zenon, <4>3, <4>4, <4>5
    <3>2. CASE k \notin s
      <4>1. KeySound(V, <<>>, k)  BY Zenon, <1>9, <1>13, <3>2
      <4>2. Len(V) = 0 \/ Len(V) = 1  BY Zenon, <4>1, SoundAtBase
      <4> QED  BY Zenon, <1>5, <2>3, <3>2, <4>2
    <3> QED  BY Zenon, <3>1, <3>2
  <2>5. KeySound(W, G, k)  BY Zenon, <2>1, <2>4, SoundAtBase
  <2>6. ASSUME NEW d \in 0..(n - 1) PROVE d = n - 1  BY <2>2
  <2> QED  BY Zenon, <2>4, <2>5, <2>6, <1>12 DEF W, G, E, s, n
<1>14. CASE E # <<>>
  <2> DEFINE F == Front(E)
             t == Last(E)
             u == t \cup s
  <2>1. /\ F \in Seq(SUBSET K) /\ t \in SUBSET K /\ E = Append(F, t) /\ Len(E) \in Nat \ {0}
        /\ Len(F) = Len(E) - 1 /\ t = E[Len(E)]
    <3>1. t = E[Len(E)]  BY Zenon DEF Last
    <3> QED  BY Zenon, <3>1, <1>2, <1>14, FrontLast
  <2>2. F \in Seq(SUBSET K) /\ t \in SUBSET K /\ u \in SUBSET K  BY Zenon, <1>2, <2>1
  <2>3. G = Append(F, u)  BY Zenon, <1>14 DEF G, Grown
  <2>4. n > 1 /\ D[n - 1] = t
    <3>1. n > 1 /\ n - 1 = Len(E) /\ Len(E) \in 1..Len(E)  BY <1>1, <2>1
    <3>2. Append(E, s)[Len(E)] = E[Len(E)]
      <4> HIDE DEF F, t
      <4> QED  BY ONLY <1>2, <3>1
    <3> QED  BY Zenon, <3>1, <3>2, <1>1, <2>1
  <2>5. W = IF k \in s /\ k \in t THEN Merged(V) ELSE V  BY Zenon, <1>6, <2>4
  <2>6. E = Append(F, t)  BY Zenon, <2>1
  <2>7. ASSUME NEW d \in 0..(n - 1), d # n - 1 PROVE d \in 0..Len(E) /\ d \in 0..Len(F)
    BY <1>1, <2>1, <2>7
  <2> HIDE DEF F, t, u
  <2>8. CASE k \in s /\ k \in t
    <3>1. V # <<>> /\ KeySound(RolledBack(V), Append(F, t), k)  BY Zenon, <1>8, <2>6, <2>8
    <3>2. RolledBack(V) # <<>> /\ KeySound(RolledBack(RolledBack(V)), F, k)
      BY ONLY CountLaw, <2>2, <2>8, <3>1, SoundBelow
    <3>3. Len(V) > 1
      <4>1. Chain(RolledBack(V))  BY Zenon, <1>5, <3>1, RolledBackOf
      <4>2. Len(RolledBack(V)) # 0 /\ Len(RolledBack(V)) \in Nat  BY Zenon, <3>2, <4>1, EmptyOrNot
      <4>3. Len(RolledBack(V)) = Len(V) - 1  BY Zenon, <1>11, <3>1
      <4> QED  BY ONLY <4>2, <4>3, <1>10
    <3>4. /\ Chain(W) /\ W # <<>> /\ RolledBack(W) = RolledBack(RolledBack(V))
          /\ Shown(Last(W)) = Shown(Last(V))
      BY Zenon, <1>7, <2>5, <2>8, <3>3
    <3>5. k \in u  BY Zenon, <2>8 DEF u
    <3>6. KeySound(RolledBack(W), F, k)  BY Zenon, <3>2, <3>4
    <3>7. Chain(W) /\ W # <<>>  BY Zenon, <3>4
    <3>8. KeySound(W, Append(F, u), k)  BY ONLY CountLaw, <2>2, <3>5, <3>6, <3>7, SoundBelow
    <3>9. ASSUME NEW b, NEW d \in 0..(n - 1), d # n - 1
          PROVE  ValueOf(W, G, k, b, d) = ValueOf(V, D, k, b, d)
      <4>1. d \in 0..Len(E) /\ d \in 0..Len(F)  BY Zenon, <2>7, <3>9
      <4>2. ValueOf(V, Append(E, s), k, b, d) = ValueOf(RolledBack(V), E, k, b, d)
        BY ONLY CountLaw, <1>2, <2>8, <4>1, ValueBelow
      <4>3. ValueOf(RolledBack(V), Append(F, t), k, b, d) = ValueOf(RolledBack(RolledBack(V)), F, k, b, d)
        BY ONLY CountLaw, <2>2, <2>8, <4>1, ValueBelow
      <4>4. ValueOf(W, Append(F, u), k, b, d) = ValueOf(RolledBack(W), F, k, b, d)
        BY ONLY CountLaw, <2>2, <3>5, <4>1, ValueBelow
      <4> QED  BY Zenon, <1>1, <2>3, <2>6, <3>4, <4>2, <4>3, <4>4
    <3>10. KeySound(W, G, k)  BY Zenon, <2>3, <3>8
    <3> QED  BY Zenon, <1>12, <3>1, <3>4, <3>9, <3>10 DEF W, G, E, s, n
  <2>9. CASE ~(k \in s /\ k \in t)
    <3>1. W = V  BY Zenon, <2>5, <2>9
    <3>2. KeySound(V, Append(F, u), k)
      <4>1. CASE k \in s
        <5>1. k \notin t /\ k \in u  BY Zenon, <2>9, <4>1 DEF u
        <5>2. V # <<>> /\ KeySound(RolledBack(V), Append(F, t), k)  BY Zenon, <1>8, <2>6, <4>1
        <5>3. KeySound(RolledBack(V), F, k)  BY ONLY CountLaw, <2>2, <5>1, <5>2, SoundBelow
        <5> QED  BY ONLY CountLaw, <1>5, <2>2, <5>1, <5>2, <5>3, SoundBelow
      <4>2. CASE k \notin s
        <5>1. k \in u <=> k \in t  BY Zenon, <4>2 DEF u
        <5>2. KeySound(V, Append(F, t), k)  BY Zenon, <1>9, <2>6, <4>2
        <5> QED  BY ONLY CountLaw, <2>2, <5>1, <5>2, SoundBelow
      <4> QED  BY Zenon, <4>1, <4>2
    <3>3. ASSUME NEW b, NEW d \in 0..(n - 1), d # n - 1
          PROVE  ValueOf(V, Append(F, u), k, b, d) = ValueOf(V, D, k, b, d)
      <4>1. d \in 0..Len(E) /\ d \in 0..Len(F)  BY Zenon, <2>7, <3>3
      <4>2. CASE k \in s
        <5>1. k \notin t /\ k \in u  BY Zenon, <2>9, <4>2 DEF u
        <5>2. ValueOf(V, Append(E, s), k, b, d) = ValueOf(RolledBack(V), E, k, b, d)
          BY ONLY CountLaw, <1>2, <4>1, <4>2, ValueBelow
        <5>3. ValueOf(RolledBack(V), Append(F, t), k, b, d) = ValueOf(RolledBack(V), F, k, b, d)
          BY ONLY CountLaw, <2>2, <5>1, <4>1, ValueBelow
        <5>4. ValueOf(V, Append(F, u), k, b, d) = ValueOf(RolledBack(V), F, k, b, d)
          BY ONLY CountLaw, <2>2, <5>1, <4>1, ValueBelow
        <5> QED  BY Zenon, <1>1, <2>6, <5>2, <5>3, <5>4
      <4>3. CASE k \notin s
        <5>1. k \in u <=> k \in t  BY Zenon, <4>3 DEF u
        <5> DEFINE x == IF k \in t THEN ValueOf(RolledBack(V), F, k, b, d) ELSE ValueOf(V, F, k, b, d)
        <5>2. ValueOf(V, Append(E, s), k, b, d) = ValueOf(V, E, k, b, d)
          BY ONLY CountLaw, <1>2, <4>1, <4>3, ValueBelow
        <5>3. ValueOf(V, Append(F, t), k, b, d) = x  BY ONLY CountLaw, <2>2, <4>1, ValueBelow
        <5>4. ValueOf(V, Append(F, u), k, b, d) = x  BY ONLY CountLaw, <2>2, <5>1, <4>1, ValueBelow
        <5> QED  BY Zenon, <1>1, <2>6, <5>2, <5>3, <5>4
      <4> QED  BY Zenon, <4>2, <4>3
    <3> QED  BY Zenon, <1>12, <2>3, <3>1, <3>2, <3>3 DEF W, G, E, s, n
  <2> QED  BY Zenon, <2>8, <2>9
<1> QED  BY Zenon, <1>13, <1>14

-----------------------------------------------------------------------------
(* Change sets. *)

(* The fields of a change set. *)
LEMMA ChangeSetIs ==
  ASSUME NEW K, NEW cs \in ChangeSets(K)
  PROVE  /\ DOMAIN cs.changes \in SUBSET K /\ cs.changes \in [DOMAIN cs.changes -> Seq(Entries)]
         /\ cs.dirty \in Seq(SUBSET K) /\ Len(cs.dirty) \in Nat /\ cs.client \in Nat
         /\ cs.mode \in {"client", "runtime"}
         /\ cs = [changes |-> cs.changes, dirty |-> cs.dirty, client |-> cs.client, mode |-> cs.mode]
<1>1. /\ cs.changes \in UNION {[S -> Seq(Entries)] : S \in SUBSET K}
      /\ cs.dirty \in Seq(SUBSET K) /\ cs.client \in Nat /\ cs.mode \in {"client", "runtime"}
      /\ cs = [changes |-> cs.changes, dirty |-> cs.dirty, client |-> cs.client, mode |-> cs.mode]
  BY DEF ChangeSets
<1>2. PICK S \in SUBSET K : cs.changes \in [S -> Seq(Entries)]  BY <1>1
<1>3. DOMAIN cs.changes = S  BY <1>2
<1>4. Len(cs.dirty) \in Nat  BY <1>1
<1> QED  BY Zenon, <1>1, <1>2, <1>3, <1>4

(* The parts of a change set that is updated. *)
LEMMA UpdatedParts ==
  ASSUME NEW K, NEW cs \in ChangeSets(K), NEW g, NEW D, NEW m
  PROVE  /\ [cs EXCEPT !.changes = g, !.dirty = D]
              = [changes |-> g, dirty |-> D, client |-> cs.client, mode |-> cs.mode]
         /\ [cs EXCEPT !.dirty = D, !.changes = g]
              = [changes |-> g, dirty |-> D, client |-> cs.client, mode |-> cs.mode]
         /\ [cs EXCEPT !.changes = g]
              = [changes |-> g, dirty |-> cs.dirty, client |-> cs.client, mode |-> cs.mode]
         /\ [cs EXCEPT !.dirty = D]
              = [changes |-> cs.changes, dirty |-> D, client |-> cs.client, mode |-> cs.mode]
         /\ [cs EXCEPT !.mode = m]
              = [changes |-> cs.changes, dirty |-> cs.dirty, client |-> cs.client, mode |-> m]
<1>1. cs = [changes |-> cs.changes, dirty |-> cs.dirty, client |-> cs.client, mode |-> cs.mode]
  BY Zenon, ChangeSetIs
<1>2. PICK f, E, a, n : cs = [changes |-> f, dirty |-> E, client |-> a, mode |-> n]  BY Zenon, <1>1
<1>3. cs.changes = f /\ cs.dirty = E /\ cs.client = a /\ cs.mode = n  BY ONLY <1>2
<1> DEFINE r == [cs EXCEPT !.changes = g]
           q == [cs EXCEPT !.dirty = D]
           p == [cs EXCEPT !.mode = m]
<1>4. r = [changes |-> g, dirty |-> E, client |-> a, mode |-> n]  BY ONLY <1>2
<1>5. q = [changes |-> f, dirty |-> D, client |-> a, mode |-> n]  BY ONLY <1>2
<1>6. p = [changes |-> f, dirty |-> E, client |-> a, mode |-> m]  BY ONLY <1>2
<1>7. [cs EXCEPT !.changes = g, !.dirty = D] = [r EXCEPT !.dirty = D]  BY ONLY Zenon
<1>8. [cs EXCEPT !.dirty = D, !.changes = g] = [q EXCEPT !.changes = g]  BY ONLY Zenon
<1> HIDE DEF r, q, p
<1>10. [r EXCEPT !.dirty = D] = [changes |-> g, dirty |-> D, client |-> a, mode |-> n]  BY ONLY <1>4
<1>11. [q EXCEPT !.changes = g] = [changes |-> g, dirty |-> D, client |-> a, mode |-> n]  BY ONLY <1>5
<1> QED  BY Zenon, <1>3, <1>4, <1>5, <1>6, <1>7, <1>8, <1>10, <1>11 DEF r, q, p

(* And of one whose execution mode changes. *)
LEMMA RemodedParts ==
  ASSUME NEW K, NEW cs \in ChangeSets(K), NEW c, NEW m
  PROVE  [cs EXCEPT !.mode = m, !.client = c]
              = [changes |-> cs.changes, dirty |-> cs.dirty, client |-> c, mode |-> m]
<1> DEFINE p == [cs EXCEPT !.mode = m]
<1>1. cs = [changes |-> cs.changes, dirty |-> cs.dirty, client |-> cs.client, mode |-> cs.mode]
  BY Zenon, ChangeSetIs
<1>2. PICK f, E, a, n : cs = [changes |-> f, dirty |-> E, client |-> a, mode |-> n]  BY Zenon, <1>1
<1>3. cs.changes = f /\ cs.dirty = E  BY ONLY <1>2
<1>4. p = [changes |-> f, dirty |-> E, client |-> a, mode |-> m]  BY ONLY <1>2
<1>5. [cs EXCEPT !.mode = m, !.client = c] = [p EXCEPT !.client = c]  BY ONLY Zenon
<1> HIDE DEF p
<1>6. [p EXCEPT !.client = c] = [changes |-> f, dirty |-> E, client |-> c, mode |-> m]  BY ONLY <1>4
<1> QED  BY Zenon, <1>3, <1>5, <1>6

\* A change set with given parts
Made(cs, K, S, f, D, c, m) ==
  /\ cs \in ChangeSets(K) /\ cs.changes = f /\ cs.dirty = D /\ cs.client = c /\ cs.mode = m
  /\ DOMAIN cs.changes = S
  /\ \A k : Versions(cs, k) = IF k \in S THEN f[k] ELSE <<>>

(* A change set from its parts. *)
LEMMA MadeChangeSet ==
  ASSUME NEW K, NEW S \in SUBSET K, NEW f \in [S -> Seq(Entries)], NEW D \in Seq(SUBSET K),
         NEW c \in Nat, NEW m \in {"client", "runtime"}
  PROVE  Made([changes |-> f, dirty |-> D, client |-> c, mode |-> m], K, S, f, D, c, m)
<1> DEFINE cs == [changes |-> f, dirty |-> D, client |-> c, mode |-> m]
<1>1. f \in UNION {[T -> Seq(Entries)] : T \in SUBSET K}  OBVIOUS
<1>2. cs \in ChangeSets(K)  BY <1>1 DEF ChangeSets
<1>3. cs.changes = f /\ cs.dirty = D /\ cs.client = c /\ cs.mode = m  OBVIOUS
<1>4. DOMAIN f = S  OBVIOUS
<1> HIDE DEF cs
<1>5. \A k : Versions(cs, k) = IF k \in S THEN f[k] ELSE <<>>
  BY Zenon, <1>3, <1>4 DEF Versions
<1> QED  BY Zenon, <1>2, <1>3, <1>4, <1>5 DEF cs, Made

(* The versions of a key of a change set. *)
LEMMA VersionsIs ==
  ASSUME NEW K, NEW cs, Sound(cs, K), NEW k \in K
  PROVE  /\ KeySound(Versions(cs, k), cs.dirty, k) /\ Chain(Versions(cs, k))
         /\ k \in DOMAIN cs.changes <=> Versions(cs, k) # <<>>
         /\ Versions(cs, k) \in Seq(Entries)
<1>1. KeySound(Versions(cs, k), cs.dirty, k)  BY Zenon DEF Sound
<1>2. Chain(Versions(cs, k))  BY Zenon, <1>1 DEF KeySound
<1>3. k \in DOMAIN cs.changes <=> Versions(cs, k) # <<>>  BY Zenon DEF Sound, Versions
<1>4. Versions(cs, k) \in Seq(Entries)  BY Zenon, <1>2 DEF Chain
<1> QED  BY Zenon, <1>1, <1>2, <1>3, <1>4

\* "ds" is "cs" after the keys of S were written in the last transaction.
Rewritten(cs, ds, S, K) ==
  /\ ds \in ChangeSets(K) /\ ds.dirty = Grown(cs.dirty, S)
  /\ ds.client = cs.client /\ ds.mode = cs.mode
  /\ \A k \in S : Changed(Versions(cs, k), Versions(ds, k), insert_dirty(cs, k))
  /\ \A k \in K \ S : Versions(ds, k) = Versions(cs, k)
  /\ \A k \in DOMAIN ds.changes : ds.changes[k] # <<>>

\* What the writes change: what their keys show now
Rewrites(cs, ds, S, K) ==
  /\ Sound(ds, K) /\ Alongside(ds, cs)
  /\ \A k \in S : \A b : ValueIn(ds, k, b, Len(cs.dirty)) = Shown(Last(Versions(ds, k)))
  /\ \A k \in K : \A b : \A d \in 0..Len(cs.dirty) :
        k \notin S \/ d # Len(cs.dirty) => ValueIn(ds, k, b, d) = ValueIn(cs, k, b, d)

(* Writes change what their keys show now, and nothing else. *)
LEMMA RewrittenIs ==
  ASSUME CountLaw, NEW K, NEW cs, Sound(cs, K), NEW S \in SUBSET K, NEW ds, Rewritten(cs, ds, S, K)
  PROVE  Rewrites(cs, ds, S, K)
<1>1. cs \in ChangeSets(K)  BY Zenon DEF Sound
<1>2. cs.dirty \in Seq(SUBSET K)  BY Zenon, <1>1, ChangeSetIs
<1>3. Len(ds.dirty) = Len(cs.dirty)
  <2> DEFINE D == cs.dirty
  <2>1. D \in Seq(SUBSET K)  BY Zenon, <1>2
  <2> HIDE DEF D
  <2>2. Len(Grown(D, S)) = Len(D)  BY Zenon, <2>1, GrownIsLevels
  <2> QED  BY Zenon, <2>2 DEF Rewritten, D
<1>4. ASSUME NEW k \in S
      PROVE  /\ KeySound(Versions(ds, k), ds.dirty, k)
             /\ \A b : ValueIn(ds, k, b, Len(cs.dirty)) = Shown(Last(Versions(ds, k)))
             /\ \A b : \A d \in 0..Len(cs.dirty) :
                   d # Len(cs.dirty) => ValueIn(ds, k, b, d) = ValueIn(cs, k, b, d)
  <2> DEFINE V == Versions(cs, k)
             W == Versions(ds, k)
             D == cs.dirty
  <2>1. k \in K  OBVIOUS
  <2>2. KeySound(V, D, k)  BY Zenon, <2>1 DEF Sound
  <2>3. Changed(V, W, FirstWrite(D, k))
    <3>1. Changed(V, W, insert_dirty(cs, k))  BY Zenon, <1>4 DEF Rewritten
    <3> QED  BY Zenon, <3>1 DEF Changed, insert_dirty, FirstWrite
  <2>4. D \in Seq(SUBSET K)  BY Zenon, <1>2
  <2>5. ds.dirty = Grown(D, S)  BY Zenon DEF Rewritten
  <2> HIDE DEF V, W, D
  <2>6. Updated(V, W, D, S, k)  BY Zenon, <1>4, <2>2, <2>3, <2>4, KeyWritten
  <2> QED  BY Zenon, <2>5, <2>6 DEF Updated, ValueIn, V, W, D
<1>5. ASSUME NEW k \in K, k \notin S
      PROVE  /\ KeySound(Versions(ds, k), ds.dirty, k)
             /\ \A b : \A d \in 0..Len(cs.dirty) : ValueIn(ds, k, b, d) = ValueIn(cs, k, b, d)
  <2> DEFINE V == Versions(cs, k)
             D == cs.dirty
  <2>1. Versions(ds, k) = V  BY Zenon, <1>5 DEF Rewritten
  <2>2. KeySound(V, D, k)  BY Zenon DEF Sound
  <2>3. D \in Seq(SUBSET K)  BY Zenon, <1>2
  <2>4. ds.dirty = Grown(D, S)  BY Zenon DEF Rewritten
  <2> HIDE DEF V, D
  <2>5. /\ KeySound(V, Grown(D, S), k)
        /\ \A b : \A d \in 0..Len(D) : ValueOf(V, Grown(D, S), k, b, d) = ValueOf(V, D, k, b, d)
    BY <1>5, <2>2, <2>3, KeyNotWritten
  <2> QED  BY Zenon, <2>1, <2>4, <2>5 DEF ValueIn, V, D
<1>6. Sound(ds, K)  BY Zenon, <1>4, <1>5 DEF Sound, Rewritten
<1>7. Alongside(ds, cs)  BY Zenon, <1>3 DEF Alongside, Rewritten
<1> QED  BY Zenon, <1>4, <1>5, <1>6, <1>7 DEF Rewrites

\* One key is written.
Writing(cs, ds, k, W, K) == Rewritten(cs, ds, {k}, K) /\ Versions(ds, k) = W

(* OverlayedMap::set_storage and append_storage write one key. *)
LEMMA WrittenIs ==
  ASSUME NEW K, NEW cs, Sound(cs, K), NEW k \in K, NEW W, Changed(Versions(cs, k), W, insert_dirty(cs, k))
  PROVE  Writing(cs, Written(cs, k, W), k, W, K)
<1> DEFINE f == cs.changes
           S == DOMAIN f \cup {k}
           g == With(f, k, W)
           D == Dirtied(cs.dirty, k)
           ds == [changes |-> g, dirty |-> D, client |-> cs.client, mode |-> cs.mode]
<1>1. cs \in ChangeSets(K)  BY Zenon DEF Sound
<1>2. /\ DOMAIN f \in SUBSET K /\ f \in [DOMAIN f -> Seq(Entries)]
      /\ cs.dirty \in Seq(SUBSET K) /\ cs.client \in Nat /\ cs.mode \in {"client", "runtime"}
      /\ cs = [changes |-> f, dirty |-> cs.dirty, client |-> cs.client, mode |-> cs.mode]
  BY Zenon, <1>1, ChangeSetIs
<1>3. Written(cs, k, W) = ds
  <2>1. Written(cs, k, W) = [cs EXCEPT !.changes = g, !.dirty = D]  BY Zenon DEF Written
  <2> HIDE DEF g, D
  <2> QED  BY Zenon, <1>1, <2>1, UpdatedParts
<1>4. W \in Seq(Entries) /\ W # <<>>  BY Zenon DEF Changed, Chain
<1>5. g \in [S -> Seq(Entries)] /\ \A l \in S : g[l] = IF l = k THEN W ELSE f[l]
  <2>1. g = [l \in S |-> IF l = k THEN W ELSE f[l]]  BY Zenon DEF With
  <2> HIDE DEF f, g
  <2> QED  BY <1>2, <1>4, <2>1
<1>6. D = Grown(cs.dirty, {k})  BY Zenon DEF Dirtied, Grown, Replaced
<1>7. S \in SUBSET K /\ {k} \in SUBSET K  BY Zenon, <1>2
<1> HIDE DEF f, g, S, D
<1>8. D \in Seq(SUBSET K)
  <2> DEFINE E == cs.dirty
  <2>1. E \in Seq(SUBSET K)  BY Zenon, <1>2
  <2> HIDE DEF E
  <2>2. Grown(E, {k}) \in Seq(SUBSET K)  BY Zenon, <1>7, <2>1, GrownIsLevels
  <2> QED  BY Zenon, <1>6, <2>2 DEF E
<1>9. g \in [S -> Seq(Entries)]  BY Zenon, <1>5
<1>10. cs.client \in Nat /\ cs.mode \in {"client", "runtime"}  BY Zenon, <1>2
<1>a. Made(ds, K, S, g, D, cs.client, cs.mode)
  <2> DEFINE c == cs.client
             m == cs.mode
  <2>1. c \in Nat /\ m \in {"client", "runtime"}  BY Zenon, <1>10
  <2> HIDE DEF c, m
  <2>2. Made([changes |-> g, dirty |-> D, client |-> c, mode |-> m], K, S, g, D, c, m)
    BY ONLY Zenon, <1>7, <1>8, <1>9, <2>1, MadeChangeSet
  <2> QED  BY Zenon, <2>2 DEF c, m
<1> HIDE DEF ds
<1>11. /\ ds \in ChangeSets(K) /\ ds.changes = g /\ ds.dirty = D /\ ds.client = cs.client
       /\ ds.mode = cs.mode /\ DOMAIN ds.changes = S
       /\ \A l : Versions(ds, l) = IF l \in S THEN g[l] ELSE <<>>
  BY Zenon, <1>a DEF Made
<1>12. Versions(ds, k) = W  BY Zenon, <1>5, <1>11 DEF S
<1>13. ASSUME NEW l \in K \ {k} PROVE Versions(ds, l) = Versions(cs, l)
  BY Zenon, <1>5, <1>11 DEF S, f, Versions
<1>14. ASSUME NEW l \in DOMAIN ds.changes PROVE ds.changes[l] # <<>>
  <2>1. CASE l = k  BY Zenon, <1>4, <1>5, <1>11, <2>1
  <2>2. CASE l # k
    <3>1. l \in DOMAIN f /\ g[l] = f[l]  BY Zenon, <1>5, <1>11, <1>14, <2>2 DEF S
    <3> QED  BY Zenon, <1>11, <3>1 DEF Sound, f
  <2> QED  BY Zenon, <2>1, <2>2
<1>15. ASSUME NEW l \in {k} PROVE Changed(Versions(cs, l), Versions(ds, l), insert_dirty(cs, l))
  <2>1. l = k  OBVIOUS
  <2> QED  BY Zenon, <1>12, <2>1
<1> QED  BY Zenon, <1>3, <1>6, <1>11, <1>12, <1>13, <1>14, <1>15 DEF Rewritten, Writing

(* A key is set. *)
LEMMA SetStorageIs ==
  ASSUME CountLaw, NEW K, NEW cs, Sound(cs, K), NEW k \in K, NEW v \in Entries, v.tag # "append"
  PROVE  Puts(cs, set(cs, k, v), k, Shown(v), K)
<1> DEFINE W == entry_set(Versions(cs, k), v, insert_dirty(cs, k))
           ds == Written(cs, k, W)
<1>1. Chain(Versions(cs, k))  BY Zenon, VersionsIs
<1>2. Changed(Versions(cs, k), W, insert_dirty(cs, k)) /\ Last(W) = v  BY Zenon, <1>1, SetIs
<1>3. set(cs, k, v) = ds  BY Zenon DEF set
<1> HIDE DEF W
<1>a. Changed(Versions(cs, k), W, insert_dirty(cs, k))  BY Zenon, <1>2
<1>b. Writing(cs, Written(cs, k, W), k, W, K)  BY ONLY Zenon, Sound(cs, K), k \in K, <1>a, WrittenIs
<1>4. Rewritten(cs, ds, {k}, K) /\ Versions(ds, k) = W  BY Zenon, <1>b DEF Writing
<1>5. {k} \in SUBSET K  OBVIOUS
<1> HIDE DEF ds
<1>c. Rewrites(cs, ds, {k}, K)  BY Zenon, <1>4, <1>5, RewrittenIs
<1>6. /\ Sound(ds, K) /\ Alongside(ds, cs)
      /\ \A l \in {k} : \A b : ValueIn(ds, l, b, Len(cs.dirty)) = Shown(Last(Versions(ds, l)))
      /\ \A l \in K : \A b : \A d \in 0..Len(cs.dirty) :
            l \notin {k} \/ d # Len(cs.dirty) => ValueIn(ds, l, b, d) = ValueIn(cs, l, b, d)
  BY Zenon, <1>c DEF Rewrites
<1>7. Alters(cs, ds, {k}, K)  BY Zenon, <1>6 DEF Alters
<1>8. \A b : ValueIn(ds, k, b, Len(cs.dirty)) = Shown(v)  BY Zenon, <1>2, <1>4, <1>6
<1> QED  BY Zenon, <1>3, <1>7, <1>8 DEF Puts

(* An element is appended to the list at a key. *)
LEMMA AppendStorageIs ==
  ASSUME CountLaw, NEW K, NEW cs, Sound(cs, K), NEW k \in K, NEW e \in Bytes, NEW init, WellCoded(init)
  PROVE  Puts(cs, append_storage(cs, k, e, init), k,
              <<More(IF Versions(cs, k) = <<>> THEN init ELSE Plain(Last(Versions(cs, k))), e)>>, K)
<1> DEFINE V == Versions(cs, k)
           W == entry_append(V, e, insert_dirty(cs, k), init)
           ds == Written(cs, k, W)
           x == <<More(IF V = <<>> THEN init ELSE Plain(Last(V)), e)>>
<1>1. Chain(V)  BY Zenon, VersionsIs
<1>2. Changed(V, W, insert_dirty(cs, k)) /\ Shown(Last(W)) = x  BY Zenon, <1>1, AppendIs
<1>3. append_storage(cs, k, e, init) = ds  BY Zenon DEF append_storage
<1> HIDE DEF W, x
<1>a. Changed(Versions(cs, k), W, insert_dirty(cs, k))  BY Zenon, <1>2
<1>b. Writing(cs, Written(cs, k, W), k, W, K)  BY ONLY Zenon, Sound(cs, K), k \in K, <1>a, WrittenIs
<1>4. Rewritten(cs, ds, {k}, K) /\ Versions(ds, k) = W  BY Zenon, <1>b DEF Writing
<1>5. {k} \in SUBSET K  OBVIOUS
<1> HIDE DEF ds
<1>c. Rewrites(cs, ds, {k}, K)  BY Zenon, <1>4, <1>5, RewrittenIs
<1>6. /\ Sound(ds, K) /\ Alongside(ds, cs)
      /\ \A l \in {k} : \A b : ValueIn(ds, l, b, Len(cs.dirty)) = Shown(Last(Versions(ds, l)))
      /\ \A l \in K : \A b : \A d \in 0..Len(cs.dirty) :
            l \notin {k} \/ d # Len(cs.dirty) => ValueIn(ds, l, b, d) = ValueIn(cs, l, b, d)
  BY Zenon, <1>c DEF Rewrites
<1>7. Alters(cs, ds, {k}, K)  BY Zenon, <1>6 DEF Alters
<1>8. \A b : ValueIn(ds, k, b, Len(cs.dirty)) = x  BY Zenon, <1>2, <1>4, <1>6
<1>9. Puts(cs, ds, k, x, K)  BY Zenon, <1>7, <1>8 DEF Puts
<1> QED  BY Zenon, <1>3, <1>9 DEF x

(* A removed value shows none. *)
LEMMA RemoveEntryIs == RemoveEntry \in Entries /\ RemoveEntry.tag # "append" /\ Shown(RemoveEntry) = <<>>
<1>1. RemoveEntry.tag = "remove"  BY DEF RemoveEntry
<1>2. RemoveEntry \in Entries  BY Zenon DEF Entries
<1>3. RemoveEntry.tag # "append" /\ RemoveEntry.tag # "set"  BY <1>1
<1> QED  BY Zenon, <1>2, <1>3, PlainIs

(* clear_where and limit_remove_from_backend remove keys. *)
LEMMA RemovedAllIs ==
  ASSUME CountLaw, NEW K, NEW cs, Sound(cs, K), NEW S \in SUBSET K
  PROVE  Removes(cs, RemovedAll(cs, S), S, K)
<1> DEFINE f == cs.changes
           T == DOMAIN f \cup S
           W(k) == entry_set(Versions(cs, k), RemoveEntry, insert_dirty(cs, k))
           g == [k \in T |-> IF k \in S THEN W(k) ELSE f[k]]
           D == IF cs.dirty = <<>> THEN cs.dirty ELSE Replaced(cs.dirty, Last(cs.dirty) \cup S)
           c == cs.client
           m == cs.mode
           ds == [changes |-> g, dirty |-> D, client |-> c, mode |-> m]
<1>1. cs \in ChangeSets(K)  BY Zenon DEF Sound
<1>2. /\ DOMAIN f \in SUBSET K /\ f \in [DOMAIN f -> Seq(Entries)]
      /\ cs.dirty \in Seq(SUBSET K) /\ c \in Nat /\ m \in {"client", "runtime"}
      /\ cs = [changes |-> f, dirty |-> cs.dirty, client |-> c, mode |-> m]
  BY Zenon, <1>1, ChangeSetIs
<1>3. RemovedAll(cs, S) = ds
  <2>1. RemovedAll(cs, S) = [cs EXCEPT !.changes = g, !.dirty = D]
    BY Zenon DEF RemovedAll
  <2> HIDE DEF g, D
  <2> QED  BY Zenon, <1>1, <2>1, UpdatedParts
<1>4. ASSUME NEW k \in S
      PROVE  Changed(Versions(cs, k), W(k), insert_dirty(cs, k)) /\ Last(W(k)) = RemoveEntry
  <2>1. k \in K  OBVIOUS
  <2>2. Chain(Versions(cs, k))  BY Zenon, <2>1, VersionsIs
  <2> QED  BY Zenon, <2>2, SetIs, RemoveEntryIs
<1>5. ASSUME NEW k \in S PROVE W(k) \in Seq(Entries) /\ W(k) # <<>>
  BY Zenon, <1>4 DEF Changed, Chain
<1> HIDE DEF W
<1>6. g \in [T -> Seq(Entries)] /\ \A l \in T : g[l] = IF l \in S THEN W(l) ELSE f[l]
  <2> HIDE DEF f
  <2>1. ASSUME NEW l \in T PROVE (IF l \in S THEN W(l) ELSE f[l]) \in Seq(Entries)
    BY <1>2, <1>5
  <2> QED  BY Zenon, <2>1
<1>7. D = Grown(cs.dirty, S)  BY Zenon DEF Grown, Replaced
<1>8. T \in SUBSET K  BY Zenon, <1>2
<1> HIDE DEF f, g, T, D, c, m
<1>9. D \in Seq(SUBSET K)
  <2> DEFINE E == cs.dirty
  <2>1. E \in Seq(SUBSET K)  BY Zenon, <1>2
  <2> HIDE DEF E
  <2>2. Grown(E, S) \in Seq(SUBSET K)  BY Zenon, <2>1, GrownIsLevels
  <2> QED  BY Zenon, <1>7, <2>2 DEF E
<1>10. g \in [T -> Seq(Entries)] /\ c \in Nat /\ m \in {"client", "runtime"}  BY Zenon, <1>2, <1>6
<1>11. Made(ds, K, T, g, D, c, m)  BY ONLY Zenon, <1>8, <1>9, <1>10, MadeChangeSet
<1> HIDE DEF ds
<1>12. /\ ds \in ChangeSets(K) /\ ds.changes = g /\ ds.dirty = D /\ ds.client = c
       /\ ds.mode = m /\ DOMAIN ds.changes = T
       /\ \A l : Versions(ds, l) = IF l \in T THEN g[l] ELSE <<>>
  BY Zenon, <1>11 DEF Made
<1>13. ASSUME NEW k \in S PROVE Versions(ds, k) = W(k)  BY Zenon, <1>6, <1>12 DEF T
<1>14. ASSUME NEW l \in K \ S PROVE Versions(ds, l) = Versions(cs, l)
  BY Zenon, <1>6, <1>12 DEF T, f, Versions
<1>15. ASSUME NEW l \in DOMAIN ds.changes PROVE ds.changes[l] # <<>>
  <2>1. CASE l \in S  BY Zenon, <1>5, <1>6, <1>12, <2>1 DEF T
  <2>2. CASE l \notin S
    <3>1. l \in DOMAIN f /\ g[l] = f[l]  BY Zenon, <1>6, <1>12, <1>15, <2>2 DEF T
    <3> QED  BY Zenon, <1>12, <3>1 DEF Sound, f
  <2> QED  BY Zenon, <2>1, <2>2
<1>16. ASSUME NEW k \in S PROVE Changed(Versions(cs, k), Versions(ds, k), insert_dirty(cs, k))
  BY Zenon, <1>4, <1>13
<1>17. Rewritten(cs, ds, S, K)
  BY Zenon, <1>7, <1>12, <1>14, <1>15, <1>16 DEF Rewritten, c, m
<1>18. Rewrites(cs, ds, S, K)  BY Zenon, <1>17, RewrittenIs
<1>19. ASSUME NEW k \in S PROVE Shown(Last(Versions(ds, k))) = <<>>
  BY Zenon, <1>4, <1>13, RemoveEntryIs
<1> QED  BY Zenon, <1>3, <1>18, <1>19 DEF Removes, Rewrites

(* Reads change nothing that is seen at any depth. *)
LEMMA ReadInIs ==
  ASSUME CountLaw, NEW K, NEW cs, Sound(cs, K), NEW S
  PROVE  Reads(cs, ReadIn(cs, S), K)
<1> DEFINE f == cs.changes
           T == DOMAIN f
           g == [k \in T |-> IF k \in S THEN Read(f[k]) ELSE f[k]]
           D == cs.dirty
           c == cs.client
           m == cs.mode
           ds == [changes |-> g, dirty |-> D, client |-> c, mode |-> m]
<1>1. cs \in ChangeSets(K)  BY Zenon DEF Sound
<1>2. T \in SUBSET K /\ D \in Seq(SUBSET K) /\ c \in Nat /\ m \in {"client", "runtime"}
  BY Zenon, <1>1, ChangeSetIs
<1>3. ReadIn(cs, S) = ds  BY Zenon DEF ReadIn
<1>4. ASSUME NEW k \in T
      PROVE  /\ KeySound(f[k], D, k) /\ f[k] # <<>> /\ f[k] \in Seq(Entries)
             /\ KeySound(Read(f[k]), D, k) /\ Read(f[k]) # <<>> /\ Read(f[k]) \in Seq(Entries)
             /\ \A b : \A d \in 0..Len(D) : ValueOf(Read(f[k]), D, k, b, d) = ValueOf(f[k], D, k, b, d)
  <2> DEFINE V == f[k]
  <2>1. k \in K  BY Zenon, <1>2
  <2>2. V = Versions(cs, k)  BY Zenon DEF Versions
  <2>3. KeySound(V, D, k) /\ Chain(V) /\ V # <<>> /\ V \in Seq(Entries)
    BY Zenon, <2>1, <2>2, VersionsIs
  <2> HIDE DEF V, D
  <2>4. Same(V, Read(V)) /\ Read(V) # <<>>  BY Zenon, <2>3, ReadIs
  <2>5. Read(V) \in Seq(Entries)  BY Zenon, <2>4 DEF Same, Chain
  <2>6. /\ KeySound(Read(V), D, k)
        /\ \A b : \A d \in 0..Len(D) : ValueOf(Read(V), D, k, b, d) = ValueOf(V, D, k, b, d)
    BY <1>2, <2>3, KeyRead
  <2> QED  BY Zenon, <2>3, <2>4, <2>5, <2>6 DEF V
<1>5. \A k \in T : g[k] = IF k \in S THEN Read(f[k]) ELSE f[k]  OBVIOUS
<1>6. g \in [T -> Seq(Entries)]
  <2> HIDE DEF f
  <2>1. ASSUME NEW l \in T PROVE (IF l \in S THEN Read(f[l]) ELSE f[l]) \in Seq(Entries)
    BY Zenon, <1>4
  <2> QED  BY Zenon, <2>1
<1> HIDE DEF g
<1>7. Made(ds, K, T, g, D, c, m)
  <2> HIDE DEF T, D, c, m
  <2> QED  BY ONLY Zenon, <1>2, <1>6, MadeChangeSet
<1> HIDE DEF ds
<1>8. /\ ds \in ChangeSets(K) /\ ds.changes = g /\ ds.dirty = D /\ ds.client = c
      /\ ds.mode = m /\ DOMAIN ds.changes = T
      /\ \A l : Versions(ds, l) = IF l \in T THEN g[l] ELSE <<>>
  BY Zenon, <1>7 DEF Made
<1>9. ASSUME NEW k \in K
      PROVE  /\ KeySound(Versions(ds, k), ds.dirty, k)
             /\ \A b : \A d \in 0..Len(D) : ValueIn(ds, k, b, d) = ValueIn(cs, k, b, d)
  <2>1. Versions(cs, k) = IF k \in T THEN f[k] ELSE <<>>  BY Zenon DEF Versions
  <2>2. KeySound(Versions(cs, k), D, k)  BY Zenon DEF Sound
  <2>3. Versions(ds, k) = IF k \in T THEN IF k \in S THEN Read(f[k]) ELSE f[k] ELSE <<>>
    BY Zenon, <1>5, <1>8
  <2>4. CASE k \in T /\ k \in S
    <3>1. Versions(ds, k) = Read(f[k]) /\ Versions(cs, k) = f[k]  BY Zenon, <2>1, <2>3, <2>4
    <3> QED  BY Zenon, <1>4, <1>8, <2>4, <3>1 DEF ValueIn
  <2>5. CASE ~(k \in T /\ k \in S)
    <3>1. Versions(ds, k) = Versions(cs, k)  BY <2>1, <2>3, <2>5
    <3> QED  BY Zenon, <1>8, <2>2, <3>1 DEF ValueIn
  <2> QED  BY Zenon, <2>4, <2>5
<1>10. ASSUME NEW k \in DOMAIN ds.changes PROVE ds.changes[k] # <<>>
  BY Zenon, <1>4, <1>5, <1>8, <1>10
<1> QED  BY Zenon, <1>3, <1>8, <1>9, <1>10 DEF Reads, Sound, Alongside

-----------------------------------------------------------------------------
(* Transactions. *)

(* A transaction starts with what is seen, and hides nothing of what is below. *)
LEMMA StartIs ==
  ASSUME CountLaw, NEW K, NEW cs, Sound(cs, K)
  PROVE  Starts(cs, start_transaction(cs), K)
<1> DEFINE f == cs.changes
           T == DOMAIN f
           E == cs.dirty
           D == Append(E, {})
           c == cs.client
           m == cs.mode
           ds == [changes |-> f, dirty |-> D, client |-> c, mode |-> m]
<1>1. cs \in ChangeSets(K)  BY Zenon DEF Sound
<1>2. /\ T \in SUBSET K /\ f \in [T -> Seq(Entries)] /\ E \in Seq(SUBSET K) /\ Len(E) \in Nat
      /\ c \in Nat /\ m \in {"client", "runtime"}
  BY Zenon, <1>1, ChangeSetIs
<1>3. start_transaction(cs) = ds
  <2>1. start_transaction(cs) = [cs EXCEPT !.dirty = D]  BY Zenon DEF start_transaction
  <2> HIDE DEF D
  <2> QED  BY Zenon, <1>1, <2>1, UpdatedParts
<1>4. {} \in SUBSET K  OBVIOUS
<1> HIDE DEF E
<1>5. D \in Seq(SUBSET K) /\ Len(D) = Len(E) + 1  BY Zenon, <1>2, <1>4, FrontOfAppend
<1>6. Made(ds, K, T, f, D, c, m)
  <2> HIDE DEF T, f, D, c, m
  <2> QED  BY ONLY Zenon, <1>2, <1>5, MadeChangeSet
<1> HIDE DEF ds, D
<1>7. /\ ds \in ChangeSets(K) /\ ds.changes = f /\ ds.dirty = D /\ ds.client = c /\ ds.mode = m
  BY Zenon, <1>6 DEF Made
<1>8. ASSUME NEW k \in K
      PROVE  /\ KeySound(Versions(ds, k), D, k)
             /\ \A b : ValueIn(ds, k, b, Len(E) + 1) = ValueIn(cs, k, b, Len(E))
             /\ \A b : \A d \in 0..Len(E) : ValueIn(ds, k, b, d) = ValueIn(cs, k, b, d)
  <2> DEFINE V == Versions(cs, k)
  <2>1. Versions(ds, k) = V  BY Zenon, <1>7 DEF Versions
  <2>2. KeySound(V, E, k)  BY Zenon DEF Sound, E
  <2>3. ~(k \in {})  OBVIOUS
  <2> HIDE DEF V
  <2>4. KeySound(V, D, k)  BY ONLY CountLaw, <1>2, <1>4, <2>2, <2>3, SoundBelow DEF D
  <2>5. ASSUME NEW b PROVE ValueOf(V, D, k, b, Len(D)) = ValueOf(V, E, k, b, Len(E))
    BY ONLY CountLaw, <1>2, <1>5, ValueOnTop
  <2>6. ASSUME NEW b, NEW d \in 0..Len(E) PROVE ValueOf(V, D, k, b, d) = ValueOf(V, E, k, b, d)
    BY ONLY CountLaw, <1>2, <1>4, <2>3, d \in 0..Len(E), ValueBelow DEF D
  <2> QED  BY Zenon, <1>5, <1>7, <2>1, <2>4, <2>5, <2>6 DEF ValueIn, V, E
<1>9. \A k \in DOMAIN ds.changes : ds.changes[k] # <<>>  BY Zenon, <1>7 DEF Sound
<1> QED  BY Zenon, <1>3, <1>5, <1>7, <1>8, <1>9 DEF Starts, Sound, E

(* A roll back leaves what was below the transaction. *)
LEMMA RollbackIs ==
  ASSUME CountLaw, NEW K, NEW cs, Sound(cs, K), cs.dirty # <<>>
  PROVE  RollsBack(cs, rollback_transaction(cs), K)
<1> DEFINE f == cs.changes
           G == cs.dirty
           D == Front(G)
           s == Last(G)
           back == [k \in s |-> RolledBack(f[k])]
           T == DOMAIN f \ {l \in s : back[l] = <<>>}
           g == [k \in T |-> IF k \in s THEN back[k] ELSE f[k]]
           c == cs.client
           m == cs.mode
           ds == [changes |-> g, dirty |-> D, client |-> c, mode |-> m]
<1>1. cs \in ChangeSets(K)  BY Zenon DEF Sound
<1>2. /\ DOMAIN f \in SUBSET K /\ f \in [DOMAIN f -> Seq(Entries)] /\ G \in Seq(SUBSET K)
      /\ c \in Nat /\ m \in {"client", "runtime"}
  BY Zenon, <1>1, ChangeSetIs
<1>3. rollback_transaction(cs) = ds
  <2>1. rollback_transaction(cs) = [cs EXCEPT !.dirty = D, !.changes = g]
    BY Zenon DEF rollback_transaction
  <2> HIDE DEF D, g
  <2> QED  BY Zenon, <1>1, <2>1, UpdatedParts
<1>4. G # <<>>  OBVIOUS
<1>a. \A k \in K : KeySound(Versions(cs, k), G, k)  BY Zenon DEF Sound
<1> HIDE DEF G
<1>5. /\ D \in Seq(SUBSET K) /\ s \in SUBSET K /\ G = Append(D, s) /\ Len(D) = Len(G) - 1
      /\ Len(G) \in Nat \ {0}
  BY Zenon, <1>2, <1>4, FrontLast
<1>6. D \in Seq(SUBSET K) /\ s \in SUBSET K  BY Zenon, <1>5
<1>7. \A k \in s : back[k] = RolledBack(f[k])  OBVIOUS
<1> HIDE DEF D, s, back
<1>8. ASSUME NEW k \in K
      PROVE  LET V == Versions(cs, k)
             IN  /\ k \in s => /\ V # <<>> /\ k \in DOMAIN f /\ V = f[k] /\ KeySound(RolledBack(V), D, k)
                               /\ RolledBack(V) \in Seq(Entries)
                 /\ k \notin s => KeySound(V, D, k)
  <2> DEFINE V == Versions(cs, k)
  <2>1. KeySound(V, Append(D, s), k)  BY Zenon, <1>a, <1>5
  <2> HIDE DEF V
  <2>2. k \notin s => KeySound(V, D, k)  BY ONLY CountLaw, <1>6, <2>1, SoundBelow
  <2>3. k \in s => V # <<>> /\ KeySound(RolledBack(V), D, k)  BY ONLY CountLaw, <1>6, <2>1, SoundBelow
  <2>4. V # <<>> => k \in DOMAIN f /\ V = f[k]  BY Zenon DEF V, Versions
  <2>5. KeySound(RolledBack(V), D, k) => RolledBack(V) \in Seq(Entries)
    BY Zenon DEF KeySound, Chain
  <2> QED  BY Zenon, <2>2, <2>3, <2>4, <2>5 DEF V
<1>9. T \in SUBSET K  BY Zenon, <1>2
<1>10. \A k \in T : g[k] = IF k \in s THEN back[k] ELSE f[k]  OBVIOUS
<1>11. g \in [T -> Seq(Entries)]
  <2>1. ASSUME NEW l \in T PROVE (IF l \in s THEN back[l] ELSE f[l]) \in Seq(Entries)
    <3>1. l \in K /\ l \in DOMAIN f  BY Zenon, <1>9
    <3>2. l \in s => back[l] \in Seq(Entries)  BY Zenon, <1>7, <1>8, <3>1
    <3>3. f[l] \in Seq(Entries)  BY Zenon, <1>2, <3>1
    <3> QED  BY Zenon, <3>2, <3>3
  <2> HIDE DEF T
  <2> QED  BY Zenon, <2>1
<1> HIDE DEF g
<1>12. Made(ds, K, T, g, D, c, m)
  <2> HIDE DEF T, f, c, m
  <2> QED  BY ONLY Zenon, <1>2, <1>6, <1>9, <1>11, MadeChangeSet
<1> HIDE DEF ds
<1>13. /\ ds \in ChangeSets(K) /\ ds.changes = g /\ ds.dirty = D /\ ds.client = c /\ ds.mode = m
       /\ DOMAIN ds.changes = T /\ \A l : Versions(ds, l) = IF l \in T THEN g[l] ELSE <<>>
  BY Zenon, <1>12 DEF Made
<1>14. ASSUME NEW k \in K
       PROVE  Versions(ds, k) = IF k \in s THEN RolledBack(Versions(cs, k)) ELSE Versions(cs, k)
  <2>1. CASE k \in s
    <3>1. k \in DOMAIN f /\ Versions(cs, k) = f[k]  BY Zenon, <1>8, <2>1
    <3>2. back[k] = RolledBack(f[k])  BY Zenon, <1>7, <2>1
    <3>3. CASE back[k] = <<>>
      <4>1. k \notin T  BY Zenon, <2>1, <3>3
      <4> QED  BY Zenon, <1>13, <2>1, <3>1, <3>2, <3>3, <4>1
    <3>4. CASE back[k] # <<>>
      <4>1. k \in T  BY Zenon, <3>1, <3>4
      <4> QED  BY Zenon, <1>10, <1>13, <2>1, <3>1, <3>2, <4>1
    <3> QED  BY Zenon, <3>3, <3>4
  <2>2. CASE k \notin s
    <3>1. k \in T <=> k \in DOMAIN f  BY Zenon, <2>2
    <3> HIDE DEF T
    <3> QED  BY Zenon, <1>10, <1>13, <2>2, <3>1 DEF Versions
  <2> QED  BY Zenon, <2>1, <2>2
<1>15. ASSUME NEW k \in K
       PROVE  /\ KeySound(Versions(ds, k), D, k)
              /\ \A b : \A d \in 0..Len(D) : ValueIn(ds, k, b, d) = ValueIn(cs, k, b, d)
  <2> DEFINE V == Versions(cs, k)
             W == Versions(ds, k)
  <2>1. W = IF k \in s THEN RolledBack(V) ELSE V  BY Zenon, <1>14
  <2>2. KeySound(W, D, k)  BY Zenon, <1>8, <2>1
  <2> HIDE DEF V, W
  <2>3. ASSUME NEW b, NEW d \in 0..Len(D) PROVE ValueOf(W, D, k, b, d) = ValueOf(V, G, k, b, d)
    <3>1. ValueOf(V, Append(D, s), k, b, d) = IF k \in s THEN ValueOf(RolledBack(V), D, k, b, d)
                                              ELSE ValueOf(V, D, k, b, d)
      BY ONLY CountLaw, <1>6, d \in 0..Len(D), ValueBelow
    <3> QED  BY Zenon, <1>5, <2>1, <3>1
  <2> QED  BY Zenon, <1>13, <2>2, <2>3 DEF ValueIn, V, W, G
<1>16. ASSUME NEW k \in DOMAIN ds.changes PROVE ds.changes[k] # <<>>
  <2>1. k \in T /\ ds.changes[k] = IF k \in s THEN back[k] ELSE f[k]  BY Zenon, <1>10, <1>13
  <2>2. k \in DOMAIN f /\ (k \in s => back[k] # <<>>)  BY Zenon, <2>1
  <2>3. f[k] # <<>>  BY Zenon, <2>2 DEF Sound
  <2> QED  BY Zenon, <2>1, <2>2, <2>3
<1>17. Sound(ds, K)  BY Zenon, <1>13, <1>15, <1>16 DEF Sound
<1>18. Len(ds.dirty) = Len(G) - 1  BY Zenon, <1>5, <1>13
<1>19. ASSUME NEW k \in K, NEW b, NEW d \in 0..(Len(G) - 1)
       PROVE  ValueIn(ds, k, b, d) = ValueIn(cs, k, b, d)
  <2>1. d \in 0..Len(D)  BY Zenon, <1>5
  <2> QED  BY Zenon, <1>15, <2>1
<1> QED  BY Zenon, <1>3, <1>13, <1>17, <1>18, <1>19 DEF RollsBack, G

(* A commit puts what is seen in the place of what was below. *)
LEMMA CommitIs ==
  ASSUME CountLaw, NEW K, NEW cs, Sound(cs, K), cs.dirty # <<>>
  PROVE  Commits(cs, commit_transaction(cs), K)
<1> DEFINE f == cs.changes
           T == DOMAIN f
           G == cs.dirty
           s == Last(G)
           E == Front(G)
           D == IF E = <<>> THEN E ELSE Replaced(E, Last(E) \cup s)
           g == [k \in T |-> IF k \in s /\ has_predecessor(cs, k) THEN Merged(f[k]) ELSE f[k]]
           c == cs.client
           m == cs.mode
           ds == [changes |-> g, dirty |-> D, client |-> c, mode |-> m]
<1>1. cs \in ChangeSets(K)  BY Zenon DEF Sound
<1>2. /\ T \in SUBSET K /\ f \in [T -> Seq(Entries)] /\ G \in Seq(SUBSET K)
      /\ c \in Nat /\ m \in {"client", "runtime"}
  BY Zenon, <1>1, ChangeSetIs
<1>3. commit_transaction(cs) = ds
  <2>1. commit_transaction(cs) = [cs EXCEPT !.dirty = D, !.changes = g]
    BY Zenon DEF commit_transaction
  <2> HIDE DEF D, g
  <2> QED  BY Zenon, <1>1, <2>1, UpdatedParts
<1>4. G # <<>>  OBVIOUS
<1>5. \A k \in K : KeySound(Versions(cs, k), G, k)  BY Zenon DEF Sound
<1>6. \A k \in T : g[k] = Kept(f[k], G, k)  BY Zenon DEF Kept, has_predecessor
<1>7. D = Grown(E, s)  BY Zenon DEF Grown, Replaced
<1> HIDE DEF G
<1>8. E \in Seq(SUBSET K) /\ s \in SUBSET K /\ Len(E) = Len(G) - 1  BY Zenon, <1>2, <1>4, FrontLast
<1>9. Grown(E, s) \in Seq(SUBSET K) /\ Len(Grown(E, s)) = Len(E)
  <2> HIDE DEF E, s
  <2> QED  BY Zenon, <1>8, GrownIsLevels
<1>10. ASSUME NEW k \in K, NEW V, KeySound(V, G, k)
       PROVE  /\ KeySound(Kept(V, G, k), Grown(E, s), k)
              /\ V # <<>> => Kept(V, G, k) # <<>>
              /\ \A b : ValueOf(Kept(V, G, k), Grown(E, s), k, b, Len(G) - 1) = ValueOf(V, G, k, b, Len(G))
              /\ \A b : \A d \in 0..(Len(G) - 1) : d # Len(G) - 1 =>
                    ValueOf(Kept(V, G, k), Grown(E, s), k, b, d) = ValueOf(V, G, k, b, d)
  <2>1. Settled(V, G, k)  BY ONLY Zenon, CountLaw, <1>2, <1>4, <1>10, KeyCommitted
  <2> QED  BY Zenon, <2>1 DEF Settled
<1>11. ASSUME NEW k \in T
       PROVE  /\ k \in K /\ f[k] = Versions(cs, k) /\ f[k] # <<>> /\ g[k] # <<>> /\ g[k] \in Seq(Entries)
              /\ KeySound(f[k], G, k)
  <2>1. k \in K /\ f[k] = Versions(cs, k) /\ f[k] # <<>>  BY Zenon, <1>2 DEF Versions, Sound
  <2>2. KeySound(f[k], G, k)  BY Zenon, <1>5, <2>1
  <2>3. KeySound(Kept(f[k], G, k), Grown(E, s), k) /\ Kept(f[k], G, k) # <<>>
    BY Zenon, <1>10, <2>1, <2>2
  <2>4. g[k] # <<>> /\ KeySound(g[k], Grown(E, s), k)  BY Zenon, <1>6, <2>3
  <2>5. g[k] \in Seq(Entries)  BY Zenon, <2>4 DEF KeySound, Chain
  <2> QED  BY Zenon, <2>1, <2>2, <2>4, <2>5
<1>12. g \in [T -> Seq(Entries)]
  <2>1. g = [k \in T |-> g[k]]  BY Zenon
  <2> HIDE DEF g, T
  <2> QED  BY Zenon, <1>11, <2>1
<1> HIDE DEF g, D
<1>13. D \in Seq(SUBSET K)  BY Zenon, <1>7, <1>9
<1>14. Made(ds, K, T, g, D, c, m)
  <2> HIDE DEF T, f, c, m
  <2> QED  BY ONLY Zenon, <1>2, <1>12, <1>13, MadeChangeSet
<1> HIDE DEF ds
<1>15. /\ ds \in ChangeSets(K) /\ ds.changes = g /\ ds.dirty = D /\ ds.client = c /\ ds.mode = m
       /\ DOMAIN ds.changes = T /\ \A l : Versions(ds, l) = IF l \in T THEN g[l] ELSE <<>>
  BY Zenon, <1>14 DEF Made
<1>16. ASSUME NEW k \in K PROVE Versions(ds, k) = Kept(Versions(cs, k), G, k)
  <2>1. CASE k \in T  BY Zenon, <1>6, <1>11, <1>15, <2>1
  <2>2. CASE k \notin T
    <3>1. Versions(ds, k) = <<>> /\ Versions(cs, k) = <<>>  BY Zenon, <1>15, <2>2 DEF Versions
    <3>2. KeySound(<<>>, G, k)  BY Zenon, <1>5, <3>1
    <3>3. k \notin s
      <4>1. G = Append(E, s)  BY Zenon, <1>2, <1>4, FrontLast
      <4>2. KeySound(<<>>, Append(E, s), k)  BY Zenon, <3>2, <4>1
      <4>3. E \in Seq(SUBSET K) /\ s \in SUBSET K  BY Zenon, <1>8
      <4> HIDE DEF E, s
      <4> QED  BY ONLY CountLaw, <4>2, <4>3, SoundBelow
    <3> QED  BY Zenon, <3>1, <3>3 DEF Kept
  <2> QED  BY Zenon, <2>1, <2>2
<1>17. ASSUME NEW k \in K
       PROVE  /\ KeySound(Versions(ds, k), D, k)
              /\ \A b : ValueIn(ds, k, b, Len(G) - 1) = ValueIn(cs, k, b, Len(G))
              /\ \A b : \A d \in 0..(Len(G) - 1) : d # Len(G) - 1 =>
                    ValueIn(ds, k, b, d) = ValueIn(cs, k, b, d)
  <2> DEFINE V == Versions(cs, k)
  <2>1. KeySound(V, G, k)  BY Zenon, <1>5
  <2> HIDE DEF V
  <2>2. /\ KeySound(Kept(V, G, k), Grown(E, s), k)
        /\ \A b : ValueOf(Kept(V, G, k), Grown(E, s), k, b, Len(G) - 1) = ValueOf(V, G, k, b, Len(G))
        /\ \A b : \A d \in 0..(Len(G) - 1) : d # Len(G) - 1 =>
              ValueOf(Kept(V, G, k), Grown(E, s), k, b, d) = ValueOf(V, G, k, b, d)
    BY Zenon, <1>10, <2>1
  <2> QED  BY Zenon, <1>7, <1>15, <1>16, <2>2 DEF ValueIn, V, G
<1>18. ASSUME NEW k \in DOMAIN ds.changes PROVE ds.changes[k] # <<>>
  BY Zenon, <1>11, <1>15, <1>18
<1>19. Sound(ds, K)  BY Zenon, <1>15, <1>17, <1>18 DEF Sound
<1>20. Len(ds.dirty) = Len(G) - 1  BY Zenon, <1>7, <1>8, <1>9, <1>15
<1> QED  BY Zenon, <1>3, <1>15, <1>17, <1>19, <1>20 DEF Commits, G

(* The execution mode says nothing about what is seen. *)
LEMMA RemodeIs ==
  ASSUME NEW K, NEW cs, Sound(cs, K), NEW c \in Nat, NEW m \in {"client", "runtime"}
  PROVE  Remodes(cs, [changes |-> cs.changes, dirty |-> cs.dirty, client |-> c, mode |-> m], K, c, m)
<1> DEFINE f == cs.changes
           T == DOMAIN f
           D == cs.dirty
           ds == [changes |-> f, dirty |-> D, client |-> c, mode |-> m]
<1>1. cs \in ChangeSets(K)  BY Zenon DEF Sound
<1>2. T \in SUBSET K /\ f \in [T -> Seq(Entries)] /\ D \in Seq(SUBSET K)
  BY Zenon, <1>1, ChangeSetIs
<1>3. Made(ds, K, T, f, D, c, m)
  <2> HIDE DEF T, f, D
  <2> QED  BY Zenon, <1>2, MadeChangeSet
<1> HIDE DEF ds
<1>4. ds \in ChangeSets(K) /\ ds.changes = f /\ ds.dirty = D /\ ds.client = c /\ ds.mode = m
  BY Zenon, <1>3 DEF Made
<1>5. \A k : Versions(ds, k) = Versions(cs, k)  BY Zenon, <1>4 DEF Versions
<1>6. Sound(ds, K)  BY Zenon, <1>4, <1>5 DEF Sound
<1>7. \A k, b, d : ValueIn(ds, k, b, d) = ValueIn(cs, k, b, d)  BY Zenon, <1>4, <1>5 DEF ValueIn
<1> QED  BY Zenon, <1>4, <1>6, <1>7 DEF Remodes, ds

(* OverlayedMap::enter_runtime *)
LEMMA EnterIs ==
  ASSUME NEW K, NEW cs, Sound(cs, K)
  PROVE  Remodes(cs, enter_runtime(cs), K, Len(cs.dirty), "runtime")
<1>1. cs \in ChangeSets(K)  BY Zenon DEF Sound
<1>2. Len(cs.dirty) \in Nat  BY Zenon, <1>1, ChangeSetIs
<1> DEFINE n == Len(cs.dirty)
<1>3. enter_runtime(cs) = [changes |-> cs.changes, dirty |-> cs.dirty, client |-> n, mode |-> "runtime"]
  <2>1. enter_runtime(cs) = [cs EXCEPT !.mode = "runtime", !.client = n]
    BY Zenon DEF enter_runtime, transaction_depth
  <2> HIDE DEF n
  <2>2. ASSUME NEW m
        PROVE  [cs EXCEPT !.mode = m, !.client = n]
                 = [changes |-> cs.changes, dirty |-> cs.dirty, client |-> n, mode |-> m]
    BY Zenon, <1>1, RemodedParts
  <2> QED  BY Zenon, <2>1, <2>2
<1>4. "runtime" \in {"client", "runtime"}  OBVIOUS
<1> HIDE DEF n
<1>5. n \in Nat  BY Zenon, <1>2 DEF n
<1>6. Remodes(cs, [changes |-> cs.changes, dirty |-> cs.dirty, client |-> n, mode |-> "runtime"],
              K, n, "runtime")
  BY Zenon, <1>4, <1>5, RemodeIs
<1> QED  BY Zenon, <1>3, <1>6 DEF n

(* A change set whose levels are empty shows the backend. *)
LEMMA FreshIs ==
  ASSUME CountLaw, NEW K, NEW n \in Nat, NEW D \in Seq({{}}), Len(D) = n, NEW c \in Nat,
         NEW m \in {"client", "runtime"}
  PROVE  Fresh([changes |-> <<>>, dirty |-> D, client |-> c, mode |-> m], K, n, c, m)
<1> DEFINE ds == [changes |-> <<>>, dirty |-> D, client |-> c, mode |-> m]
<1>1. <<>> \in [{} -> Seq(Entries)] /\ {} \in SUBSET K  OBVIOUS
<1>2. D \in Seq(SUBSET K) /\ \A i \in 1..n : D[i] = {}
  <2>1. {{}} \subseteq SUBSET K  OBVIOUS
  <2>2. \A i \in 1..n : D[i] \in {{}}  OBVIOUS
  <2>3. D \in Seq(SUBSET K)  BY <2>1
  <2> QED  BY <2>2, <2>3
<1>3. Made(ds, K, {}, <<>>, D, c, m)
  <2>1. ASSUME NEW S, S = {}, NEW f, f = <<>>
        PROVE  Made([changes |-> f, dirty |-> D, client |-> c, mode |-> m], K, S, f, D, c, m)
    <3>1. f \in [S -> Seq(Entries)]  BY Zenon, <1>1, <2>1
    <3>2. S \in SUBSET K /\ D \in Seq(SUBSET K)  BY Zenon, <1>1, <1>2, <2>1
    <3> QED  BY ONLY Zenon, <3>1, <3>2, c \in Nat, m \in {"client", "runtime"}, MadeChangeSet
  <2> QED  BY Zenon, <2>1
<1> HIDE DEF ds
<1>4. /\ ds \in ChangeSets(K) /\ ds.dirty = D /\ ds.client = c /\ ds.mode = m
      /\ DOMAIN ds.changes = {} /\ \A l : Versions(ds, l) = <<>>
  BY Zenon, <1>3 DEF Made
<1>5. ASSUME NEW k PROVE KeySound(<<>>, D, k)
  <2>1. {i \in (0 + 1)..Len(D) : k \in D[i]} = {}  BY <1>2
  <2>2. Count(D, k, 0) = 0  BY Zenon, <2>1 DEF CountLaw, Count
  <2> QED  BY Zenon, <2>2, ChainOfNone DEF KeySound
<1>6. ASSUME NEW k, NEW b, NEW d \in 0..n PROVE ValueOf(<<>>, D, k, b, d) = b
  <2>1. d \in 0..Len(D)  BY Zenon
  <2> QED  BY Zenon, <1>2, <1>5, <2>1, ValueOfNone
<1>7. Sound(ds, K)  BY Zenon, <1>4, <1>5 DEF Sound
<1>8. ASSUME NEW k \in K, NEW b, NEW d \in 0..n PROVE ValueIn(ds, k, b, d) = b
  <2>1. ds.dirty = D /\ Versions(ds, k) = <<>>  BY Zenon, <1>4
  <2>2. ValueOf(<<>>, D, k, b, d) = b  BY Zenon, <1>6
  <2> QED  BY Zenon, <2>1, <2>2 DEF ValueIn
<1>9. Len(ds.dirty) = n  BY Zenon, <1>4
<1>10. Fresh(ds, K, n, c, m)  BY Zenon, <1>4, <1>7, <1>8, <1>9 DEF Fresh
<1> QED  BY Zenon, <1>10 DEF ds

(* A new change set has no changes and no transactions. *)
LEMMA EmptySetIs ==
  ASSUME CountLaw, NEW K
  PROVE  Fresh(EmptySet, K, 0, 0, "client")
<1>1. <<>> \in Seq({{}}) /\ Len(<<>>) = 0 /\ 0 \in Nat /\ "client" \in {"client", "runtime"}  OBVIOUS
<1>2. ASSUME NEW D, D = <<>>
      PROVE  Fresh([changes |-> <<>>, dirty |-> D, client |-> 0, mode |-> "client"], K, 0, 0, "client")
  BY Zenon, <1>1, <1>2, FreshIs
<1> QED  BY Zenon, <1>2 DEF EmptySet

(* OverlayedMap::spawn_child *)
LEMMA SpawnIs ==
  ASSUME CountLaw, NEW L, NEW cs \in ChangeSets(L), NEW K
  PROVE  Fresh(spawn_child(cs), K, Len(cs.dirty), cs.client, cs.mode)
<1> DEFINE D == [i \in DOMAIN cs.dirty |-> {}]
           n == Len(cs.dirty)
           c == cs.client
           m == cs.mode
<1>1. cs.dirty \in Seq(SUBSET L) /\ n \in Nat /\ c \in Nat /\ m \in {"client", "runtime"}
  BY Zenon, ChangeSetIs
<1>2. D \in Seq({{}}) /\ Len(D) = n
  <2>1. DOMAIN cs.dirty = 1..n  BY <1>1
  <2>2. D = [i \in 1..n |-> {}]  BY Zenon, <2>1
  <2>3. [i \in 1..n |-> {}] \in Seq({{}}) /\ Len([i \in 1..n |-> {}]) = n
    <3> HIDE DEF n
    <3> QED  BY <1>1
  <2> QED  BY Zenon, <2>2, <2>3
<1>3. spawn_child(cs) = [changes |-> <<>>, dirty |-> D, client |-> c, mode |-> m]
  <2>1. spawn_child(cs) = [EmptySet EXCEPT !.dirty = D, !.client = c, !.mode = m]
    BY Zenon DEF spawn_child
  <2> HIDE DEF D, c, m
  <2> QED  BY Zenon, <2>1 DEF EmptySet
<1> HIDE DEF D, n, c, m
<1>4. Fresh([changes |-> <<>>, dirty |-> D, client |-> c, mode |-> m], K, n, c, m)
  BY ONLY Zenon, CountLaw, <1>1, <1>2, FreshIs
<1> QED  BY Zenon, <1>3, <1>4 DEF n, c, m

IsLeft(x, p, n) == p = [i \in 0..n |-> IF i = 0 THEN x ELSE rollback_transaction(p[i - 1])]

(* The same for change sets whose last transaction is rolled back again and again. *)
LEMMA LeftsExist ==
  ASSUME NEW x
  PROVE  \A n \in Nat : \E p : IsLeft(x, p, n)
<1> DEFINE S == {n \in Nat : \E p : IsLeft(x, p, n)}
<1>1. 0 \in S
  <2> DEFINE p == [i \in 0..0 |-> x]
  <2>1. IsLeft(x, p, 0)  BY DEF IsLeft
  <2> QED  BY <2>1
<1>2. ASSUME NEW n \in Nat, n \in S PROVE n + 1 \in S
  <2>1. PICK p : IsLeft(x, p, n)  BY <1>2
  <2> DEFINE q == [i \in 0..(n + 1) |-> IF i = n + 1 THEN rollback_transaction(p[n]) ELSE p[i]]
  <2>2. ASSUME NEW i \in 0..(n + 1) PROVE q[i] = IF i = 0 THEN x ELSE rollback_transaction(q[i - 1])
    <3>1. CASE i = n + 1
      <4>1. i # 0 /\ i - 1 = n /\ n \in 0..(n + 1) /\ n # n + 1  BY <3>1
      <4>2. q[n] = p[n]  BY <4>1
      <4>3. q[i] = rollback_transaction(p[n])  BY <3>1
      <4> HIDE DEF q
      <4> QED  BY Zenon, <4>1, <4>2, <4>3
    <3>2. CASE i # n + 1
      <4>1. i \in 0..n /\ q[i] = p[i]  BY <3>2
      <4>2. i # 0 => i - 1 \in 0..(n + 1) /\ i - 1 # n + 1  BY <4>1
      <4>3. i # 0 => q[i - 1] = p[i - 1]  BY <4>2
      <4>4. p[i] = IF i = 0 THEN x ELSE rollback_transaction(p[i - 1])  BY Zenon, <2>1, <4>1 DEF IsLeft
      <4> HIDE DEF q
      <4> QED  BY Zenon, <4>1, <4>3, <4>4
    <3> QED  BY <3>1, <3>2
  <2>3. q = [i \in 0..(n + 1) |-> q[i]]  OBVIOUS
  <2> HIDE DEF q
  <2>4. q = [i \in 0..(n + 1) |-> IF i = 0 THEN x ELSE rollback_transaction(q[i - 1])]
    BY Zenon, <2>2, <2>3
  <2>5. IsLeft(x, q, n + 1)  BY Zenon, <2>4 DEF IsLeft
  <2> QED  BY <2>5
<1> HIDE DEF S
<1>3. Nat \subseteq S  BY <1>1, <1>2, AllNumbers
<1> QED  BY <1>3 DEF S

(* Two runs of left transactions agree where both are. *)
LEMMA LeftsAgree ==
  ASSUME NEW x, NEW p, NEW q, NEW n \in Nat, IsLeft(x, p, n), IsLeft(x, q, n + 1)
  PROVE  p[n] = q[n]
<1> DEFINE S == {i \in Nat : i <= n => p[i] = q[i]}
<1>1. 0 \in S
  <2>1. 0 \in 0..n /\ 0 \in 0..(n + 1)  OBVIOUS
  <2>2. p[0] = x /\ q[0] = x  BY Zenon, <2>1 DEF IsLeft
  <2> QED  BY <2>2
<1>2. ASSUME NEW i \in Nat, i \in S PROVE i + 1 \in S
  <2> SUFFICES ASSUME i + 1 <= n PROVE p[i + 1] = q[i + 1]  OBVIOUS
  <2>1. i + 1 \in 0..n /\ i + 1 \in 0..(n + 1) /\ i + 1 # 0 /\ (i + 1) - 1 = i /\ i <= n  OBVIOUS
  <2>2. p[i] = q[i]  BY <1>2, <2>1
  <2>3. p[i + 1] = rollback_transaction(p[(i + 1) - 1])  BY Zenon, <2>1 DEF IsLeft
  <2>4. q[i + 1] = rollback_transaction(q[(i + 1) - 1])  BY Zenon, <2>1 DEF IsLeft
  <2> QED  BY Zenon, <2>1, <2>2, <2>3, <2>4
<1> HIDE DEF S
<1>3. Nat \subseteq S  BY <1>1, <1>2, AllNumbers
<1> QED  BY <1>3 DEF S

(* exit_runtime rolls back one transaction after the other. *)
LEMMA LeftIs ==
  ASSUME NEW cs
  PROVE  \E u : /\ u[0] = [cs EXCEPT !.mode = "client"]
               /\ \A n \in Nat : u[n + 1] = rollback_transaction(u[n])
               /\ exit_runtime(cs) = u[Len(cs.dirty) - cs.client]
<1> DEFINE x == [cs EXCEPT !.mode = "client"]
           P(g) == g = [i \in Nat |-> IF i = 0 THEN x ELSE rollback_transaction(g[i - 1])]
           path(n) == CHOOSE p : IsLeft(x, p, n)
           h == [n \in Nat |-> path(n)[n]]
           u == CHOOSE g : P(g)
<1>0. exit_runtime(cs) = u[Len(cs.dirty) - cs.client]  BY DEF exit_runtime, transaction_depth
<1> HIDE DEF x
<1>1. ASSUME NEW n \in Nat PROVE IsLeft(x, path(n), n)  BY Zenon, LeftsExist
<1>2. ASSUME NEW n \in Nat PROVE h[n] = IF n = 0 THEN x ELSE rollback_transaction(h[n - 1])
  <2> HIDE DEF path
  <2>1. h[n] = path(n)[n]  OBVIOUS
  <2>2. n \in 0..n  OBVIOUS
  <2>3. path(n)[n] = IF n = 0 THEN x ELSE rollback_transaction(path(n)[n - 1])
    BY Zenon, <1>1, <2>2 DEF IsLeft
  <2>4. CASE n = 0  BY <2>1, <2>3, <2>4
  <2>5. CASE n # 0
    <3> DEFINE m == n - 1
    <3>1. m \in Nat /\ m + 1 = n  BY <2>5
    <3>2. h[m] = path(m)[m]  BY <3>1
    <3> HIDE DEF m
    <3>3. IsLeft(x, path(m), m) /\ IsLeft(x, path(m + 1), m + 1)  BY Zenon, <1>1, <3>1
    <3>4. path(m)[m] = path(m + 1)[m]
      <4> DEFINE p == path(m)
                 q == path(m + 1)
      <4>1. IsLeft(x, p, m) /\ IsLeft(x, q, m + 1)  BY Zenon, <3>3
      <4> HIDE DEF p, q
      <4>2. m \in Nat  BY Zenon, <3>1
      <4>3. p[m] = q[m]  BY <4>1, <4>2, LeftsAgree
      <4> QED  BY Zenon, <4>3 DEF p, q
    <3> HIDE DEF h
    <3>5. h[n] = rollback_transaction(path(n)[m])  BY Zenon, <2>1, <2>3, <2>5 DEF m
    <3>6. h[n] = rollback_transaction(h[m])  BY Zenon, <3>1, <3>2, <3>4, <3>5
    <3> QED  BY Zenon, <3>6, <2>5 DEF m
  <2> QED  BY <2>4, <2>5
<1>3. h = [n \in Nat |-> h[n]]  OBVIOUS
<1> HIDE DEF h
<1>4. P(h)  BY Zenon, <1>2, <1>3
<1>5. P(u)  BY Zenon, <1>4
<1> HIDE DEF u
<1>7. u[0] = x  BY <1>5
<1>8. ASSUME NEW n \in Nat PROVE u[n + 1] = rollback_transaction(u[n])
  <2>1. n + 1 \in Nat /\ n + 1 # 0 /\ (n + 1) - 1 = n  OBVIOUS
  <2>2. u[n + 1] = rollback_transaction(u[(n + 1) - 1])  BY Zenon, <1>5, <2>1
  <2> QED  BY Zenon, <2>1, <2>2
<1> QED  BY Zenon, <1>0, <1>7, <1>8 DEF x

\* After i roll backs
Leaving(cs, ds, K, i) ==
  /\ Sound(ds, K) /\ Len(ds.dirty) = Len(cs.dirty) - i /\ ds.client = cs.client /\ ds.mode = "client"
  /\ \A k \in K : \A b : \A d \in 0..(Len(cs.dirty) - i) : ValueIn(ds, k, b, d) = ValueIn(cs, k, b, d)

(* OverlayedMap::exit_runtime leaves what was below the transactions of the runtime. *)
LEMMA ExitIs ==
  ASSUME CountLaw, NEW K, NEW cs, Sound(cs, K), cs.client <= Len(cs.dirty)
  PROVE  Exits(cs, exit_runtime(cs), K)
<1> DEFINE N == Len(cs.dirty)
           c == cs.client
<1>1. cs \in ChangeSets(K)  BY Zenon DEF Sound
<1>2. N \in Nat /\ c \in Nat  BY Zenon, <1>1, ChangeSetIs
<1>3. PICK u : /\ u[0] = [cs EXCEPT !.mode = "client"]
               /\ \A n \in Nat : u[n + 1] = rollback_transaction(u[n])
               /\ exit_runtime(cs) = u[N - c]
  BY Zenon, LeftIs
<1>4. c <= N  OBVIOUS
<1> DEFINE S == {i \in Nat : i <= N => Leaving(cs, u[i], K, i)}
<1>5. 0 \in S
  <2> DEFINE m == "client"
             ds == [changes |-> cs.changes, dirty |-> cs.dirty, client |-> c, mode |-> m]
  <2>1. m \in {"client", "runtime"}  OBVIOUS
  <2>2. u[0] = [cs EXCEPT !.mode = m]  BY Zenon, <1>3
  <2> HIDE DEF m
  <2>3. u[0] = ds  BY Zenon, <1>1, <2>2, UpdatedParts
  <2>4. Remodes(cs, ds, K, c, m)
    <3> HIDE DEF c
    <3> QED  BY Zenon, <1>2, <2>1, RemodeIs
  <2> HIDE DEF ds
  <2>5. N - 0 = N  BY <1>2
  <2>6. Leaving(cs, ds, K, 0)  BY Zenon, <2>4, <2>5 DEF Leaving, Remodes, m
  <2>7. Leaving(cs, u[0], K, 0)  BY Zenon, <2>3, <2>6
  <2> QED  BY <2>7
<1>6. ASSUME NEW i \in Nat, i \in S PROVE i + 1 \in S
  <2> SUFFICES ASSUME i + 1 <= N PROVE Leaving(cs, u[i + 1], K, i + 1)  OBVIOUS
  <2> DEFINE ds == u[i]
             es == rollback_transaction(ds)
             n == Len(ds.dirty)
  <2>1. i <= N /\ N - i > 0  BY <1>2
  <2>2. Leaving(cs, ds, K, i)  BY <1>6, <2>1
  <2>3. u[i + 1] = es  BY Zenon, <1>3
  <2> HIDE DEF ds, N
  <2>4. Sound(ds, K) /\ n = N - i /\ ds.client = c /\ ds.mode = "client"
    BY Zenon, <2>2 DEF Leaving, N
  <2>5. ds.dirty # <<>>
    <3> SUFFICES ASSUME ds.dirty = <<>> PROVE FALSE  OBVIOUS
    <3>1. n = 0  OBVIOUS
    <3> HIDE DEF n
    <3> QED  BY ONLY <3>1, <2>1, <2>4, <1>2
  <2>6. RollsBack(ds, es, K)  BY Zenon, <2>4, <2>5, RollbackIs
  <2> HIDE DEF es, n
  <2>7. /\ Sound(es, K) /\ Len(es.dirty) = n - 1 /\ es.client = c /\ es.mode = "client"
        /\ \A k \in K : \A b : \A d \in 0..(n - 1) : ValueIn(es, k, b, d) = ValueIn(ds, k, b, d)
    BY Zenon, <2>4, <2>6 DEF RollsBack, n
  <2>8. n - 1 = N - (i + 1) /\ \A d \in 0..(N - (i + 1)) : d \in 0..(n - 1) /\ d \in 0..(N - i)
    BY ONLY <1>2, <2>1, <2>4, i \in Nat
  <2>9. ASSUME NEW k \in K, NEW b, NEW d \in 0..(N - (i + 1))
        PROVE  ValueIn(es, k, b, d) = ValueIn(cs, k, b, d)
    <3>1. d \in 0..(n - 1) /\ d \in 0..(N - i)  BY Zenon, <2>8
    <3>2. ValueIn(ds, k, b, d) = ValueIn(cs, k, b, d)  BY Zenon, <2>2, <3>1 DEF Leaving, N
    <3> QED  BY Zenon, <2>7, <3>1, <3>2
  <2>10. Len(es.dirty) = N - (i + 1)  BY Zenon, <2>7, <2>8
  <2>11. Leaving(cs, es, K, i + 1)  BY Zenon, <2>7, <2>9, <2>10 DEF Leaving, N, c
  <2> QED  BY Zenon, <2>3, <2>11
<1> HIDE DEF S
<1>7. Nat \subseteq S  BY Zenon, <1>5, <1>6, AllNumbers
<1>8. N - c \in Nat /\ N - c <= N /\ N - (N - c) = c  BY <1>2, <1>4
<1>9. Leaving(cs, u[N - c], K, N - c)  BY <1>7, <1>8 DEF S
<1> DEFINE ds == u[N - c]
<1> HIDE DEF ds
<1>10. /\ Sound(ds, K) /\ Len(ds.dirty) = N - (N - c) /\ ds.client = c /\ ds.mode = "client"
       /\ \A k \in K : \A b : \A d \in 0..(N - (N - c)) : ValueIn(ds, k, b, d) = ValueIn(cs, k, b, d)
  BY Zenon, <1>9 DEF Leaving, ds
<1> HIDE DEF N
<1>11. /\ Sound(ds, K) /\ Len(ds.dirty) = c /\ ds.client = c /\ ds.mode = "client"
       /\ \A k \in K : \A b : \A d \in 0..c : ValueIn(ds, k, b, d) = ValueIn(cs, k, b, d)
  BY Zenon, <1>8, <1>10
<1>12. Exits(cs, ds, K)  BY Zenon, <1>11 DEF Exits
<1> QED  BY Zenon, <1>3, <1>12 DEF ds, N

-----------------------------------------------------------------------------
(* Change sets without changes follow the others. *)

(* enter_runtime, in these terms. *)
LEMMA EntersIs ==
  ASSUME NEW K, NEW cs, Sound(cs, K)
  PROVE  Enters(cs, enter_runtime(cs), K)
BY Zenon, EnterIs DEF Enters, Remodes

(* A change set without changes shows the backend. *)
LEMMA NoChangesIs ==
  ASSUME CountLaw, NEW K, NEW cs, Sound(cs, K), DOMAIN cs.changes = {}
  PROVE  \A k \in K : \A b : \A d \in 0..Len(cs.dirty) : ValueIn(cs, k, b, d) = b
<1> TAKE k \in K
<1> TAKE b
<1> TAKE d \in 0..Len(cs.dirty)
<1>1. cs \in ChangeSets(K) /\ KeySound(Versions(cs, k), cs.dirty, k)  BY Zenon DEF Sound
<1>2. cs.dirty \in Seq(SUBSET K)  BY Zenon, <1>1, ChangeSetIs
<1>3. Versions(cs, k) = <<>>  BY Zenon DEF Versions
<1>4. KeySound(<<>>, cs.dirty, k)  BY Zenon, <1>1, <1>3
<1>5. ValueOf(<<>>, cs.dirty, k, b, d) = b  BY Zenon, <1>2, <1>4, ValueOfNone
<1> QED  BY Zenon, <1>3, <1>5 DEF ValueIn

(* Two such change sets, before and after a transaction is opened. *)
LEMMA FreshStarts ==
  ASSUME NEW K, NEW n \in Nat, NEW c, NEW m, NEW cs, NEW ds,
         Fresh(cs, K, n, c, m), Fresh(ds, K, n + 1, c, m)
  PROVE  Starts(cs, ds, K)
<1>1. n \in 0..n /\ n + 1 \in 0..(n + 1) /\ \A d \in 0..n : d \in 0..(n + 1)  OBVIOUS
<1>2. Len(cs.dirty) = n /\ cs.client = c /\ cs.mode = m  BY Zenon DEF Fresh
<1>3. \A k \in K : \A b : \A d \in 0..n : ValueIn(cs, k, b, d) = b  BY Zenon DEF Fresh
<1>4. \A k \in K : \A b : \A d \in 0..(n + 1) : ValueIn(ds, k, b, d) = b  BY Zenon DEF Fresh
<1>5. Sound(ds, K) /\ Len(ds.dirty) = (n + 1)  BY Zenon DEF Fresh
<1>6. ds.client = cs.client /\ ds.mode = cs.mode  BY Zenon, <1>2 DEF Fresh
<1>7. ASSUME NEW k \in K, NEW b PROVE ValueIn(ds, k, b, n + 1) = ValueIn(cs, k, b, n)
  <2>1. ValueIn(cs, k, b, n) = b  BY ONLY Zenon, <1>1, <1>3, k \in K
  <2>2. ValueIn(ds, k, b, n + 1) = b  BY ONLY Zenon, <1>1, <1>4, k \in K
  <2> QED  BY ONLY Zenon, <2>1, <2>2
<1>8. ASSUME NEW k \in K, NEW b, NEW d \in 0..n PROVE ValueIn(ds, k, b, d) = ValueIn(cs, k, b, d)
  <2>0. d \in 0..n /\ d \in 0..(n + 1)  BY <1>1
  <2>1. ValueIn(cs, k, b, d) = b  BY ONLY Zenon, <2>0, <1>3, k \in K
  <2>2. ValueIn(ds, k, b, d) = b  BY ONLY Zenon, <2>0, <1>4, k \in K
  <2> QED  BY ONLY Zenon, <2>1, <2>2
<1> QED  BY ONLY Zenon, <1>2, <1>5, <1>6, <1>7, <1>8 DEF Starts

(* Before and after one is rolled back. *)
LEMMA FreshRollsBack ==
  ASSUME NEW K, NEW n \in Nat, n > 0, NEW c, NEW m, NEW cs, NEW ds,
         Fresh(cs, K, n, c, m), Fresh(ds, K, n - 1, c, m)
  PROVE  RollsBack(cs, ds, K)
<1>1. \A d \in 0..(n - 1) : d \in 0..n  OBVIOUS
<1>2. Len(cs.dirty) = n /\ cs.client = c /\ cs.mode = m  BY Zenon DEF Fresh
<1>3. \A k \in K : \A b : \A d \in 0..n : ValueIn(cs, k, b, d) = b  BY Zenon DEF Fresh
<1>4. \A k \in K : \A b : \A d \in 0..(n - 1) : ValueIn(ds, k, b, d) = b  BY Zenon DEF Fresh
<1>5. Sound(ds, K) /\ Len(ds.dirty) = (n - 1)  BY Zenon DEF Fresh
<1>6. ds.client = cs.client /\ ds.mode = cs.mode  BY Zenon, <1>2 DEF Fresh
<1>8. ASSUME NEW k \in K, NEW b, NEW d \in 0..(n - 1) PROVE ValueIn(ds, k, b, d) = ValueIn(cs, k, b, d)
  <2>0. d \in 0..n /\ d \in 0..(n - 1)  BY <1>1
  <2>1. ValueIn(cs, k, b, d) = b  BY ONLY Zenon, <2>0, <1>3, k \in K
  <2>2. ValueIn(ds, k, b, d) = b  BY ONLY Zenon, <2>0, <1>4, k \in K
  <2> QED  BY ONLY Zenon, <2>1, <2>2
<1> QED  BY ONLY Zenon, <1>2, <1>5, <1>6, <1>8 DEF RollsBack

(* Before and after one is committed. *)
LEMMA FreshCommits ==
  ASSUME NEW K, NEW n \in Nat, n > 0, NEW c, NEW m, NEW cs, NEW ds,
         Fresh(cs, K, n, c, m), Fresh(ds, K, n - 1, c, m)
  PROVE  Commits(cs, ds, K)
<1>1. n \in 0..n /\ n - 1 \in 0..(n - 1) /\ \A d \in 0..(n - 1) : d \in 0..n  OBVIOUS
<1>2. Len(cs.dirty) = n /\ cs.client = c /\ cs.mode = m  BY Zenon DEF Fresh
<1>3. \A k \in K : \A b : \A d \in 0..n : ValueIn(cs, k, b, d) = b  BY Zenon DEF Fresh
<1>4. \A k \in K : \A b : \A d \in 0..(n - 1) : ValueIn(ds, k, b, d) = b  BY Zenon DEF Fresh
<1>5. Sound(ds, K) /\ Len(ds.dirty) = (n - 1)  BY Zenon DEF Fresh
<1>6. ds.client = cs.client /\ ds.mode = cs.mode  BY Zenon, <1>2 DEF Fresh
<1>7. ASSUME NEW k \in K, NEW b PROVE ValueIn(ds, k, b, n - 1) = ValueIn(cs, k, b, n)
  <2>1. ValueIn(cs, k, b, n) = b  BY ONLY Zenon, <1>1, <1>3, k \in K
  <2>2. ValueIn(ds, k, b, n - 1) = b  BY ONLY Zenon, <1>1, <1>4, k \in K
  <2> QED  BY ONLY Zenon, <2>1, <2>2
<1>8. ASSUME NEW k \in K, NEW b, NEW d \in 0..(n - 1), d # n - 1 PROVE ValueIn(ds, k, b, d) = ValueIn(cs, k, b, d)
  <2>0. d \in 0..n /\ d \in 0..(n - 1)  BY <1>1
  <2>1. ValueIn(cs, k, b, d) = b  BY ONLY Zenon, <2>0, <1>3, k \in K
  <2>2. ValueIn(ds, k, b, d) = b  BY ONLY Zenon, <2>0, <1>4, k \in K
  <2> QED  BY ONLY Zenon, <2>1, <2>2
<1> QED  BY ONLY Zenon, <1>2, <1>5, <1>6, <1>7, <1>8 DEF Commits

(* Before and after the runtime is entered. *)
LEMMA FreshEnters ==
  ASSUME NEW K, NEW n \in Nat, NEW c, NEW m, NEW cs, NEW ds,
         Fresh(cs, K, n, c, m), Fresh(ds, K, n, n, "runtime")
  PROVE  Enters(cs, ds, K)
BY Zenon DEF Fresh, Enters

(* Before and after the runtime is left. *)
LEMMA FreshExits ==
  ASSUME NEW K, NEW n \in Nat, NEW c \in 0..n, NEW m, NEW cs, NEW ds,
         Fresh(cs, K, n, c, m), Fresh(ds, K, c, c, "client")
  PROVE  Exits(cs, ds, K)
<1>1. \A d \in 0..c : d \in 0..n  OBVIOUS
<1>2. Len(cs.dirty) = n /\ cs.client = c /\ cs.mode = m  BY Zenon DEF Fresh
<1>3. \A k \in K : \A b : \A d \in 0..n : ValueIn(cs, k, b, d) = b  BY Zenon DEF Fresh
<1>4. \A k \in K : \A b : \A d \in 0..c : ValueIn(ds, k, b, d) = b  BY Zenon DEF Fresh
<1>5. Sound(ds, K) /\ Len(ds.dirty) = c  BY Zenon DEF Fresh
<1>6. ds.client = cs.client /\ ds.mode = "client"  BY Zenon, <1>2 DEF Fresh
<1>8. ASSUME NEW k \in K, NEW b, NEW d \in 0..c PROVE ValueIn(ds, k, b, d) = ValueIn(cs, k, b, d)
  <2>0. d \in 0..n /\ d \in 0..c  BY <1>1
  <2>1. ValueIn(cs, k, b, d) = b  BY ONLY Zenon, <2>0, <1>3, k \in K
  <2>2. ValueIn(ds, k, b, d) = b  BY ONLY Zenon, <2>0, <1>4, k \in K
  <2> QED  BY ONLY Zenon, <2>1, <2>2
<1> QED  BY ONLY Zenon, <1>2, <1>5, <1>6, <1>8 DEF Exits

(* A change set that is forgotten after a roll back, because it has no changes left, shows *)
(* what a new one shows.                                                                   *)
LEMMA ForgottenIs ==
  ASSUME CountLaw, NEW K, NEW cs, NEW ds, RollsBack(cs, ds, K), DOMAIN ds.changes = {}, NEW es,
         Fresh(es, K, Len(cs.dirty) - 1, cs.client, cs.mode)
  PROVE  RollsBack(cs, es, K)
<1> DEFINE n == Len(cs.dirty) - 1
<1>1. /\ Sound(ds, K) /\ Len(ds.dirty) = n
      /\ \A k \in K : \A b : \A d \in 0..n : ValueIn(ds, k, b, d) = ValueIn(cs, k, b, d)
  BY Zenon DEF RollsBack
<1>2. /\ Sound(es, K) /\ Len(es.dirty) = n /\ es.client = cs.client /\ es.mode = cs.mode
      /\ \A k \in K : \A b : \A d \in 0..n : ValueIn(es, k, b, d) = b
  BY Zenon DEF Fresh
<1>3. \A k \in K : \A b : \A d \in 0..n : ValueIn(ds, k, b, d) = b
  <2>0. Sound(ds, K)  BY Zenon, <1>1
  <2>1. \A k \in K : \A b : \A d \in 0..Len(ds.dirty) : ValueIn(ds, k, b, d) = b
    BY Zenon, <2>0, NoChangesIs
  <2>2. Len(ds.dirty) = n  BY Zenon, <1>1
  <2> HIDE DEF n
  <2> QED  BY ONLY Zenon, <2>1, <2>2
<1> HIDE DEF n
<1>4. ASSUME NEW k \in K, NEW b, NEW d \in 0..n PROVE ValueIn(es, k, b, d) = ValueIn(cs, k, b, d)
  <2>1. ValueIn(ds, k, b, d) = ValueIn(cs, k, b, d)  BY ONLY Zenon, <1>1, k \in K, d \in 0..n
  <2>2. ValueIn(ds, k, b, d) = b  BY ONLY Zenon, <1>3, k \in K, d \in 0..n
  <2>3. ValueIn(es, k, b, d) = b  BY ONLY Zenon, <1>2, k \in K, d \in 0..n
  <2> QED  BY Zenon, <2>1, <2>2, <2>3
<1> QED  BY Zenon, <1>2, <1>4 DEF RollsBack, n

(* What spawn_child makes depends on the depth and the mode only. *)
LEMMA SpawnSame ==
  ASSUME NEW L, NEW cs \in ChangeSets(L), NEW ds \in ChangeSets(L), Alongside(ds, cs)
  PROVE  spawn_child(ds) = spawn_child(cs)
<1>1. cs.dirty \in Seq(SUBSET L) /\ ds.dirty \in Seq(SUBSET L)  BY Zenon, ChangeSetIs
<1>2. Len(ds.dirty) = Len(cs.dirty)  BY Zenon DEF Alongside
<1>3. DOMAIN ds.dirty = DOMAIN cs.dirty  BY ONLY <1>1, <1>2
<1> QED  BY Zenon, <1>3 DEF spawn_child, Alongside

(* What is shown is a value again. *)
LEMMA ShownOption ==
  ASSUME NEW V, Chain(V), V # <<>>
  PROVE  IsOption(Shown(Last(V)))
<1> DEFINE v == Last(V)
<1>1. v \in Entries /\ (v.tag = "append" => Formed(v))  BY Zenon, RolledBackOf DEF Chain
<1> HIDE DEF v
<1>2. CASE v.tag # "append"
  <2>1. /\ WellCoded(IF v.tag = "set" THEN v.data ELSE <<>>)
        /\ Shown(v) = IF v.tag = "set" THEN <<v.data>> ELSE <<>>
    BY Zenon, <1>1, <1>2, PlainIs
  <2>2. CASE v.tag = "set"
    <3> DEFINE d == v.data
    <3>1. Shown(v) = <<d>> /\ WellCoded(d)  BY <2>1, <2>2
    <3>2. d \in Seq(Bytes)  BY Zenon, <3>1 DEF WellCoded
    <3> HIDE DEF d
    <3>3. <<d>> \in Seq(Seq(Bytes)) /\ Len(<<d>>) = 1 /\ <<d>>[1] = d  BY <3>2
    <3> QED  BY Zenon, <3>1, <3>3 DEF IsOption, v
  <2>3. CASE v.tag # "set"  BY Zenon, <2>1, <2>3 DEF IsOption, v
  <2> QED  BY <2>2, <2>3
<1>3. CASE v.tag = "append"
  <2>1. v \in Appends /\ Formed(v)  BY Zenon, <1>1, <1>3, EntryCases
  <2> DEFINE n == v.current
             a == Compact(n)
             es == Elements(v)
             d == a \o es
  <2>2. Shown(v) = <<d>> /\ es \in Data  BY Zenon, <2>1, ShownIs, FormedIs
  <2>3. n \in Nat  BY <2>1 DEF Appends
  <2> HIDE DEF es, n
  <2>4. a \in Data /\ compact_len(n) = Len(a)  BY Zenon, <2>3, CompactIs
  <2>5. extract_length(d) = n
    <3>1. Byte("elem", 0) \in Bytes  BY DEF Byte, Bytes
    <3> QED  BY Zenon, <2>2, <2>3, <3>1, MoreOf
  <2> HIDE DEF a
  <2>6. a \in Seq(Bytes) /\ es \in Seq(Bytes)  BY Zenon, <2>2, <2>4 DEF Data
  <2>7. d \in Seq(Bytes) /\ Len(a) <= Len(d) /\ SubSeq(d, 1, Len(a)) = a  BY ONLY <2>6
  <2> HIDE DEF d
  <2>8. WellCoded(d)  BY Zenon, <2>3, <2>4, <2>5, <2>7 DEF WellCoded, a
  <2>9. <<d>> \in Seq(Seq(Bytes)) /\ Len(<<d>>) = 1 /\ <<d>>[1] = d  BY <2>7
  <2> QED  BY Zenon, <2>2, <2>8, <2>9 DEF IsOption, v
<1> QED  BY <1>2, <1>3

(* So is what is seen over a backend of values. *)
LEMMA ValueOption ==
  ASSUME CountLaw, NEW K, NEW cs, Sound(cs, K), NEW k \in K, NEW b, IsOption(b)
  PROVE  IsOption(ValueIn(cs, k, b, Len(cs.dirty)))
<1> DEFINE V == Versions(cs, k)
<1>1. cs \in ChangeSets(K)  BY Zenon DEF Sound
<1>2. cs.dirty \in Seq(SUBSET K)  BY Zenon, <1>1, ChangeSetIs
<1>3. ValueIn(cs, k, b, Len(cs.dirty)) = Seen(V, b)  BY Zenon, <1>2, ValueOnTop DEF ValueIn
<1>4. Chain(V)  BY Zenon, VersionsIs
<1> QED  BY Zenon, <1>3, <1>4, ShownOption DEF Seen
=============================================================================
