-------------------------- MODULE ConversationProofs --------------------------
(***************************************************************************)
(* Theorems about MessageHistory and ClientConversation: how the server    *)
(* pages through a conversation and what a tab makes of the pages, for any *)
(* number of messages, any page size and any order of events.              *)
(***************************************************************************)
EXTENDS ClientConversation, MessageHistory, FiniteSetTheorems,
        WellFoundedInduction, TLAPS

(* Sets in order. *)

\* order is a strict total order on S.
Orders(order, S) ==
    /\ \A m \in S : <<m, m>> \notin order
    /\ \A m, n \in S : m # n => <<m, n>> \in order \/ <<n, m>> \in order
    /\ \A l, m, n \in S :
         <<l, m>> \in order /\ <<m, n>> \in order => <<l, n>> \in order

Below(S, order, m) == {n \in S : <<n, m>> \in order}
Above(S, order, m) == {n \in S : <<m, n>> \in order}

LEMMA BelowSize ==
    ASSUME NEW S, IsFiniteSet(S), NEW order, NEW m
    PROVE  /\ IsFiniteSet(Below(S, order, m)) /\ Below(S, order, m) \subseteq S
           /\ Cardinality(Below(S, order, m)) \in Nat
           /\ Cardinality(Below(S, order, m)) <= Cardinality(S)
<1>1. Below(S, order, m) \in SUBSET S
  BY DEF Below
<1>2. IsFiniteSet(Below(S, order, m))
  BY <1>1, FS_Subset
<1> QED BY <1>1, <1>2, FS_Subset, FS_CardinalityType

LEMMA AboveSize ==
    ASSUME NEW S, IsFiniteSet(S), NEW order, NEW m
    PROVE  /\ IsFiniteSet(Above(S, order, m)) /\ Above(S, order, m) \subseteq S
           /\ Cardinality(Above(S, order, m)) \in Nat
           /\ Cardinality(Above(S, order, m)) <= Cardinality(S)
<1>1. Above(S, order, m) \in SUBSET S
  BY DEF Above
<1>2. IsFiniteSet(Above(S, order, m))
  BY <1>1, FS_Subset
<1> QED BY <1>1, <1>2, FS_Subset, FS_CardinalityType

\* The more elements are below m, the later it is.
LEMMA RankGrows ==
    ASSUME NEW S, IsFiniteSet(S), NEW order, Orders(order, S),
           NEW m \in S, NEW n \in S, <<m, n>> \in order
    PROVE  Cardinality(Below(S, order, m)) < Cardinality(Below(S, order, n))
<1> DEFINE B == Below(S, order, m)  C == Below(S, order, n)
<1>1. B \in SUBSET C /\ m \in C /\ m \notin B
  BY DEF Below, Orders
<1>2. /\ IsFiniteSet(C) /\ Cardinality(C) \in Nat
      /\ Cardinality(B) \in Nat
  BY BelowSize
<1> HIDE DEF B, C
<1>3. Cardinality(B) <= Cardinality(C) /\ (Cardinality(C) = Cardinality(B) => C = B)
  BY <1>1, <1>2, FS_Subset
<1>4. Cardinality(B) < Cardinality(C)
  BY <1>1, <1>2, <1>3
<1> QED BY <1>4 DEF B, C

\* Every rank is taken: the elements are as many as the ranks, and no two of
\* them have the same.
LEMMA RanksTaken ==
    ASSUME NEW S, IsFiniteSet(S), NEW order, Orders(order, S),
           NEW k \in 1..Cardinality(S)
    PROVE  \E m \in S : Cardinality(Below(S, order, m)) = k - 1
<1> DEFINE N == Cardinality(S)
           rank == [m \in S |-> Cardinality(Below(S, order, m))]
<1>1. N \in Nat
  BY FS_CardinalityType
<1>2. ASSUME NEW m \in S
      PROVE  Cardinality(Below(S, order, m)) \in 0..(N - 1)
  <2> DEFINE B == Below(S, order, m)
  <2>1. B \in SUBSET S /\ m \notin B
    BY DEF Below, Orders
  <2>2. Cardinality(B) \in Nat
    BY BelowSize
  <2> HIDE DEF B
  <2>3. Cardinality(B) <= N /\ (N = Cardinality(B) => S = B)
    BY <2>1, FS_Subset
  <2>4. Cardinality(B) \in 0..(N - 1)
    BY <1>1, <2>1, <2>2, <2>3
  <2> QED BY <2>4 DEF B
<1>3. rank \in [S -> 0..(N - 1)]
  BY <1>2
<1>4. \A m, n \in S : rank[m] = rank[n] => m = n
  <2> SUFFICES ASSUME NEW m \in S, NEW n \in S, m # n
               PROVE  rank[m] # rank[n]
    OBVIOUS
  <2>1. Cardinality(Below(S, order, m)) \in Nat /\ Cardinality(Below(S, order, n)) \in Nat
    BY BelowSize
  <2>2. CASE <<m, n>> \in order
    BY <2>1, <2>2, RankGrows
  <2>3. CASE <<n, m>> \in order
    BY <2>1, <2>3, RankGrows
  <2> QED BY <2>2, <2>3 DEF Orders
<1>5. IsFiniteSet(0..(N - 1)) /\ Cardinality(0..(N - 1)) = N
  <2>1. 0 \in Int /\ N - 1 \in Int
    BY <1>1
  <2>2. Cardinality(0..(N - 1)) = IF 0 > N - 1 THEN 0 ELSE N - 1 - 0 + 1
    BY <2>1, FS_Interval
  <2> HIDE DEF N
  <2>3. Cardinality(0..(N - 1)) = N
    BY <1>1, <2>2
  <2> QED BY <2>1, <2>3, FS_Interval
<1> HIDE DEF rank, N
<1>6. rank \in Injection(S, 0..(N - 1))
  BY <1>3, <1>4 DEF Injection, IsInjective
<1>7. rank \in Surjection(S, 0..(N - 1))
  BY <1>5, <1>6, FS_Injection DEF N
<1>8. k - 1 \in 0..(N - 1)
  BY <1>1 DEF N
<1>9. PICK m \in S : rank[m] = k - 1
  BY <1>7, <1>8 DEF Surjection
<1> QED BY <1>9 DEF rank

\* The sequence has every element of S, once, and in order.
LEMMA InOrderSorts ==
    ASSUME NEW S, IsFiniteSet(S), NEW order, Orders(order, S)
    PROVE  LET q == InOrder(S, order)
           IN  /\ q \in Seq(S) /\ Len(q) = Cardinality(S)
               /\ ToSet(q) = S
               /\ \A i, j \in DOMAIN q : i < j => <<q[i], q[j]>> \in order
<1> DEFINE q == InOrder(S, order)  N == Cardinality(S)
<1>1. N \in Nat
  BY FS_CardinalityType
<1> DEFINE element(k) ==
               CHOOSE m \in S : Cardinality({n \in S : <<n, m>> \in order}) = k - 1
<1>2. q = [k \in 1..N |-> element(k)]
  BY DEF InOrder
<1>3. ASSUME NEW k \in 1..N
      PROVE  element(k) \in S /\ Cardinality(Below(S, order, element(k))) = k - 1
  <2>1. \E m \in S : Cardinality({n \in S : <<n, m>> \in order}) = k - 1
    BY RanksTaken DEF Below
  <2>2. element(k) \in S /\ Cardinality({n \in S : <<n, element(k)>> \in order}) = k - 1
    BY <2>1
  <2> HIDE DEF element
  <2> QED BY <2>2 DEF Below
<1> HIDE DEF q, N, element
<1>4. /\ q \in Seq(S) /\ Len(q) = N /\ DOMAIN q = 1..N
      /\ \A k \in 1..N : q[k] \in S /\ Cardinality(Below(S, order, q[k])) = k - 1
  <2>1. DOMAIN q = 1..N /\ \A k \in 1..N : q[k] = element(k)
    BY <1>2
  <2>2. q \in [1..N -> S]
    BY <1>2, <1>3
  <2> QED BY <1>1, <1>3, <2>1, <2>2
<1>5. ASSUME NEW i \in 1..N, NEW j \in 1..N, i < j
      PROVE  <<q[i], q[j]>> \in order
  <2>1. q[i] # q[j]
    BY <1>4, <1>5
  <2>2. ~ (<<q[j], q[i]>> \in order)
    <3> SUFFICES ASSUME <<q[j], q[i]>> \in order PROVE FALSE
      OBVIOUS
    <3>1. Cardinality(Below(S, order, q[j])) < Cardinality(Below(S, order, q[i]))
      BY <1>4, RankGrows
    <3> QED BY <1>4, <1>5, <3>1
  <2> QED BY <1>4, <2>1, <2>2 DEF Orders
<1>6. ASSUME NEW m \in S
      PROVE  m \in ToSet(q)
  <2> DEFINE r == Cardinality(Below(S, order, m))
  <2>1. r \in 0..(N - 1)
    <3> DEFINE B == Below(S, order, m)
    <3>1. B \in SUBSET S /\ m \notin B
      BY DEF Below, Orders
    <3>2. Cardinality(B) \in Nat
      BY BelowSize
    <3> HIDE DEF B
    <3>3. Cardinality(B) <= N /\ (N = Cardinality(B) => S = B)
      BY <3>1, FS_Subset DEF N
    <3>4. Cardinality(B) \in 0..(N - 1)
      BY <1>1, <3>1, <3>2, <3>3
    <3> QED BY <3>4 DEF B
  <2> HIDE DEF r
  <2>2. r + 1 \in 1..N /\ Cardinality(Below(S, order, q[r + 1])) = r
    BY <1>1, <1>4, <2>1
  <2>3. q[r + 1] = m
    <3> SUFFICES ASSUME q[r + 1] # m PROVE FALSE
      OBVIOUS
    <3>1. q[r + 1] \in S
      BY <1>4, <2>2
    <3>2. CASE <<q[r + 1], m>> \in order
      <4>1. r < r
        BY <2>2, <3>1, <3>2, RankGrows DEF r
      <4> QED BY <2>1, <4>1
    <3>3. CASE <<m, q[r + 1]>> \in order
      <4>1. r < r
        BY <2>2, <3>1, <3>3, RankGrows DEF r
      <4> QED BY <2>1, <4>1
    <3> QED BY <3>1, <3>2, <3>3 DEF Orders
  <2> QED BY <1>4, <2>2, <2>3 DEF ToSet
<1>7. ToSet(q) = S
  BY <1>4, <1>4, <1>6 DEF ToSet
<1> QED BY <1>4, <1>5, <1>7 DEF q, N

\* The elements of a set that no other follows.
LEMMA LastExists ==
    ASSUME NEW S, IsFiniteSet(S), S # {}, NEW order, Orders(order, S)
    PROVE  \E m \in S : \A n \in S : <<m, n>> \notin order
<1> DEFINE N == Cardinality(S)
<1>1. N \in Nat /\ N # 0
  BY FS_CardinalityType, FS_EmptySet
<1>2. N \in 1..N
  BY <1>1
<1>3. PICK m \in S : Cardinality(Below(S, order, m)) = N - 1
  BY <1>2, RanksTaken
<1>4. ASSUME NEW n \in S, <<m, n>> \in order
      PROVE  FALSE
  <2> DEFINE B == Below(S, order, n)
  <2>1. N - 1 < Cardinality(B)
    BY <1>3, <1>4, RankGrows
  <2>2. B \in SUBSET S /\ n \notin B /\ Cardinality(B) \in Nat
    BY BelowSize DEF Below, Orders
  <2> HIDE DEF B
  <2>3. Cardinality(B) <= N /\ (N = Cardinality(B) => S = B)
    BY <2>2, FS_Subset
  <2> HIDE DEF N
  <2>4. Cardinality(B) = N
    BY <1>1, <2>1, <2>2, <2>3
  <2> QED BY <2>2, <2>3, <2>4
<1> QED BY <1>4

\* The elements of a page are followed by fewer than limit others, and what
\* follows one of them is on the page; a page with room to spare has all.
LEMMA NewestReaches ==
    ASSUME NEW S, IsFiniteSet(S), NEW order, Orders(order, S), NEW limit \in Nat
    PROVE  LET P == Newest(S, order, limit)
           IN  /\ P \subseteq S /\ IsFiniteSet(P) /\ Cardinality(P) \in Nat
               /\ \A m \in P, n \in S : <<m, n>> \in order => n \in P
               /\ Cardinality(P) < limit => P = S
               /\ Cardinality(S) <= limit => P = S
<1> DEFINE P == Newest(S, order, limit)
<1>1. \A m \in S : m \in P <=> Cardinality(Above(S, order, m)) < limit
  BY DEF Newest, Above
<1>2. P \in SUBSET S
  BY DEF Newest
<1> HIDE DEF P
<1>3. IsFiniteSet(P) /\ Cardinality(P) \in Nat
  BY <1>2, FS_Subset, FS_CardinalityType
<1>4. ASSUME NEW m \in P, NEW n \in S, <<m, n>> \in order
      PROVE  n \in P
  <2> DEFINE A == Above(S, order, m)  B == Above(S, order, n)
  <2>1. B \in SUBSET A
    BY <1>2, <1>4 DEF Above, Orders
  <2>2. /\ IsFiniteSet(A) /\ Cardinality(A) \in Nat /\ Cardinality(B) \in Nat
        /\ Cardinality(A) < limit
    BY <1>1, <1>2, AboveSize
  <2> HIDE DEF A, B
  <2>3. Cardinality(B) <= Cardinality(A)
    BY <2>1, <2>2, FS_Subset
  <2>4. Cardinality(B) < limit
    BY <2>2, <2>3
  <2> QED BY <1>1, <2>4 DEF B
<1>5. ASSUME Cardinality(P) < limit
      PROVE  P = S
  <2> SUFFICES ASSUME S \ P # {} PROVE FALSE
    BY <1>2
  <2>1. IsFiniteSet(S \ P)
    BY FS_Difference
  <2>2. Orders(order, S \ P)
    BY DEF Orders
  <2>3. PICK m \in S \ P : \A n \in S \ P : <<m, n>> \notin order
    BY <2>1, <2>2, LastExists
  <2> DEFINE A == Above(S, order, m)
  <2>4. A \in SUBSET P
    BY <2>3 DEF Above
  <2>5. Cardinality(A) \in Nat /\ ~ (Cardinality(A) < limit)
    BY <1>1, <2>3, AboveSize
  <2> HIDE DEF A
  <2>6. Cardinality(A) <= Cardinality(P)
    BY <1>3, <2>4, FS_Subset
  <2> QED BY <1>3, <1>5, <2>5, <2>6
<1>6. ASSUME Cardinality(S) <= limit
      PROVE  P = S
  <2> SUFFICES ASSUME NEW m \in S PROVE m \in P
    BY <1>2
  <2> DEFINE A == Above(S, order, m)  N == Cardinality(S)
  <2>1. A \in SUBSET S /\ m \notin A
    BY DEF Above, Orders
  <2>2. Cardinality(A) \in Nat /\ N \in Nat
    BY AboveSize, FS_CardinalityType
  <2> HIDE DEF A
  <2>3. Cardinality(A) <= N /\ (N = Cardinality(A) => S = A)
    BY <2>1, FS_Subset
  <2>4. Cardinality(A) < limit
    BY <1>6, <2>1, <2>2, <2>3
  <2> QED BY <1>1, <2>4 DEF A
<1> QED BY <1>2, <1>3, <1>4, <1>5, <1>6 DEF P

-----------------------------------------------------------------------------
(* The tab. *)

PostSet ==
    {Idle} \cup [state : {"sent"}, peer : Peers]
           \cup [state : {"stored"}, peer : Peers, id : DOMAIN stored]

ClientTypeOK ==
    /\ stored \in Seq([peer : Peers, mine : BOOLEAN])
    /\ Len(stored) <= MaxMessages
    /\ unemitted \subseteq DOMAIN stored
    /\ wire \in Seq(DOMAIN stored)
    /\ connected \in BOOLEAN /\ covered \in BOOLEAN
    /\ selected \in Peers \cup {NoPeer}
    /\ load \in {"none", "sent", "read", "shown", "error"}
    /\ load # "none" => selected \in Peers
    /\ page \subseteq DOMAIN stored
    /\ cache \in [Peers -> Seq(DOMAIN stored)]
    /\ post \in PostSet

\* No list shows a message twice.
Distinct(q) == \A i, j \in DOMAIN q : q[i] = q[j] => i = j

\* Lists, pages and answers hold messages of their own conversation.
PlaceInv ==
    /\ \A p \in Peers : Cached(p) \subseteq With(p) /\ Distinct(cache[p])
    /\ page \subseteq With(selected)
    /\ post.state = "stored" => post.id \in With(post.peer)

\* As long as the socket has been connected since the page was read, what is
\* not on the page, or not merged any more from it, is in the list or on its
\* way to it.
CoverInv ==
    covered =>
      /\ connected
      /\ load \in {"read", "shown"} =>
           \A id \in With(selected) : OnPage(id) /\ ~ stored[id].mine =>
              \/ id \in Cached(selected) \cup unemitted \cup ToSet(wire)
              \/ load = "read" /\ id \in page

ClientInv == ClientTypeOK /\ PlaceInv /\ CoverInv

LEMMA AppendAdds ==
    ASSUME NEW S, NEW q \in Seq(S), NEW x \in S
    PROVE  /\ Append(q, x) \in Seq(S)
           /\ ToSet(Append(q, x)) = ToSet(q) \cup {x}
           /\ Distinct(q) /\ x \notin ToSet(q) => Distinct(Append(q, x))
<1> DEFINE r == Append(q, x)
<1>1. /\ r \in Seq(S) /\ Len(q) \in Nat
      /\ DOMAIN q = 1..Len(q) /\ DOMAIN r = 1..(Len(q) + 1)
      /\ \A i \in 1..Len(q) : r[i] = q[i]
      /\ r[Len(q) + 1] = x
  OBVIOUS
<1> HIDE DEF r
<1>2. ToSet(r) = ToSet(q) \cup {x}
  BY <1>1 DEF ToSet
<1>3. ASSUME Distinct(q), x \notin ToSet(q)
      PROVE  Distinct(r)
  <2> SUFFICES ASSUME NEW i \in DOMAIN r, NEW j \in DOMAIN r, r[i] = r[j]
               PROVE  i = j
    BY DEF Distinct
  <2>1. \A k \in 1..Len(q) : r[k] # x
    BY <1>1, <1>3 DEF ToSet
  <2>2. CASE i \in 1..Len(q) /\ j \in 1..Len(q)
    BY <1>1, <1>3, <2>2 DEF Distinct
  <2>3. CASE i = Len(q) + 1 \/ j = Len(q) + 1
    BY <1>1, <2>1, <2>3
  <2> QED BY <1>1, <2>2, <2>3
<1> QED BY <1>1, <1>2, <1>3 DEF r

LEMMA TailDrops ==
    ASSUME NEW S, NEW q \in Seq(S), q # <<>>
    PROVE  /\ Tail(q) \in Seq(S) /\ Head(q) \in S /\ Head(q) \in ToSet(q)
           /\ ToSet(q) = {Head(q)} \cup ToSet(Tail(q))
<1> DEFINE r == Tail(q)
<1>1. /\ r \in Seq(S) /\ Len(q) \in Nat \ {0} /\ Head(q) = q[1]
      /\ DOMAIN q = 1..Len(q) /\ DOMAIN r = 1..(Len(q) - 1)
      /\ \A i \in 1..(Len(q) - 1) : r[i] = q[i + 1]
  OBVIOUS
<1> HIDE DEF r
<1>2. 1 \in DOMAIN q /\ q[1] \in S
  BY <1>1
<1>3. \A k \in DOMAIN q : k = 1 \/ (k - 1 \in DOMAIN r /\ r[k - 1] = q[k])
  BY <1>1
<1>4. \A k \in DOMAIN r : k + 1 \in DOMAIN q /\ q[k + 1] = r[k]
  BY <1>1
<1>5. ToSet(q) = {Head(q)} \cup ToSet(r)
  BY <1>1, <1>2, <1>3, <1>4 DEF ToSet
<1> QED BY <1>1, <1>2, <1>5 DEF r, ToSet

LEMMA AppendMessageAdds ==
    ASSUME NEW S, NEW q \in Seq(S), Distinct(q), NEW id \in S
    PROVE  /\ appendMessage(q, id) \in Seq(S)
           /\ Distinct(appendMessage(q, id))
           /\ ToSet(appendMessage(q, id)) = ToSet(q) \cup {id}
<1>1. CASE id \in ToSet(q)
  BY <1>1 DEF appendMessage
<1>2. CASE id \notin ToSet(q)
  BY <1>2, AppendAdds DEF appendMessage
<1> QED BY <1>1, <1>2

\* Two ids are told apart by their second or by their place.
LEMMA MergeAdds ==
    ASSUME NEW n \in Nat, NEW q \in Seq(1..n), Distinct(q), NEW new \in SUBSET (1..n)
    PROVE  /\ mergeUniqueMessages(q, new) \in Seq(1..n)
           /\ Distinct(mergeUniqueMessages(q, new))
           /\ ToSet(mergeUniqueMessages(q, new)) = ToSet(q) \cup new
<1> DEFINE ids == ToSet(q) \cup new
           Place(id) == IF id \in ToSet(q) THEN CHOOSE k \in DOMAIN q : q[k] = id
                                           ELSE Len(q) + id
           order == {p \in ids \X ids :
                       \/ Second(p[1]) < Second(p[2])
                       \/ Second(p[1]) = Second(p[2]) /\ Place(p[1]) < Place(p[2])}
           sorted == InOrder(ids, order)
<1>1. mergeUniqueMessages(q, new) = sorted
  BY DEF mergeUniqueMessages
<1>2. ids \subseteq 1..n
  <2>1. \A k \in DOMAIN q : q[k] \in 1..n
    OBVIOUS
  <2>2. ToSet(q) \subseteq 1..n
    BY <2>1 DEF ToSet
  <2> QED BY <2>2
<1>3. IsFiniteSet(ids)
  <2>1. IsFiniteSet(1..n)
    BY FS_Interval
  <2> QED BY <1>2, <2>1, FS_Subset
<1>4. \A id \in ids : Second(id) \in Int
  BY <1>2, ClientAssumption DEF Second
<1>5. ASSUME NEW id \in ids
      PROVE  /\ id \in ToSet(q) => Place(id) \in DOMAIN q /\ q[Place(id)] = id
             /\ id \notin ToSet(q) => Place(id) = Len(q) + id
  <2>1. id \in ToSet(q) => \E k \in DOMAIN q : q[k] = id
    BY DEF ToSet
  <2> QED BY <2>1
<1> HIDE DEF Place
<1>6. DOMAIN q = 1..Len(q) /\ Len(q) \in Nat
  OBVIOUS
<1>7. \A id \in ids : Place(id) \in Int
  BY <1>2, <1>5, <1>6
<1>8. ASSUME NEW i \in ids, NEW j \in ids, i # j
      PROVE  Place(i) # Place(j)
  <2>1. CASE i \in ToSet(q) /\ j \in ToSet(q)
    BY <1>5, <1>8, <2>1
  <2>2. CASE i \notin ToSet(q) /\ j \notin ToSet(q)
    <3>1. Place(i) = Len(q) + i /\ Place(j) = Len(q) + j
      BY <1>5, <2>2
    <3> QED BY <1>2, <1>6, <1>8, <3>1
  <2>3. CASE i \in ToSet(q) /\ j \notin ToSet(q)
    <3>1. Place(i) \in 1..Len(q) /\ Place(j) = Len(q) + j
      BY <1>5, <1>6, <2>3
    <3> QED BY <1>2, <1>6, <3>1
  <2>4. CASE i \notin ToSet(q) /\ j \in ToSet(q)
    <3>1. Place(j) \in 1..Len(q) /\ Place(i) = Len(q) + i
      BY <1>5, <1>6, <2>4
    <3> QED BY <1>2, <1>6, <3>1
  <2> QED BY <2>1, <2>2, <2>3, <2>4
<1>9. \A i, j \in ids : <<i, j>> \in order <=>
        \/ Second(i) < Second(j)
        \/ Second(i) = Second(j) /\ Place(i) < Place(j)
  OBVIOUS
<1> HIDE DEF order, ids
<1>10. Orders(order, ids)
  <2>1. \A m \in ids : <<m, m>> \notin order
    BY <1>4, <1>7, <1>9
  <2>2. ASSUME NEW i \in ids, NEW j \in ids, i # j
        PROVE  <<i, j>> \in order \/ <<j, i>> \in order
    <3>1. Second(i) \in Int /\ Second(j) \in Int
      BY <1>4
    <3>2. Place(i) \in Int /\ Place(j) \in Int /\ Place(i) # Place(j)
      BY <1>7, <1>8, <2>2
    <3> QED BY <1>9, <3>1, <3>2
  <2>3. ASSUME NEW i \in ids, NEW j \in ids, NEW k \in ids,
               <<i, j>> \in order, <<j, k>> \in order
        PROVE  <<i, k>> \in order
    <3>1. Second(i) \in Int /\ Second(j) \in Int /\ Second(k) \in Int
      BY <1>4
    <3>2. Place(i) \in Int /\ Place(j) \in Int /\ Place(k) \in Int
      BY <1>7
    <3> QED BY <1>9, <2>3, <3>1, <3>2
  <2> QED BY <2>1, <2>2, <2>3 DEF Orders
<1>11. /\ sorted \in Seq(ids) /\ ToSet(sorted) = ids
       /\ \A i, j \in DOMAIN sorted : i < j => <<sorted[i], sorted[j]>> \in order
  BY <1>3, <1>10, InOrderSorts
<1> HIDE DEF sorted
<1>12. sorted \in Seq(1..n)
  <2>1. \A k \in DOMAIN sorted : sorted[k] \in ids
    BY <1>11 DEF ToSet
  <2>2. Len(sorted) \in Nat /\ sorted \in [1..Len(sorted) -> ids]
    BY <1>11
  <2>3. sorted \in [1..Len(sorted) -> 1..n]
    BY <1>2, <2>1, <2>2
  <2> QED BY <2>2, <2>3
<1>13. Distinct(sorted)
  <2> SUFFICES ASSUME NEW i \in DOMAIN sorted, NEW j \in DOMAIN sorted, i # j
               PROVE  sorted[i] # sorted[j]
    BY DEF Distinct
  <2>1. i \in Int /\ j \in Int /\ sorted[i] \in ids
    BY <1>11
  <2>2. CASE i < j
    BY <1>10, <1>11, <2>1, <2>2 DEF Orders
  <2>3. CASE j < i
    BY <1>10, <1>11, <2>1, <2>3 DEF Orders
  <2> QED BY <2>1, <2>2, <2>3
<1> QED BY <1>1, <1>11, <1>12, <1>13 DEF ids

LEMMA ByIdOrders ==
    ASSUME NEW S \in SUBSET (1..MaxMessages)
    PROVE  IsFiniteSet(S) /\ Orders(ById, S)
<1>1. MaxMessages \in Nat
  BY ClientAssumption
<1>2. IsFiniteSet(1..MaxMessages)
  BY <1>1, FS_Interval
<1>3. IsFiniteSet(S)
  BY <1>2, FS_Subset
<1>4. \A m, n \in S : <<m, n>> \in ById <=> m < n
  BY DEF ById
<1>5. S \subseteq Int
  BY <1>1
<1> QED BY <1>3, <1>4, <1>5 DEF Orders

LEMMA SeqGrows ==
    ASSUME NEW S, NEW T, S \subseteq T, NEW q \in Seq(S)
    PROVE  q \in Seq(T)
<1>1. Len(q) \in Nat /\ q \in [1..Len(q) -> S]
  OBVIOUS
<1>2. q \in [1..Len(q) -> T]
  BY <1>1
<1> QED BY <1>1, <1>2

-----------------------------------------------------------------------------
(* What changes a list. *)

\* The tab keeps all that it has shown.
Kept == \A p \in Peers : Cached(p) \subseteq Cached(p)'

\* One list is replaced by another that holds more of its conversation.
LEMMA OneList ==
    ASSUME ClientInv, NEW p \in Peers, NEW list \in Seq(DOMAIN stored),
           Distinct(list), Cached(p) \subseteq ToSet(list), ToSet(list) \subseteq With(p),
           cache' = [cache EXCEPT ![p] = list], stored' = stored
    PROVE  /\ cache' \in [Peers -> Seq(DOMAIN stored)]
           /\ Cached(p)' = ToSet(list)
           /\ \A r \in Peers : /\ Cached(r)' \subseteq With(r)'
                               /\ Distinct(cache'[r])
           /\ Kept
<1>1. cache \in [Peers -> Seq(DOMAIN stored)]
  BY DEF ClientInv, ClientTypeOK
<1>2. /\ cache'[p] = list
      /\ \A r \in Peers \ {p} : cache'[r] = cache[r]
      /\ cache' \in [Peers -> Seq(DOMAIN stored)]
  BY <1>1
<1>3. \A r \in Peers : With(r)' = With(r)
  BY DEF With
<1>4. \A r \in Peers \ {p} : Cached(r)' = Cached(r)
  BY <1>2 DEF Cached
<1>5. Cached(p)' = ToSet(list)
  BY <1>2 DEF Cached
<1>6. ASSUME NEW r \in Peers
      PROVE  /\ Cached(r)' \subseteq With(r)' /\ Distinct(cache'[r])
             /\ Cached(r) \subseteq Cached(r)'
  <2>1. CASE r = p
    BY <1>2, <1>3, <1>5, <2>1
  <2>2. CASE r # p
    BY <1>2, <1>3, <1>4, <2>2 DEF ClientInv, PlaceInv
  <2> QED BY <2>1, <2>2
<1> QED BY <1>2, <1>5, <1>6 DEF Kept

\* A message of the conversation is appended.
LEMMA OneAppended ==
    ASSUME ClientInv, NEW p \in Peers, NEW id \in With(p),
           cache' = [cache EXCEPT ![p] = appendMessage(@, id)], stored' = stored
    PROVE  /\ cache' \in [Peers -> Seq(DOMAIN stored)]
           /\ Cached(p)' = Cached(p) \cup {id}
           /\ \A r \in Peers : /\ Cached(r)' \subseteq With(r)'
                               /\ Distinct(cache'[r])
           /\ Kept
<1> DEFINE list == appendMessage(cache[p], id)
<1>1. cache' = [cache EXCEPT ![p] = list]
  OBVIOUS
<1>2. cache[p] \in Seq(DOMAIN stored) /\ Distinct(cache[p]) /\ Cached(p) \subseteq With(p)
  BY DEF ClientInv, ClientTypeOK, PlaceInv
<1>3. id \in DOMAIN stored
  BY DEF With
<1>4. list \in Seq(DOMAIN stored) /\ Distinct(list) /\ ToSet(list) = Cached(p) \cup {id}
  BY <1>2, <1>3, AppendMessageAdds DEF Cached
<1> HIDE DEF list
<1> QED BY <1>1, <1>2, <1>4, OneList

\* A page of the conversation is merged.
LEMMA OneMerged ==
    ASSUME ClientInv, NEW p \in Peers, NEW new \in SUBSET With(p),
           cache' = [cache EXCEPT ![p] = mergeUniqueMessages(@, new)], stored' = stored
    PROVE  /\ cache' \in [Peers -> Seq(DOMAIN stored)]
           /\ Cached(p)' = Cached(p) \cup new
           /\ \A r \in Peers : /\ Cached(r)' \subseteq With(r)'
                               /\ Distinct(cache'[r])
           /\ Kept
<1> DEFINE list == mergeUniqueMessages(cache[p], new)
<1>1. cache' = [cache EXCEPT ![p] = list]
  OBVIOUS
<1>2. cache[p] \in Seq(DOMAIN stored) /\ Distinct(cache[p]) /\ Cached(p) \subseteq With(p)
  BY DEF ClientInv, ClientTypeOK, PlaceInv
<1>3. DOMAIN stored = 1..Len(stored) /\ Len(stored) \in Nat
  BY DEF ClientInv, ClientTypeOK
<1>4. new \in SUBSET (1..Len(stored))
  BY <1>3 DEF With
<1>5. /\ list \in Seq(DOMAIN stored) /\ Distinct(list)
      /\ ToSet(list) = ToSet(cache[p]) \cup new
  BY <1>2, <1>3, <1>4, MergeAdds
<1>6. ToSet(list) = Cached(p) \cup new
  BY <1>5 DEF Cached
<1> HIDE DEF list
<1> QED BY <1>1, <1>2, <1>5, <1>6, OneList

\* Nothing is shown that was not before.
LEMMA NoList ==
    ASSUME ClientInv, cache' = cache, stored' = stored
    PROVE  /\ cache' \in [Peers -> Seq(DOMAIN stored)]
           /\ \A r \in Peers : /\ Cached(r)' = Cached(r)
                               /\ Cached(r)' \subseteq With(r)'
                               /\ Distinct(cache'[r])
           /\ Kept
<1>1. \A r \in Peers : With(r)' = With(r) /\ Cached(r)' = Cached(r)
  BY DEF With, Cached
<1> QED BY <1>1 DEF ClientInv, ClientTypeOK, PlaceInv, Kept

\* The clauses about post, wire and page follow from what an action leaves of
\* them, when no message is stored.
LEMMA Unstored ==
    ASSUME ClientInv, stored' = stored, UNCHANGED unemitted \/ unemitted' \subseteq unemitted,
           wire' \in Seq(DOMAIN stored),
           connected' \in BOOLEAN, covered' \in BOOLEAN,
           selected' \in Peers \cup {NoPeer},
           load' \in {"none", "sent", "read", "shown", "error"},
           load' # "none" => selected' \in Peers,
           page' \subseteq With(selected'),
           cache' \in [Peers -> Seq(DOMAIN stored)],
           \A r \in Peers : Cached(r)' \subseteq With(r)' /\ Distinct(cache'[r]),
           post' \in PostSet, post'.state = "stored" => post'.id \in With(post'.peer),
           CoverInv'
    PROVE  ClientInv'
<1>1. /\ stored \in Seq([peer : Peers, mine : BOOLEAN]) /\ Len(stored) <= MaxMessages
      /\ unemitted' \subseteq DOMAIN stored
  BY DEF ClientInv, ClientTypeOK
<1>2. page' \subseteq DOMAIN stored
  BY DEF With
<1>3. PostSet' = PostSet
  BY DEF PostSet
<1>4. ClientTypeOK'
  BY <1>1, <1>2, <1>3 DEF ClientTypeOK
<1>5. PlaceInv'
  <2>1. page' \subseteq With(selected)'
    BY DEF With
  <2>2. post'.state = "stored" => post'.id \in With(post.peer)'
    BY DEF With
  <2> QED BY <2>1, <2>2 DEF PlaceInv
<1> QED BY <1>4, <1>5 DEF ClientInv

\* What was on its way to the tab or shown stays so.
LEMMA CoverKept ==
    ASSUME ClientInv, stored' = stored, selected' = selected, page' = page,
           covered' => covered /\ connected',
           covered' /\ load' \in {"read", "shown"} =>
             /\ load \in {"read", "shown"}
             /\ load = "read" => load' = "read" \/ page \subseteq Cached(selected)'
             /\ \A id \in With(selected) :
                  id \in Cached(selected) \cup unemitted \cup ToSet(wire)
                    => id \in Cached(selected)' \cup unemitted' \cup ToSet(wire')
    PROVE  CoverInv'
<1> SUFFICES ASSUME covered', load' \in {"read", "shown"},
                    NEW id \in With(selected)', OnPage(id)', ~ stored'[id].mine
             PROVE  \/ id \in Cached(selected)' \cup unemitted' \cup ToSet(wire')
                    \/ load' = "read" /\ id \in page'
  BY DEF CoverInv
<1>1. id \in With(selected) /\ OnPage(id) /\ ~ stored[id].mine
  BY DEF With, OnPage
<1>2. \/ id \in Cached(selected) \cup unemitted \cup ToSet(wire)
      \/ load = "read" /\ id \in page
  BY <1>1 DEF ClientInv, CoverInv
<1> QED BY <1>1, <1>2

\* A message stored: it is the newest, and the others stay as they are.
LEMMA StoredOne ==
    ASSUME ClientInv, NEW p \in Peers, NEW mine \in BOOLEAN, Store(p, mine)
    PROVE  /\ stored' \in Seq([peer : Peers, mine : BOOLEAN])
           /\ Len(stored') <= MaxMessages
           /\ DOMAIN stored' = DOMAIN stored \cup {Len(stored')}
           /\ stored'[Len(stored')].mine = mine
           /\ \A id \in DOMAIN stored : stored'[id] = stored[id]
           /\ Len(stored') \in With(p)'
           /\ \A q : With(q) \subseteq With(q)'
           /\ \A q : With(q)' \subseteq With(q) \cup {Len(stored')}
<1> DEFINE row == [peer |-> p, mine |-> mine]
           all == stored'
<1>1. /\ stored \in Seq([peer : Peers, mine : BOOLEAN]) /\ Len(stored) < MaxMessages
      /\ all = Append(stored, row) /\ row \in [peer : Peers, mine : BOOLEAN]
  BY DEF ClientInv, ClientTypeOK, Store
<1>2. row.peer = p /\ row.mine = mine
  OBVIOUS
<1> HIDE DEF row
<1>3. /\ all \in Seq([peer : Peers, mine : BOOLEAN])
      /\ Len(stored) \in Nat /\ Len(all) = Len(stored) + 1
      /\ DOMAIN stored = 1..Len(stored) /\ DOMAIN all = 1..(Len(stored) + 1)
      /\ \A id \in 1..Len(stored) : all[id] = stored[id]
      /\ all[Len(stored) + 1] = row
  BY <1>1
<1>4. Len(all) <= MaxMessages
  BY <1>1, <1>3, ClientAssumption
<1>5. DOMAIN all = DOMAIN stored \cup {Len(all)}
  BY <1>3
<1>6. /\ all[Len(all)] = row
      /\ \A id \in DOMAIN stored : all[id] = stored[id]
  BY <1>3
<1>7. \A q : With(q)' = {id \in DOMAIN all : all[id].peer = q}
  BY DEF With
<1> HIDE DEF all
<1>8. Len(all) \in With(p)'
  BY <1>2, <1>5, <1>6, <1>7
<1>9. ASSUME NEW q
      PROVE  With(q) \subseteq With(q)' /\ With(q)' \subseteq With(q) \cup {Len(all)}
  <2>1. With(q) = {id \in DOMAIN stored : stored[id].peer = q}
    BY DEF With
  <2>2. With(q)' = {id \in DOMAIN all : all[id].peer = q}
    BY <1>7
  <2> QED BY <1>5, <1>6, <2>1, <2>2
<1> QED BY <1>2, <1>3, <1>4, <1>5, <1>6, <1>8, <1>9 DEF all

LEMMA StoreKeeps ==
    ASSUME ClientInv, NEW p \in Peers, NEW mine \in BOOLEAN, Store(p, mine),
           UNCHANGED <<socket, selected, loading, cache>>,
           unemitted \subseteq unemitted', unemitted' \subseteq unemitted \cup {Len(stored')},
           mine \/ Len(stored') \in unemitted',
           post' \in PostSet', post'.state = "stored" => post'.id \in With(post.peer)'
    PROVE  ClientInv' /\ Kept
<1> DEFINE new == Len(stored')
<1>1. /\ stored' \in Seq([peer : Peers, mine : BOOLEAN])
      /\ Len(stored') <= MaxMessages
      /\ DOMAIN stored' = DOMAIN stored \cup {new}
      /\ stored'[new].mine = mine
      /\ \A id \in DOMAIN stored : stored'[id] = stored[id]
  BY StoredOne
<1>2. /\ \A q : With(q) \subseteq With(q)'
      /\ \A q : With(q)' \subseteq With(q) \cup {new}
  BY StoredOne
<1> HIDE DEF new
<1>3. /\ wire' = wire /\ connected' = connected /\ selected' = selected
      /\ load' = load /\ page' = page /\ covered' = covered /\ cache' = cache
  BY DEF socket, loading
<1>4. \A q \in Peers : Cached(q)' = Cached(q)
  BY <1>3 DEF Cached
<1>5. wire \in Seq(DOMAIN stored')
  BY <1>1, SeqGrows DEF ClientInv, ClientTypeOK
<1>6. cache \in [Peers -> Seq(DOMAIN stored')]
  <2>1. \A q \in Peers : cache[q] \in Seq(DOMAIN stored')
    BY <1>1, SeqGrows DEF ClientInv, ClientTypeOK
  <2> QED BY <2>1 DEF ClientInv, ClientTypeOK
<1>7. unemitted' \subseteq DOMAIN stored' /\ page \subseteq DOMAIN stored'
  BY <1>1 DEF ClientInv, ClientTypeOK, new
<1>8. /\ connected \in BOOLEAN /\ covered \in BOOLEAN
      /\ selected \in Peers \cup {NoPeer}
      /\ load \in {"none", "sent", "read", "shown", "error"}
      /\ load # "none" => selected \in Peers
  BY DEF ClientInv, ClientTypeOK
<1>9. ClientTypeOK'
  BY <1>1, <1>3, <1>5, <1>6, <1>7, <1>8 DEF ClientTypeOK
<1>10. PlaceInv'
  <2>1. \A q \in Peers : Cached(q)' \subseteq With(q)' /\ Distinct(cache'[q])
    BY <1>2, <1>3, <1>4 DEF ClientInv, PlaceInv
  <2>2. page' \subseteq With(selected)'
    <3>1. page' \subseteq With(selected)
      BY <1>3 DEF ClientInv, PlaceInv
    <3>2. With(selected)' = {id \in DOMAIN stored' : stored'[id].peer = selected}
      BY <1>3 DEF With
    <3> QED BY <1>1, <3>1, <3>2 DEF With
  <2>3. post'.state = "stored" => post'.id \in With(post.peer)'
    OBVIOUS
  <2> QED BY <2>1, <2>2, <2>3 DEF PlaceInv
<1>11. CoverInv'
  <2> SUFFICES ASSUME covered, load \in {"read", "shown"},
                      NEW id \in With(selected)', OnPage(id), ~ stored'[id].mine
               PROVE  /\ connected
                      /\ \/ id \in Cached(selected) \cup unemitted' \cup ToSet(wire)
                         \/ load = "read" /\ id \in page
    <3>1. covered => connected
      BY DEF ClientInv, CoverInv
    <3>2. Cached(selected)' = Cached(selected)
      BY <1>3 DEF Cached
    <3>3. \A id : OnPage(id)' <=> OnPage(id)
      BY <1>3 DEF OnPage
    <3> QED BY <1>3, <3>1, <3>2, <3>3 DEF CoverInv
  <2>1. id \in DOMAIN stored' /\ stored'[id].peer = selected
    BY <1>3 DEF With
  <2>2. connected
    BY DEF ClientInv, CoverInv
  <2>3. CASE id = new
    BY <1>1, <2>2, <2>3 DEF new
  <2>4. CASE id \in DOMAIN stored
    <3>1. id \in With(selected) /\ ~ stored[id].mine
      BY <1>1, <2>1, <2>4 DEF With
    <3> QED BY <2>2, <3>1 DEF ClientInv, CoverInv
  <2> QED BY <1>1, <2>1, <2>3, <2>4
<1>12. Kept
  BY <1>4 DEF Kept
<1> QED BY <1>9, <1>10, <1>11, <1>12 DEF ClientInv

-----------------------------------------------------------------------------
(* The actions. *)

LEMMA StoresKeep ==
    ASSUME ClientInv, NEW p \in Peers, PeerSends(p) \/ MineElsewhere(p)
    PROVE  ClientInv' /\ Kept
<1>1. post' = post /\ UNCHANGED <<socket, selected, loading, cache>>
  BY DEF PeerSends, MineElsewhere
<1>2. PICK mine \in BOOLEAN :
        /\ Store(p, mine)
        /\ unemitted' = IF mine THEN unemitted ELSE unemitted \cup {Len(stored')}
  <2>1. CASE PeerSends(p)
    BY <2>1 DEF PeerSends
  <2>2. CASE MineElsewhere(p)
    BY <2>2 DEF MineElsewhere
  <2> QED BY <2>1, <2>2
<1>3. DOMAIN stored \subseteq DOMAIN stored' /\ \A q : With(q) \subseteq With(q)'
  BY <1>2, StoredOne
<1>4. post \in PostSet /\ (post.state = "stored" => post.id \in With(post.peer))
  BY DEF ClientInv, ClientTypeOK, PlaceInv
<1>5. post' \in PostSet'
  BY <1>1, <1>3, <1>4 DEF PostSet
<1>6. post'.state = "stored" => post'.id \in With(post.peer)'
  <2>1. With(post.peer) \subseteq {id \in DOMAIN stored' : stored'[id].peer = post.peer}
    BY <1>3 DEF With
  <2> QED BY <1>1, <1>4, <2>1 DEF With
<1> QED BY <1>1, <1>2, <1>5, <1>6, StoreKeeps

LEMMA StorePostKeeps ==
    ASSUME ClientInv, StorePost
    PROVE  ClientInv' /\ Kept
<1>1. /\ post \in PostSet /\ post.state = "sent"
      /\ Store(post.peer, TRUE)
      /\ post' = [state |-> "stored", peer |-> post.peer, id |-> Len(stored')]
      /\ UNCHANGED <<unemitted, socket, selected, loading, cache>>
  BY DEF StorePost, ClientInv, ClientTypeOK
<1>2. PICK p \in Peers : p = post.peer
  BY <1>1 DEF PostSet, Idle
<1>3. Store(p, TRUE) /\ post' = [state |-> "stored", peer |-> p, id |-> Len(stored')]
  BY <1>1, <1>2
<1>4. Len(stored') \in DOMAIN stored' /\ Len(stored') \in With(p)'
  BY <1>3, StoredOne
<1>5. post'.peer = p /\ post'.id = Len(stored')
  BY <1>3
<1>6. post' \in PostSet'
  BY <1>3, <1>4 DEF PostSet
<1>7. post'.id \in With(post.peer)'
  BY <1>4, <1>5 DEF With
<1> QED BY <1>1, <1>3, <1>6, <1>7, StoreKeeps

LEMMA EmitKeeps ==
    ASSUME ClientInv, NEW id \in unemitted, Emit(id)
    PROVE  ClientInv' /\ Kept
<1>1. /\ unemitted' = unemitted \ {id}
      /\ wire' = IF connected THEN Append(wire, id) ELSE wire
      /\ UNCHANGED <<stored, connected, selected, load, page, covered, cache, post>>
  BY DEF Emit, loading
<1>2. /\ wire \in Seq(DOMAIN stored) /\ id \in DOMAIN stored
      /\ covered => connected
  BY DEF ClientInv, ClientTypeOK, CoverInv
<1>3. /\ wire' \in Seq(DOMAIN stored)
      /\ connected => ToSet(wire') = ToSet(wire) \cup {id}
  <2>1. /\ Append(wire, id) \in Seq(DOMAIN stored)
        /\ ToSet(Append(wire, id)) = ToSet(wire) \cup {id}
    BY <1>2, AppendAdds
  <2>2. CASE connected
    BY <1>1, <2>1, <2>2
  <2>3. CASE ~ connected
    BY <1>1, <1>2, <2>3
  <2> QED BY <2>2, <2>3
<1>4. /\ cache' \in [Peers -> Seq(DOMAIN stored)]
      /\ \A r \in Peers : /\ Cached(r)' = Cached(r)
                          /\ Cached(r)' \subseteq With(r)' /\ Distinct(cache'[r])
      /\ Kept
  BY <1>1, NoList
<1>5. CoverInv'
  <2>1. Cached(selected)' = Cached(selected)
    BY <1>1 DEF Cached
  <2> QED BY <1>1, <1>2, <1>3, <2>1, CoverKept
<1>6. page' \subseteq With(selected')
  BY <1>1 DEF ClientInv, PlaceInv
<1>7. post' \in PostSet /\ (post'.state = "stored" => post'.id \in With(post'.peer))
  BY <1>1 DEF ClientInv, ClientTypeOK, PlaceInv
<1>8. /\ connected' \in BOOLEAN /\ covered' \in BOOLEAN /\ selected' \in Peers \cup {NoPeer}
      /\ load' \in {"none", "sent", "read", "shown", "error"}
      /\ load' # "none" => selected' \in Peers
  BY <1>1 DEF ClientInv, ClientTypeOK
<1> QED BY <1>1, <1>3, <1>4, <1>5, <1>6, <1>7, <1>8, Unstored

\* The actions that neither store a message nor change a list or an event that
\* is not emitted yet.
LEMMA QuietKeeps ==
    ASSUME ClientInv, stored' = stored, unemitted' = unemitted, cache' = cache,
           wire' \in Seq(DOMAIN stored), connected' \in BOOLEAN, covered' \in BOOLEAN,
           selected' \in Peers \cup {NoPeer},
           load' \in {"none", "sent", "read", "shown", "error"},
           load' # "none" => selected' \in Peers,
           page' \subseteq With(selected'),
           post' \in PostSet, post'.state = "stored" => post'.id \in With(post'.peer),
           CoverInv'
    PROVE  ClientInv' /\ Kept
<1>1. /\ cache' \in [Peers -> Seq(DOMAIN stored)]
      /\ \A r \in Peers : Cached(r)' \subseteq With(r)' /\ Distinct(cache'[r])
      /\ Kept
  BY NoList
<1> QED BY <1>1, Unstored

\* What holds of the parts that an action leaves alone.
LEMMA Parts ==
    ASSUME ClientInv
    PROVE  /\ wire \in Seq(DOMAIN stored) /\ <<>> \in Seq(DOMAIN stored)
           /\ connected \in BOOLEAN /\ covered \in BOOLEAN /\ (covered => connected)
           /\ selected \in Peers \cup {NoPeer}
           /\ load \in {"none", "sent", "read", "shown", "error"}
           /\ load # "none" => selected \in Peers
           /\ page \subseteq With(selected)
           /\ post \in PostSet
           /\ post.state = "stored" => post.id \in With(post.peer)
<1>1. ClientTypeOK /\ PlaceInv /\ (covered => connected)
  BY DEF ClientInv, CoverInv
<1>2. <<>> \in Seq(DOMAIN stored)
  OBVIOUS
<1> QED BY <1>1, <1>2 DEF ClientTypeOK, PlaceInv

LEMMA SocketKeeps ==
    ASSUME ClientInv, Disconnect \/ Reconnect
    PROVE  ClientInv' /\ Kept
<1>1. /\ stored' = stored /\ unemitted' = unemitted /\ cache' = cache
      /\ selected' = selected /\ load' = load /\ page' = page /\ post' = post
  BY DEF Disconnect, Reconnect, server, loading
<1>2. /\ wire' = wire \/ wire' = <<>>
      /\ connected' = TRUE \/ connected' = FALSE
      /\ covered' = FALSE
  <2>1. CASE Disconnect
    BY <2>1 DEF Disconnect
  <2>2. CASE Reconnect
    BY <2>2, Parts DEF Reconnect, loading
  <2> QED BY <2>1, <2>2
<1>3. CoverInv'
  BY <1>2 DEF CoverInv
<1>4. /\ wire' \in Seq(DOMAIN stored) /\ connected' \in BOOLEAN /\ covered' \in BOOLEAN
      /\ selected' \in Peers \cup {NoPeer}
      /\ load' \in {"none", "sent", "read", "shown", "error"}
      /\ load' # "none" => selected' \in Peers
      /\ page' \subseteq With(selected')
      /\ post' \in PostSet /\ (post'.state = "stored" => post'.id \in With(post'.peer))
  BY <1>1, <1>2, Parts
<1> QED BY <1>1, <1>3, <1>4, QuietKeeps

LEMMA SelectKeeps ==
    ASSUME ClientInv, (\E p \in Peers : Select(p)) \/ Retry
    PROVE  ClientInv' /\ Kept
<1>1. /\ stored' = stored /\ unemitted' = unemitted /\ cache' = cache
      /\ wire' = wire /\ connected' = connected /\ post' = post
  BY DEF Select, Retry, server, socket
<1>2. load' = "sent" /\ page' = {} /\ covered' = FALSE /\ selected' \in Peers
  <2>1. CASE \E p \in Peers : Select(p)
    BY <2>1 DEF Select
  <2>2. CASE Retry
    BY <2>2, Parts DEF Retry
  <2> QED BY <2>1, <2>2
<1>3. CoverInv'
  BY <1>2 DEF CoverInv
<1>4. /\ wire' \in Seq(DOMAIN stored) /\ connected' \in BOOLEAN /\ covered' \in BOOLEAN
      /\ selected' \in Peers \cup {NoPeer}
      /\ load' \in {"none", "sent", "read", "shown", "error"}
      /\ load' # "none" => selected' \in Peers
      /\ page' \subseteq With(selected')
      /\ post' \in PostSet /\ (post'.state = "stored" => post'.id \in With(post'.peer))
  BY <1>1, <1>2, Parts
<1> QED BY <1>1, <1>3, <1>4, QuietKeeps

LEMMA LoadFailsKeeps ==
    ASSUME ClientInv, LoadFails
    PROVE  ClientInv' /\ Kept
<1>1. /\ stored' = stored /\ unemitted' = unemitted /\ cache' = cache
      /\ wire' = wire /\ connected' = connected /\ post' = post
      /\ selected' = selected /\ page' = page /\ covered' = covered
  BY DEF LoadFails, server, socket
<1>2. load' = "error" /\ selected \in Peers
  BY Parts DEF LoadFails
<1>3. CoverInv'
  BY <1>1, <1>2, Parts DEF CoverInv
<1>4. /\ wire' \in Seq(DOMAIN stored) /\ connected' \in BOOLEAN /\ covered' \in BOOLEAN
      /\ selected' \in Peers \cup {NoPeer}
      /\ load' \in {"none", "sent", "read", "shown", "error"}
      /\ load' # "none" => selected' \in Peers
      /\ page' \subseteq With(selected')
      /\ post' \in PostSet /\ (post'.state = "stored" => post'.id \in With(post'.peer))
  BY <1>1, <1>2, Parts
<1> QED BY <1>1, <1>3, <1>4, QuietKeeps

\* What is older than the page is not covered by it: the page has no room, and
\* nothing on it is older.
LEMMA ReadPageKeeps ==
    ASSUME ClientInv, ReadPage
    PROVE  ClientInv' /\ Kept
<1>1. /\ stored' = stored /\ unemitted' = unemitted /\ cache' = cache
      /\ wire' = wire /\ connected' = connected /\ post' = post /\ selected' = selected
  BY DEF ReadPage, server, socket
<1>2. /\ load' = "read" /\ covered' = connected /\ selected \in Peers
      /\ page' = Newest(With(selected), ById, PageSize)
  BY Parts DEF ReadPage
<1> DEFINE S == With(selected)
<1>3. S \in SUBSET (1..MaxMessages)
  <2>1. /\ Len(stored) \in Nat /\ Len(stored) <= MaxMessages
        /\ DOMAIN stored = 1..Len(stored)
    BY DEF ClientInv, ClientTypeOK
  <2> QED BY <2>1, ClientAssumption DEF With
<1> HIDE DEF S
<1>4. IsFiniteSet(S) /\ Orders(ById, S)
  BY <1>3, ByIdOrders
<1>5. page' = Newest(S, ById, PageSize) /\ PageSize \in Nat
  BY <1>2, ClientAssumption DEF S
<1>6. /\ page' \subseteq S
      /\ \A m \in page', n \in S : <<m, n>> \in ById => n \in page'
      /\ Cardinality(page') < PageSize => page' = S
  BY <1>4, <1>5, NewestReaches
<1>7. \A id \in S : OnPage(id)' => id \in page'
  <2> SUFFICES ASSUME NEW id \in S, OnPage(id)'
               PROVE  id \in page'
    OBVIOUS
  <2>1. CASE Cardinality(page') < PageSize
    BY <1>6, <2>1
  <2>2. CASE \E m \in page' : m <= id
    <3>1. PICK m \in page' : m <= id
      BY <2>2
    <3>2. m \in 1..MaxMessages /\ id \in 1..MaxMessages
      BY <1>3, <1>6
    <3>3. m = id \/ <<m, id>> \in ById
      BY <3>1, <3>2, ClientAssumption DEF ById
    <3> QED BY <1>6, <3>3
  <2> QED BY <2>1, <2>2 DEF OnPage
<1>8. With(selected)' = S
  BY <1>1 DEF With, S
<1>9. CoverInv'
  BY <1>2, <1>1, <1>7, <1>8 DEF CoverInv
<1>10. page' \subseteq With(selected')
  BY <1>1, <1>6 DEF S
<1>11. /\ wire' \in Seq(DOMAIN stored) /\ connected' \in BOOLEAN /\ covered' \in BOOLEAN
       /\ selected' \in Peers \cup {NoPeer}
       /\ load' \in {"none", "sent", "read", "shown", "error"}
       /\ load' # "none" => selected' \in Peers
       /\ post' \in PostSet /\ (post'.state = "stored" => post'.id \in With(post'.peer))
  BY <1>1, <1>2, Parts
<1> QED BY <1>1, <1>9, <1>10, <1>11, QuietKeeps

LEMMA SendKeeps ==
    ASSUME ClientInv, Send \/ PostFails
    PROVE  ClientInv' /\ Kept
<1>1. /\ stored' = stored /\ unemitted' = unemitted /\ cache' = cache
      /\ wire' = wire /\ connected' = connected /\ selected' = selected
      /\ load' = load /\ page' = page /\ covered' = covered
  BY DEF Send, PostFails, server, socket, loading
<1>2. post' \in PostSet /\ post'.state # "stored"
  <2>1. CASE Send
    <3>1. selected \in Peers /\ post' = [state |-> "sent", peer |-> selected]
      BY <2>1, Parts DEF Send
    <3> QED BY <3>1 DEF PostSet
  <2>2. CASE PostFails
    BY <2>2 DEF PostFails, PostSet, Idle
  <2> QED BY <2>1, <2>2
<1>3. CoverInv'
  <2>1. Cached(selected)' = Cached(selected)
    BY <1>1 DEF Cached
  <2> QED BY <1>1, <2>1, Parts, CoverKept
<1>4. /\ wire' \in Seq(DOMAIN stored) /\ connected' \in BOOLEAN /\ covered' \in BOOLEAN
      /\ selected' \in Peers \cup {NoPeer}
      /\ load' \in {"none", "sent", "read", "shown", "error"}
      /\ load' # "none" => selected' \in Peers
      /\ page' \subseteq With(selected')
  BY <1>1, Parts
<1> QED BY <1>1, <1>2, <1>3, <1>4, QuietKeeps

LEMMA MergePageKeeps ==
    ASSUME ClientInv, MergePage
    PROVE  ClientInv' /\ Kept
<1>1. /\ stored' = stored /\ unemitted' = unemitted
      /\ wire' = wire /\ connected' = connected /\ selected' = selected
      /\ page' = page /\ covered' = covered /\ post' = post
  BY DEF MergePage, server, socket
<1>2. /\ load = "read" /\ load' = "shown" /\ selected \in Peers
      /\ cache' = [cache EXCEPT ![selected] = mergeUniqueMessages(@, page)]
  BY Parts DEF MergePage
<1>3. PICK p \in Peers : p = selected
  BY <1>2
<1>4. page \in SUBSET With(p) /\ cache' = [cache EXCEPT ![p] = mergeUniqueMessages(@, page)]
  BY <1>2, <1>3, Parts
<1>5. /\ cache' \in [Peers -> Seq(DOMAIN stored)]
      /\ Cached(p)' = Cached(p) \cup page
      /\ \A r \in Peers : Cached(r)' \subseteq With(r)' /\ Distinct(cache'[r])
      /\ Kept
  BY <1>1, <1>4, OneMerged
<1>6. Cached(selected)' = Cached(selected) \cup page
  BY <1>1, <1>3, <1>5 DEF Cached
<1>7. CoverInv'
  BY <1>1, <1>2, <1>6, Parts, CoverKept
<1>8. /\ wire' \in Seq(DOMAIN stored) /\ connected' \in BOOLEAN /\ covered' \in BOOLEAN
      /\ selected' \in Peers \cup {NoPeer}
      /\ load' \in {"none", "sent", "read", "shown", "error"}
      /\ load' # "none" => selected' \in Peers
      /\ page' \subseteq With(selected')
      /\ post' \in PostSet /\ (post'.state = "stored" => post'.id \in With(post'.peer))
  BY <1>1, <1>2, Parts
<1> QED BY <1>1, <1>5, <1>7, <1>8, Unstored

LEMMA PostArrivesKeeps ==
    ASSUME ClientInv, PostArrives
    PROVE  ClientInv' /\ Kept
<1>1. /\ stored' = stored /\ unemitted' = unemitted
      /\ wire' = wire /\ connected' = connected /\ selected' = selected
      /\ load' = load /\ page' = page /\ covered' = covered
  BY DEF PostArrives, server, socket, loading
<1>2. /\ post.state = "stored" /\ post' = Idle
      /\ cache' = [cache EXCEPT ![post.peer] = appendMessage(@, post.id)]
  BY DEF PostArrives
<1>3. PICK p \in Peers, id \in DOMAIN stored : p = post.peer /\ id = post.id
  BY <1>2, Parts DEF PostSet, Idle
<1>4. id \in With(p) /\ cache' = [cache EXCEPT ![p] = appendMessage(@, id)]
  BY <1>2, <1>3, Parts
<1>5. /\ cache' \in [Peers -> Seq(DOMAIN stored)]
      /\ Cached(p)' = Cached(p) \cup {id}
      /\ \A r \in Peers : Cached(r)' \subseteq With(r)' /\ Distinct(cache'[r])
      /\ Kept
  BY <1>1, <1>4, OneAppended
<1>6. load # "none" => Cached(selected) \subseteq Cached(selected)'
  <2>1. \A r \in Peers : r = selected => Cached(r)' = Cached(selected)'
    BY <1>1 DEF Cached
  <2>2. \A r \in Peers : Cached(r) \subseteq Cached(r)'
    BY <1>5 DEF Kept
  <2> QED BY <2>1, <2>2, Parts
<1>7. CoverInv'
  BY <1>1, <1>6, Parts, CoverKept
<1>8. post' \in PostSet /\ post'.state # "stored"
  BY <1>2 DEF PostSet, Idle
<1>9. /\ wire' \in Seq(DOMAIN stored) /\ connected' \in BOOLEAN /\ covered' \in BOOLEAN
      /\ selected' \in Peers \cup {NoPeer}
      /\ load' \in {"none", "sent", "read", "shown", "error"}
      /\ load' # "none" => selected' \in Peers
      /\ page' \subseteq With(selected')
  BY <1>1, Parts
<1> QED BY <1>1, <1>5, <1>7, <1>8, <1>9, Unstored

LEMMA RowTypes ==
    ASSUME ClientInv, NEW m \in DOMAIN stored
    PROVE  stored[m].peer \in Peers
<1> DEFINE R == [peer : Peers, mine : BOOLEAN]
<1>1. stored \in Seq(R)
  BY DEF ClientInv, ClientTypeOK
<1> HIDE DEF R
<1>2. Len(stored) \in Nat /\ stored \in [1..Len(stored) -> R]
  BY <1>1
<1>3. stored[m] \in R
  BY <1>2
<1> QED BY <1>3 DEF R

\* An event of the conversation on screen goes to its list, and every other one
\* is not of that conversation.
LEMMA DeliverKeeps ==
    ASSUME ClientInv, Deliver
    PROVE  ClientInv' /\ Kept
<1>1. /\ stored' = stored /\ unemitted' = unemitted
      /\ connected' = connected /\ selected' = selected
      /\ load' = load /\ page' = page /\ covered' = covered /\ post' = post
  BY DEF Deliver, server, loading
<1> DEFINE id == Head(wire)
<1>2. /\ wire # <<>> /\ wire' = Tail(wire)
      /\ cache' = IF stored[id].peer = selected
                  THEN [cache EXCEPT ![selected] = appendMessage(@, id)] ELSE cache
  BY DEF Deliver
<1>3. /\ wire' \in Seq(DOMAIN stored) /\ id \in DOMAIN stored
      /\ ToSet(wire) = {id} \cup ToSet(wire')
  BY <1>2, Parts, TailDrops
<1>4. stored[id].peer \in Peers
  BY <1>3, RowTypes
<1> HIDE DEF id
<1>5. ASSUME stored[id].peer = selected
      PROVE  /\ cache' \in [Peers -> Seq(DOMAIN stored)]
             /\ \A r \in Peers : Cached(r)' \subseteq With(r)' /\ Distinct(cache'[r])
             /\ Kept
             /\ Cached(selected) \subseteq Cached(selected)'
             /\ id \in With(selected) => id \in Cached(selected)'
  <2>1. PICK p \in Peers : p = selected
    BY <1>4, <1>5
  <2>2. id \in With(p) /\ cache' = [cache EXCEPT ![p] = appendMessage(@, id)]
    BY <1>2, <1>3, <1>5, <2>1 DEF With
  <2>3. /\ cache' \in [Peers -> Seq(DOMAIN stored)]
        /\ Cached(p)' = Cached(p) \cup {id}
        /\ \A r \in Peers : Cached(r)' \subseteq With(r)' /\ Distinct(cache'[r])
        /\ Kept
    BY <1>1, <2>2, OneAppended
  <2>4. Cached(selected)' = Cached(selected) \cup {id}
    BY <1>1, <2>1, <2>3 DEF Cached
  <2> QED BY <2>3, <2>4
<1>6. ASSUME stored[id].peer # selected
      PROVE  /\ cache' \in [Peers -> Seq(DOMAIN stored)]
             /\ \A r \in Peers : Cached(r)' \subseteq With(r)' /\ Distinct(cache'[r])
             /\ Kept
             /\ Cached(selected) \subseteq Cached(selected)'
             /\ id \in With(selected) => id \in Cached(selected)'
  <2>1. cache' = cache
    BY <1>2, <1>6
  <2>2. /\ cache' \in [Peers -> Seq(DOMAIN stored)]
        /\ \A r \in Peers : Cached(r)' \subseteq With(r)' /\ Distinct(cache'[r])
        /\ Kept
    BY <1>1, <2>1, NoList
  <2>3. Cached(selected)' = Cached(selected)
    BY <1>1, <2>1 DEF Cached
  <2>4. id \notin With(selected)
    BY <1>6 DEF With
  <2> QED BY <2>2, <2>3, <2>4
<1>7. /\ cache' \in [Peers -> Seq(DOMAIN stored)]
      /\ \A r \in Peers : Cached(r)' \subseteq With(r)' /\ Distinct(cache'[r])
      /\ Kept
      /\ Cached(selected) \subseteq Cached(selected)'
      /\ id \in With(selected) => id \in Cached(selected)'
  BY <1>5, <1>6
<1>8. CoverInv'
  <2>1. \A m \in With(selected) :
          m \in Cached(selected) \cup unemitted \cup ToSet(wire)
            => m \in Cached(selected)' \cup unemitted' \cup ToSet(wire')
    BY <1>1, <1>3, <1>7
  <2> QED BY <1>1, <2>1, Parts, CoverKept
<1>9. /\ connected' \in BOOLEAN /\ covered' \in BOOLEAN
      /\ selected' \in Peers \cup {NoPeer}
      /\ load' \in {"none", "sent", "read", "shown", "error"}
      /\ load' # "none" => selected' \in Peers
      /\ page' \subseteq With(selected')
      /\ post' \in PostSet /\ (post'.state = "stored" => post'.id \in With(post'.peer))
  BY <1>1, Parts
<1> QED BY <1>1, <1>3, <1>7, <1>8, <1>9, Unstored

LEMMA ClientStarts ==
    ASSUME Init
    PROVE  ClientInv
<1>1. /\ stored = <<>> /\ unemitted = {} /\ wire = <<>> /\ connected = TRUE
      /\ selected = NoPeer /\ load = "none" /\ page = {} /\ covered = FALSE
      /\ cache = [p \in Peers |-> <<>>] /\ post = Idle
  BY DEF Init
<1>2. ClientTypeOK
  <2>1. stored \in Seq([peer : Peers, mine : BOOLEAN]) /\ Len(stored) <= MaxMessages
    BY <1>1, ClientAssumption
  <2>2. wire \in Seq(DOMAIN stored) /\ <<>> \in Seq(DOMAIN stored)
    BY <1>1
  <2>3. cache \in [Peers -> Seq(DOMAIN stored)]
    BY <1>1, <2>2
  <2> QED BY <1>1, <2>1, <2>2, <2>3 DEF ClientTypeOK, PostSet
<1>3. PlaceInv
  <2>1. ASSUME NEW p \in Peers
        PROVE  Cached(p) \subseteq With(p) /\ Distinct(cache[p])
    <3>1. cache[p] = <<>> /\ DOMAIN cache[p] = {}
      BY <1>1
    <3> QED BY <3>1 DEF Cached, ToSet, Distinct
  <2>2. page \subseteq With(selected) /\ post.state # "stored"
    BY <1>1 DEF Idle
  <2> QED BY <2>1, <2>2 DEF PlaceInv
<1> QED BY <1>1, <1>2, <1>3 DEF CoverInv, ClientInv

LEMMA ClientStays ==
    ASSUME ClientInv, UNCHANGED vars
    PROVE  ClientInv' /\ Kept
<1>1. /\ stored' = stored /\ unemitted' = unemitted /\ cache' = cache
      /\ wire' = wire /\ connected' = connected /\ selected' = selected
      /\ load' = load /\ page' = page /\ covered' = covered /\ post' = post
  BY DEF vars, server, socket, loading
<1>2. CoverInv'
  <2>1. Cached(selected)' = Cached(selected)
    BY <1>1 DEF Cached
  <2> QED BY <1>1, <2>1, Parts, CoverKept
<1>3. /\ wire' \in Seq(DOMAIN stored) /\ connected' \in BOOLEAN /\ covered' \in BOOLEAN
      /\ selected' \in Peers \cup {NoPeer}
      /\ load' \in {"none", "sent", "read", "shown", "error"}
      /\ load' # "none" => selected' \in Peers
      /\ page' \subseteq With(selected')
      /\ post' \in PostSet /\ (post'.state = "stored" => post'.id \in With(post'.peer))
  BY <1>1, Parts
<1> QED BY <1>1, <1>2, <1>3, QuietKeeps

LEMMA ClientSteps ==
    ASSUME ClientInv, [Next]_vars
    PROVE  ClientInv' /\ Kept
<1>1. CASE \E p \in Peers : PeerSends(p) \/ MineElsewhere(p)
  BY <1>1, StoresKeep
<1>2. CASE (\E p \in Peers : Select(p)) \/ Retry
  BY <1>2, SelectKeeps
<1>3. CASE \E id \in unemitted : Emit(id)
  BY <1>3, EmitKeeps
<1>4. CASE Disconnect \/ Reconnect
  BY <1>4, SocketKeeps
<1>5. CASE ReadPage
  BY <1>5, ReadPageKeeps
<1>6. CASE MergePage
  BY <1>6, MergePageKeeps
<1>7. CASE LoadFails
  BY <1>7, LoadFailsKeeps
<1>8. CASE Send \/ PostFails
  BY <1>8, SendKeeps
<1>9. CASE StorePost
  BY <1>9, StorePostKeeps
<1>10. CASE PostArrives
  BY <1>10, PostArrivesKeeps
<1>11. CASE Deliver
  BY <1>11, DeliverKeeps
<1>12. CASE UNCHANGED vars
  BY <1>12, ClientStays
<1> QED BY <1>1, <1>2, <1>3, <1>4, <1>5, <1>6, <1>7, <1>8, <1>9, <1>10, <1>11, <1>12
        DEF Next

LEMMA ClientInvariant == Spec => []ClientInv
<1>1. Init => ClientInv
  BY ClientStarts
<1>2. ClientInv /\ [Next]_vars => ClientInv'
  BY ClientSteps
<1> QED BY <1>1, <1>2, PTL DEF Spec

-----------------------------------------------------------------------------
(* What the tab shows. *)

\* Type correctness.
THEOREM ClientTypeCorrect == Spec => []ClientTypeOK
<1>1. ClientInv => ClientTypeOK
  BY DEF ClientInv
<1> QED BY <1>1, ClientInvariant, PTL

\* A list without repetitions is as long as the set it shows.
LEMMA DistinctLength ==
    ASSUME NEW S, NEW q \in Seq(S), Distinct(q)
    PROVE  Len(q) = Cardinality(ToSet(q))
<1>1. Len(q) \in Nat /\ DOMAIN q = 1..Len(q)
  OBVIOUS
<1>2. IsFiniteSet(1..Len(q)) /\ Cardinality(1..Len(q)) = Len(q)
  BY <1>1, FS_Interval
<1>3. q \in Bijection(1..Len(q), ToSet(q))
  BY <1>1 DEF Bijection, Injection, Surjection, IsInjective, ToSet, Distinct
<1>4. ExistsBijection(1..Len(q), ToSet(q))
  BY <1>3 DEF ExistsBijection
<1> QED BY <1>2, <1>4, FS_Bijection

\* Whatever the order in which pages, answers and events arrive, no message is
\* shown twice or in another conversation than its own.
THEOREM NothingTwice == Spec => []CacheOfConversation
<1>1. ClientInv => CacheOfConversation
  <2> SUFFICES ASSUME ClientInv, NEW p \in Peers
               PROVE  Cached(p) \subseteq With(p) /\ Len(cache[p]) = Cardinality(Cached(p))
    BY DEF CacheOfConversation
  <2>1. cache[p] \in Seq(DOMAIN stored) /\ Distinct(cache[p]) /\ Cached(p) \subseteq With(p)
    BY DEF ClientInv, ClientTypeOK, PlaceInv
  <2> QED BY <2>1, DistinctLength DEF Cached
<1> QED BY <1>1, ClientInvariant, PTL

\* A message received while the page is read, on its way or merged is shown or
\* still to come, for pages of any size.
THEOREM EventsCoverTheLoad == Spec => []NothingMissed
<1>1. ClientInv => NothingMissed
  BY DEF ClientInv, CoverInv, NothingMissed
<1> QED BY <1>1, ClientInvariant, PTL

\* No step of the tab, of the server or of the socket takes away a message that
\* the tab has shown.
THEOREM ListsOnlyGrow == Spec => NothingForgotten
<1>1. ClientInv /\ [Next]_vars => [\A p \in Peers : Cached(p) \subseteq Cached(p)']_vars
  BY ClientSteps DEF Kept
<1> QED BY <1>1, ClientInvariant, PTL DEF Spec, NothingForgotten

-----------------------------------------------------------------------------
(* The reader of the history. *)

\* A page begins with a row that is stored, and the cursor is that row's.
HistoryTypeOK ==
    /\ now \in Nat /\ createdAt \in [Ids -> Int]
    /\ messages \subseteq {m \in Ids : createdAt[m] # -1}
    /\ shown \in Seq(messages)
    /\ more \in BOOLEAN /\ pages \in Nat
    /\ pages = 0 => shown = <<>> /\ cursor = NoCursor /\ more
    /\ cut \subseteq messages /\ base \subseteq messages

CursorInv ==
    \/ cursor = NoCursor /\ (pages = 0 \/ ~ more)
    \/ shown # <<>> /\ cursor = <<Truncate(createdAt[shown[1]]), shown[1]>>

\* m was passed over by the cursor of a page that ended at c.
PassedAt(m, c) ==
    Earlier(m, c) /\ Truncate(createdAt[m]) = Truncate(createdAt[c])

\* Where the rows of the reader's start are.
ReachInv ==
    pages > 0 => \A m \in base :
        \/ m \in ToSet(shown)
        \/ more /\ Before(m, cursor)
        \/ \E c \in cut : PassedAt(m, c)

HistoryInv == HistoryTypeOK /\ CursorInv /\ PagesInOrder /\ ReachInv

\* A time cut down to its second is no later.
LEMMA TruncateEarlier ==
    ASSUME NEW t \in Int
    PROVE  /\ Truncate(t) \in Int /\ Truncate(t) <= t
           /\ \A s \in Int : Truncate(t) <= s /\ s <= t => Truncate(s) = Truncate(t)
<1>1. PerSecond \in Nat \ {0}
  BY MessageHistoryAssumption
<1>2. t \div PerSecond \in Int
  BY <1>1
<1>3. (t \div PerSecond) * PerSecond <= t
  BY <1>1
<1>4. ASSUME NEW s \in Int, (t \div PerSecond) * PerSecond <= s, s <= t
      PROVE  s \div PerSecond = t \div PerSecond
  BY <1>1, <1>4
<1> QED BY <1>1, <1>2, <1>3, <1>4 DEF Truncate

LEMMA RowsOrdered ==
    ASSUME createdAt \in [Ids -> Int], NEW S \in SUBSET Ids
    PROVE  /\ IsFiniteSet(S) /\ Orders(Chronological, S)
           /\ \A m, n \in S : <<m, n>> \in Chronological <=> Earlier(m, n)
<1>1. IsFiniteSet(S) /\ S \subseteq Int
  <2>1. IsFiniteSet(Ids) /\ Ids \subseteq Int
    BY MessageHistoryAssumption
  <2> QED BY <2>1, FS_Subset
<1>2. \A m, n \in S : <<m, n>> \in Chronological <=> Earlier(m, n)
  BY DEF Chronological
<1>3. \A m \in S : createdAt[m] \in Int /\ m \in Int
  BY <1>1
<1>4. \A m \in S : ~ Earlier(m, m)
  BY <1>3 DEF Earlier
<1>5. \A m, n \in S : m # n => Earlier(m, n) \/ Earlier(n, m)
  BY <1>3 DEF Earlier
<1>6. ASSUME NEW l \in S, NEW m \in S, NEW n \in S, Earlier(l, m), Earlier(m, n)
      PROVE  Earlier(l, n)
  <2>1. /\ createdAt[l] \in Int /\ createdAt[m] \in Int /\ createdAt[n] \in Int
        /\ l \in Int /\ m \in Int /\ n \in Int
    BY <1>3
  <2> QED BY <1>6, <2>1 DEF Earlier
<1> QED BY <1>1, <1>2, <1>4, <1>5, <1>6 DEF Orders

LEMMA EarlierOrders ==
    ASSUME createdAt \in [Ids -> Int]
    PROVE  /\ \A m \in Ids : ~ Earlier(m, m)
           /\ \A m, n \in Ids : m # n => Earlier(m, n) \/ Earlier(n, m)
           /\ \A l, m, n \in Ids : Earlier(l, m) /\ Earlier(m, n) => Earlier(l, n)
<1>1. /\ Orders(Chronological, Ids)
      /\ \A m, n \in Ids : <<m, n>> \in Chronological <=> Earlier(m, n)
  BY RowsOrdered
<1> QED BY <1>1 DEF Orders

\* What is before the cursor is earlier than all that is shown.
LEMMA BeforeShown ==
    ASSUME HistoryInv, more, NEW x \in messages, Before(x, cursor),
           NEW j \in DOMAIN shown
    PROVE  Earlier(x, shown[j])
<1>1. /\ createdAt \in [Ids -> Int] /\ messages \subseteq Ids
      /\ shown \in Seq(messages)
  BY DEF HistoryInv, HistoryTypeOK
<1> DEFINE s == shown[1]
<1>2. shown # <<>> /\ 1 \in DOMAIN shown /\ s \in messages /\ shown[j] \in messages
      /\ j \in Nat /\ 1 <= j
  BY <1>1
<1>3. cursor = <<Truncate(createdAt[s]), s>>
  BY <1>2 DEF HistoryInv, CursorInv, HistoryTypeOK
<1>4. j = 1 \/ Earlier(s, shown[j])
  BY <1>2 DEF HistoryInv, PagesInOrder
<1> HIDE DEF s
<1>5. x \in Ids /\ s \in Ids /\ createdAt[x] \in Int /\ createdAt[s] \in Int
      /\ x \in Int /\ s \in Int
  BY <1>1, <1>2, MessageHistoryAssumption
<1> DEFINE t == Truncate(createdAt[s])
<1>6. t \in Int /\ t <= createdAt[s]
  BY <1>5, TruncateEarlier
<1>7. createdAt[x] < t \/ (createdAt[x] = t /\ x < s)
  BY <1>3 DEF Before, NoCursor
<1> HIDE DEF t
<1>8. Earlier(x, s)
  BY <1>5, <1>6, <1>7 DEF Earlier
<1>9. CASE j = 1
  BY <1>8, <1>9 DEF s
<1>10. CASE Earlier(s, shown[j])
  BY <1>1, <1>2, <1>5, <1>8, <1>10, EarlierOrders
<1> QED BY <1>4, <1>9, <1>10

\* The rows of a page.
LEMMA PageRows ==
    ASSUME HistoryInv, NEW limit \in Limits
    PROVE  LET rows == {m \in messages : Before(m, cursor)}
               P == Page(limit)
           IN  /\ P \subseteq rows /\ rows \subseteq Ids
               /\ \A m \in P, n \in rows : Earlier(m, n) => n \in P
               /\ HasMore(limit) => P # {}
               /\ ~ HasMore(limit) => P = rows
               /\ InOrder(P, Chronological) \in Seq(P)
               /\ ToSet(InOrder(P, Chronological)) = P
               /\ \A i, j \in DOMAIN InOrder(P, Chronological) :
                    i < j => Earlier(InOrder(P, Chronological)[i], InOrder(P, Chronological)[j])
<1> DEFINE rows == {m \in messages : Before(m, cursor)}
           P == Page(limit)
           q == InOrder(P, Chronological)
<1>1. createdAt \in [Ids -> Int] /\ messages \subseteq Ids /\ rows \in SUBSET Ids
  BY DEF HistoryInv, HistoryTypeOK
<1>2. limit \in Nat /\ limit >= 1
  BY MessageHistoryAssumption
<1>3. P = Newest(rows, Chronological, limit)
  BY DEF Page
<1>4. HasMore(limit) <=> Cardinality(rows) > limit
  BY DEF HasMore
<1> HIDE DEF rows, P
<1>5. /\ IsFiniteSet(rows) /\ Orders(Chronological, rows)
      /\ \A m, n \in rows : <<m, n>> \in Chronological <=> Earlier(m, n)
  BY <1>1, RowsOrdered
<1>6. /\ P \subseteq rows /\ Cardinality(P) \in Nat
      /\ \A m \in P, n \in rows : <<m, n>> \in Chronological => n \in P
      /\ Cardinality(P) < limit => P = rows
      /\ Cardinality(rows) <= limit => P = rows
  BY <1>2, <1>3, <1>5, NewestReaches
<1>7. Cardinality(rows) \in Nat
  BY <1>5, FS_CardinalityType
<1>8. HasMore(limit) => P # {}
  BY <1>2, <1>4, <1>6, <1>7, FS_EmptySet
<1>9. ~ HasMore(limit) => P = rows
  BY <1>2, <1>4, <1>6, <1>7
<1>10. P \in SUBSET Ids
  BY <1>1, <1>6
<1>11. /\ IsFiniteSet(P) /\ Orders(Chronological, P)
       /\ \A m, n \in P : <<m, n>> \in Chronological <=> Earlier(m, n)
  BY <1>1, <1>10, RowsOrdered
<1>12. /\ q \in Seq(P) /\ ToSet(q) = P
       /\ \A i, j \in DOMAIN q : i < j => <<q[i], q[j]>> \in Chronological
  BY <1>11, InOrderSorts
<1> HIDE DEF q
<1>13. \A i \in DOMAIN q : q[i] \in P
  BY <1>12 DEF ToSet
<1>14. \A i, j \in DOMAIN q : i < j => Earlier(q[i], q[j])
  BY <1>11, <1>12, <1>13
<1>15. \A m \in P, n \in rows : Earlier(m, n) => n \in P
  BY <1>5, <1>6
<1> QED BY <1>1, <1>6, <1>8, <1>9, <1>12, <1>14, <1>15 DEF P, rows, q

\* A sequence before another.
LEMMA ConcatElements ==
    ASSUME NEW S, NEW q \in Seq(S), NEW r \in Seq(S)
    PROVE  /\ q \o r \in Seq(S)
           /\ ToSet(q \o r) = ToSet(q) \cup ToSet(r)
           /\ DOMAIN (q \o r) = 1..(Len(q) + Len(r))
           /\ \A i \in 1..Len(q) : (q \o r)[i] = q[i]
           /\ \A i \in (Len(q) + 1)..(Len(q) + Len(r)) : (q \o r)[i] = r[i - Len(q)]
<1> DEFINE b == q \o r
<1>1. /\ b \in Seq(S) /\ Len(q) \in Nat /\ Len(r) \in Nat
      /\ DOMAIN q = 1..Len(q) /\ DOMAIN r = 1..Len(r)
      /\ DOMAIN b = 1..(Len(q) + Len(r))
      /\ \A i \in 1..Len(q) : b[i] = q[i]
      /\ \A i \in (Len(q) + 1)..(Len(q) + Len(r)) : b[i] = r[i - Len(q)]
  OBVIOUS
<1> HIDE DEF b
<1>2. ASSUME NEW i \in DOMAIN r
      PROVE  i + Len(q) \in DOMAIN b /\ b[i + Len(q)] = r[i]
  BY <1>1
<1>3. ASSUME NEW i \in DOMAIN q
      PROVE  i \in DOMAIN b /\ b[i] = q[i]
  BY <1>1
<1>4. ASSUME NEW i \in DOMAIN b
      PROVE  \/ i \in DOMAIN q
             \/ i - Len(q) \in DOMAIN r /\ b[i] = r[i - Len(q)]
  BY <1>1
<1>5. ToSet(b) \subseteq ToSet(q) \cup ToSet(r)
  BY <1>3, <1>4 DEF ToSet
<1>6. ToSet(q) \cup ToSet(r) \subseteq ToSet(b)
  BY <1>2, <1>3 DEF ToSet
<1> QED BY <1>1, <1>5, <1>6 DEF b

\* The first of a sequence in order is the oldest of its elements.
LEMMA FirstIsOldest ==
    ASSUME createdAt \in [Ids -> Int], NEW S \in SUBSET Ids, S # {},
           NEW q \in Seq(S), ToSet(q) = S,
           \A i, j \in DOMAIN q : i < j => Earlier(q[i], q[j])
    PROVE  1 \in DOMAIN q /\ Oldest(S) = q[1] /\ q[1] \in S
<1>1. Len(q) \in Nat /\ DOMAIN q = 1..Len(q)
  OBVIOUS
<1>2. \A m \in S : \E k \in DOMAIN q : q[k] = m
  BY DEF ToSet
<1>3. 1 \in DOMAIN q
  BY <1>1, <1>2
<1>4. q[1] \in S
  BY <1>3
<1>5. \A n \in S \ {q[1]} : Earlier(q[1], n)
  <2> SUFFICES ASSUME NEW n \in S, n # q[1]
               PROVE  Earlier(q[1], n)
    OBVIOUS
  <2>1. PICK k \in DOMAIN q : q[k] = n
    BY <1>2
  <2>2. 1 < k
    BY <1>1, <2>1
  <2> QED BY <1>3, <2>1, <2>2
<1>6. ASSUME NEW m \in S, \A n \in S \ {m} : Earlier(m, n)
      PROVE  m = q[1]
  <2> SUFFICES ASSUME m # q[1] PROVE FALSE
    OBVIOUS
  <2>1. Earlier(m, q[1]) /\ Earlier(q[1], m)
    BY <1>4, <1>5, <1>6
  <2> QED BY <1>4, <2>1, EarlierOrders
<1>7. Oldest(S) = q[1]
  BY <1>4, <1>5, <1>6 DEF Oldest
<1> QED BY <1>3, <1>4, <1>7

LEMMA GetMessagesKeeps ==
    ASSUME HistoryInv, NEW limit \in Limits, GetMessages(limit)
    PROVE  HistoryInv'
<1> DEFINE P == Page(limit)
           rows == {m \in messages : Before(m, cursor)}
           q == InOrder(P, Chronological)
           c == Oldest(P)
<1>1. /\ now \in Nat /\ createdAt \in [Ids -> Int]
      /\ messages \subseteq {m \in Ids : createdAt[m] # -1}
      /\ shown \in Seq(messages) /\ pages \in Nat
      /\ cut \subseteq messages /\ base \subseteq messages
      /\ pages = 0 => shown = <<>> /\ cursor = NoCursor
  BY DEF HistoryInv, HistoryTypeOK
<1>2. /\ more /\ more' = HasMore(limit)
      /\ shown' = q \o shown
      /\ cursor' = IF HasMore(limit) THEN NextCursor(P) ELSE NoCursor
      /\ cut' = IF HasMore(limit) THEN cut \cup {c} ELSE cut
      /\ pages' = pages + 1
      /\ base' = IF pages = 0 THEN messages ELSE base
      /\ now' = now /\ createdAt' = createdAt /\ messages' = messages
  BY DEF GetMessages
<1>3. /\ P \subseteq rows /\ P \in SUBSET Ids
      /\ \A m \in P, n \in rows : Earlier(m, n) => n \in P
      /\ HasMore(limit) => P # {}
      /\ ~ HasMore(limit) => P = rows
      /\ q \in Seq(P) /\ ToSet(q) = P
      /\ \A i, j \in DOMAIN q : i < j => Earlier(q[i], q[j])
  BY PageRows
<1>4. HasMore(limit) \in BOOLEAN /\ NextCursor(P) = <<Truncate(createdAt[c]), c>>
  BY DEF HasMore, NextCursor
<1>5. \A m : m \in rows <=> m \in messages /\ Before(m, cursor)
  OBVIOUS
<1> HIDE DEF P, rows, q, c
<1>6. HasMore(limit) => 1 \in DOMAIN q /\ c = q[1] /\ c \in P
  BY <1>1, <1>3, FirstIsOldest DEF c
<1>7. P \subseteq messages
  BY <1>3, <1>5
<1>8. q \in Seq(messages) /\ ToSet(shown') = P \cup ToSet(shown)
  <2>1. q \in Seq(messages)
    BY <1>3, <1>7, SeqGrows
  <2>2. ToSet(q \o shown) = ToSet(q) \cup ToSet(shown)
    BY <1>1, <2>1, ConcatElements
  <2> QED BY <1>2, <1>3, <2>1, <2>2
<1>9. /\ shown' \in Seq(messages)
      /\ DOMAIN shown' = 1..(Len(q) + Len(shown))
      /\ \A i \in 1..Len(q) : shown'[i] = q[i]
      /\ \A i \in (Len(q) + 1)..(Len(q) + Len(shown)) : shown'[i] = shown[i - Len(q)]
      /\ Len(q) \in Nat /\ Len(shown) \in Nat
      /\ DOMAIN q = 1..Len(q) /\ DOMAIN shown = 1..Len(shown)
  BY <1>1, <1>2, <1>8, ConcatElements
<1>10. HistoryTypeOK'
  <2>1. more' \in BOOLEAN /\ pages' \in Nat /\ pages' # 0
    BY <1>1, <1>2, <1>4
  <2>2. cut' \subseteq messages /\ base' \subseteq messages
    BY <1>1, <1>2, <1>6, <1>7
  <2> QED BY <1>1, <1>2, <1>9, <2>1, <2>2 DEF HistoryTypeOK
<1>11. HasMore(limit) => shown' # <<>> /\ shown'[1] = c /\ 1 \in 1..Len(q)
  <2>1. HasMore(limit) => 1 \in 1..Len(q) /\ c = q[1]
    BY <1>6, <1>9
  <2>2. HasMore(limit) => 1 \in DOMAIN shown' /\ shown'[1] = c
    BY <1>9, <2>1
  <2> QED BY <2>1, <2>2
<1>12. CursorInv'
  <2>1. CASE HasMore(limit)
    <3>1. cursor' = <<Truncate(createdAt[c]), c>>
      BY <1>2, <1>4, <2>1
    <3> QED BY <1>2, <1>11, <2>1, <3>1 DEF CursorInv, Truncate
  <2>2. CASE ~ HasMore(limit)
    BY <1>2, <2>2 DEF CursorInv, NoCursor
  <2> QED BY <2>1, <2>2
<1>13. \A m \in P : m \in messages /\ Before(m, cursor)
  BY <1>3, <1>5
<1>14. \A i \in DOMAIN q : q[i] \in P
  BY <1>3 DEF ToSet
<1>15. PagesInOrder'
  <2> SUFFICES ASSUME NEW i \in DOMAIN shown', NEW j \in DOMAIN shown', i < j
               PROVE  Earlier(shown'[i], shown'[j])
    BY <1>2 DEF PagesInOrder, Earlier
  <2>1. CASE j \in 1..Len(q)
    <3>1. i \in DOMAIN q /\ j \in DOMAIN q /\ shown'[i] = q[i] /\ shown'[j] = q[j]
      BY <1>9, <2>1
    <3> QED BY <1>3, <3>1
  <2>2. CASE i \in 1..Len(q) /\ j \notin 1..Len(q)
    <3>1. /\ i \in DOMAIN q /\ shown'[i] = q[i]
          /\ j - Len(q) \in DOMAIN shown /\ shown'[j] = shown[j - Len(q)]
      BY <1>9, <2>2
    <3>2. q[i] \in messages /\ Before(q[i], cursor)
      BY <1>13, <1>14, <3>1
    <3> QED BY <1>2, <3>1, <3>2, BeforeShown
  <2>3. CASE i \notin 1..Len(q) /\ j \notin 1..Len(q)
    <3>1. /\ i - Len(q) \in DOMAIN shown /\ shown'[i] = shown[i - Len(q)]
          /\ j - Len(q) \in DOMAIN shown /\ shown'[j] = shown[j - Len(q)]
          /\ i - Len(q) < j - Len(q)
      BY <1>9, <2>3
    <3> QED BY <3>1 DEF HistoryInv, PagesInOrder
  <2> QED BY <1>9, <2>1, <2>2, <2>3
<1>16. ReachInv'
  <2> SUFFICES ASSUME NEW m \in base'
               PROVE  \/ m \in ToSet(shown')
                      \/ HasMore(limit) /\ Before(m, cursor)'
                      \/ \E d \in cut' : PassedAt(m, d)
    BY <1>2 DEF ReachInv, PassedAt, Earlier, Truncate
  <2>1. m \in messages
    BY <1>1, <1>2
  <2>2. \/ m \in ToSet(shown)
        \/ Before(m, cursor)
        \/ \E d \in cut : PassedAt(m, d)
    <3>1. CASE pages = 0
      BY <1>1, <3>1 DEF Before
    <3>2. CASE pages # 0
      BY <1>1, <1>2, <3>2 DEF HistoryInv, ReachInv
    <3> QED BY <3>1, <3>2
  <2>3. CASE m \in ToSet(shown) \/ m \in P
    BY <1>8, <2>3
  <2>4. CASE \E d \in cut : PassedAt(m, d)
    BY <1>2, <2>4
  <2>5. CASE Before(m, cursor) /\ m \notin P
    <3>1. m \in rows
      BY <1>5, <2>1, <2>5
    <3>2. HasMore(limit) /\ c \in P
      BY <1>3, <1>6, <2>5, <3>1
    <3>3. Earlier(m, c)
      BY <1>1, <1>3, <2>1, <2>5, <3>1, <3>2, EarlierOrders
    <3>4. /\ createdAt[m] \in Int /\ createdAt[c] \in Int /\ c \in Int /\ m \in Int
          /\ createdAt[m] <= createdAt[c]
      <4>1. m \in Ids /\ c \in Ids
        BY <1>1, <1>3, <2>1, <3>2
      <4>2. createdAt[m] \in Int /\ createdAt[c] \in Int /\ c \in Int /\ m \in Int
        BY <1>1, <4>1, MessageHistoryAssumption
      <4> QED BY <3>3, <4>2 DEF Earlier
    <3> DEFINE t == Truncate(createdAt[c])
    <3>5. /\ t \in Int
          /\ t <= createdAt[m] => PassedAt(m, c)
      BY <3>3, <3>4, TruncateEarlier DEF PassedAt
    <3>6. cursor' = <<t, c>> /\ c \in cut'
      BY <1>2, <1>4, <3>2
    <3> HIDE DEF t
    <3>7. createdAt[m] < t => Before(m, cursor)'
      BY <1>2, <3>6 DEF Before
    <3> QED BY <3>2, <3>4, <3>5, <3>6, <3>7
  <2> QED BY <2>2, <2>3, <2>4, <2>5
<1> QED BY <1>10, <1>12, <1>15, <1>16 DEF HistoryInv

\* Rows that are added, and clocks that move, change nothing for the reader.
LEMMA RowsStay ==
    ASSUME HistoryInv, UNCHANGED reader, now' \in Nat, createdAt' \in [Ids -> Int],
           messages \subseteq messages', messages' \subseteq {m \in Ids : createdAt'[m] # -1},
           \A m \in messages : createdAt'[m] = createdAt[m]
    PROVE  HistoryInv'
<1>1. /\ shown' = shown /\ cursor' = cursor /\ more' = more /\ pages' = pages
      /\ cut' = cut /\ base' = base
  BY DEF reader
<1>2. /\ shown \in Seq(messages) /\ more \in BOOLEAN /\ pages \in Nat
      /\ pages = 0 => shown = <<>> /\ cursor = NoCursor /\ more
      /\ cut \subseteq messages /\ base \subseteq messages
  BY DEF HistoryInv, HistoryTypeOK
<1>3. HistoryTypeOK'
  <2>1. shown \in Seq(messages')
    BY <1>2, SeqGrows
  <2> QED BY <1>1, <1>2, <2>1 DEF HistoryTypeOK
<1>4. \A i \in DOMAIN shown : shown[i] \in messages
  BY <1>2
<1>5. \A m, n \in messages : Earlier(m, n)' <=> Earlier(m, n)
  BY DEF Earlier
<1>6. \A m \in messages : Before(m, cursor)' <=> Before(m, cursor)
  BY <1>1 DEF Before
<1>7. CursorInv'
  <2>1. shown # <<>> => 1 \in DOMAIN shown
    BY <1>2
  <2> QED BY <1>1, <1>4, <2>1 DEF HistoryInv, CursorInv, Truncate
<1>8. PagesInOrder'
  <2>1. \A i, j \in DOMAIN shown : i < j => Earlier(shown[i], shown[j])'
    BY <1>1, <1>4, <1>5 DEF HistoryInv, PagesInOrder
  <2> QED BY <1>1, <2>1 DEF PagesInOrder
<1>9. ReachInv'
  <2>1. \A m \in base, c \in cut : PassedAt(m, c) => PassedAt(m, c)'
    BY <1>2, <1>5 DEF PassedAt, Truncate
  <2> QED BY <1>1, <1>2, <1>6, <2>1 DEF HistoryInv, ReachInv
<1> QED BY <1>3, <1>7, <1>8, <1>9 DEF HistoryInv

LEMMA HistoryStarts ==
    ASSUME HistoryInit
    PROVE  HistoryInv
<1>1. /\ now = 0 /\ createdAt = [m \in Ids |-> -1] /\ messages = {}
      /\ shown = <<>> /\ cursor = NoCursor /\ more = TRUE /\ pages = 0
      /\ cut = {} /\ base = {}
  BY DEF HistoryInit
<1>2. HistoryTypeOK
  BY <1>1 DEF HistoryTypeOK
<1>3. PagesInOrder
  BY <1>1 DEF PagesInOrder
<1> QED BY <1>1, <1>2, <1>3 DEF HistoryInv, CursorInv, ReachInv

LEMMA HistorySteps ==
    ASSUME HistoryInv, [HistoryNext]_historyVars
    PROVE  HistoryInv'
<1>1. /\ now \in Nat /\ createdAt \in [Ids -> Int]
      /\ messages \subseteq {m \in Ids : createdAt[m] # -1}
  BY DEF HistoryInv, HistoryTypeOK
<1>2. CASE Tick
  <2>1. now' \in Nat /\ createdAt' = createdAt /\ messages' = messages /\ UNCHANGED reader
    BY <1>1, <1>2 DEF Tick
  <2> QED BY <1>1, <2>1, RowsStay
<1>3. CASE \E m \in Ids : BeginMessage(m)
  <2>1. PICK m \in Ids : BeginMessage(m)
    BY <1>3
  <2>2. /\ createdAt[m] = -1 /\ createdAt' = [createdAt EXCEPT ![m] = now]
        /\ now' = now /\ messages' = messages /\ UNCHANGED reader
    BY <2>1 DEF BeginMessage
  <2>3. createdAt' \in [Ids -> Int] /\ \A n \in Ids : n # m => createdAt'[n] = createdAt[n]
    BY <1>1, <2>2
  <2>4. m \notin messages
    BY <1>1, <2>2
  <2>5. /\ \A n \in messages : createdAt'[n] = createdAt[n]
        /\ messages' \subseteq {n \in Ids : createdAt'[n] # -1}
    BY <1>1, <2>2, <2>3, <2>4
  <2> QED BY <1>1, <2>2, <2>3, <2>5, RowsStay
<1>4. CASE \E m \in Ids : CommitMessage(m)
  <2>1. PICK m \in Ids : CommitMessage(m)
    BY <1>4
  <2>2. /\ createdAt[m] # -1 /\ messages' = messages \cup {m}
        /\ now' = now /\ createdAt' = createdAt /\ UNCHANGED reader
    BY <2>1 DEF CommitMessage
  <2>3. messages' \subseteq {n \in Ids : createdAt'[n] # -1}
    BY <1>1, <2>2
  <2> QED BY <1>1, <2>2, <2>3, RowsStay
<1>5. CASE \E limit \in Limits : GetMessages(limit)
  BY <1>5, GetMessagesKeeps
<1>6. CASE UNCHANGED historyVars
  <2>1. now' = now /\ createdAt' = createdAt /\ messages' = messages /\ UNCHANGED reader
    BY <1>6 DEF historyVars
  <2> QED BY <1>1, <2>1, RowsStay
<1> QED BY <1>2, <1>3, <1>4, <1>5, <1>6 DEF HistoryNext

LEMMA HistoryInvariant == HistorySpec => []HistoryInv
<1>1. HistoryInit => HistoryInv
  BY HistoryStarts
<1>2. HistoryInv /\ [HistoryNext]_historyVars => HistoryInv'
  BY HistorySteps
<1> QED BY <1>1, <1>2, PTL DEF HistorySpec

\* Type correctness.
THEOREM HistoryTypeCorrect == HistorySpec => []HistoryTypeOK
<1>1. HistoryInv => HistoryTypeOK
  BY DEF HistoryInv
<1> QED BY <1>1, HistoryInvariant, PTL

\* Pages of any sizes, read while rows are stored with times of the past and
\* become visible in any order, neither overlap nor run out of order.
THEOREM PagesFitTogether == HistorySpec => []PagesInOrder
<1>1. HistoryInv => PagesInOrder
  BY DEF HistoryInv
<1> QED BY <1>1, HistoryInvariant, PTL

\* What paging to the end has not shown of the rows that were there at its start
\* is of a second in which a page ended: the rounding of the cursor loses
\* nothing else, for any resolution and any page sizes.
THEOREM OnlyTheSecondIsLost == HistorySpec => []LostOnlyWithinSecond
<1>1. HistoryInv => LostOnlyWithinSecond
  <2> SUFFICES ASSUME HistoryInv, Done, NEW m \in base, m \notin Range(shown)
               PROVE  \E c \in cut : PassedAt(m, c)
    BY DEF LostOnlyWithinSecond, PassedAt
  <2>1. m \notin ToSet(shown)
    BY DEF Range, ToSet
  <2>2. pages > 0 /\ ~ more
    BY DEF Done
  <2> QED BY <2>1, <2>2 DEF HistoryInv, ReachInv
<1> QED BY <1>1, HistoryInvariant, PTL
=============================================================================
