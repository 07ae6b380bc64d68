--------------------------- MODULE UserChat_proof ---------------------------
(***************************************************************************)
(* Proofs about UserChat, for any names, texts and bounds.                   *)
(*                                                                         *)
(* What the screen may show is fixed by the session's log and by what was    *)
(* typed (ScreenOf): a message in it is the log's or one of the customer's   *)
(* own sends, and the list is in order.  That nothing is shown twice needs   *)
(* the account of the customer's messages (TypedCovers): those saved and     *)
(* those that may still be saved are together no more than were typed.       *)
(*                                                                         *)
(* The order of the file: lists in the order of their elements, the merges   *)
(* of chatMessageSync, the page's steps with the server as it is, the        *)
(* server's steps with the page as it is, the invariant, the theorems.       *)
(***************************************************************************)
EXTENDS UserChat, MessageLists_proof

-----------------------------------------------------------------------------
(* Lists in the order of their elements.                                     *)

\* Different messages are one before the other.
Apart(S) ==
  /\ S \subseteq ScreenMessage
  /\ IsFiniteSet(S)
  /\ \A m, n \in S : m # n => Before(m, n) \/ Before(n, m)

\* A list in the order of its messages: in particular, none of them is there twice.
Ascending(q) == \A i, j \in 1..Len(q) : i < j => Before(q[i], q[j])

\* What a list sorted by Before is.
LEMMA SortedFacts ==
  ASSUME NEW S, Apart(S)
  PROVE  /\ Sorted(S) \in Seq(S) /\ Sorted(S) \in Seq(ScreenMessage)
         /\ Len(Sorted(S)) = Cardinality(S)
         /\ Ascending(Sorted(S))
         /\ ToSet(Sorted(S)) = S
<1> DEFINE R == {p \in S \X S : Before(p[1], p[2])}
           rank(m) == Rank(S, R, m)
           C == Cardinality(S)
           q == Sorted(S)
<1>0. C \in Nat /\ IsFiniteSet(S)
  BY FS_CardinalityType DEF Apart
<1>1. /\ \A x \in S : ~Before(x, x)
      /\ \A x, y, z \in S : Before(x, y) /\ Before(y, z) => Before(x, z)
      /\ \A x, y \in S : x # y => Before(x, y) \/ Before(y, x)
  <2>1. \A m \in S : m.seq \in Nat /\ m.send \in Nat
    BY ChatBoundsAssumption DEF Apart, ScreenMessage
  <2> QED
    BY <2>1 DEF Apart, Before, IsLocal
<1>2. \A x, y \in S : <<x, y>> \in R <=> Before(x, y)
  OBVIOUS
<1>3. \A m \in S : rank(m) = Cardinality({n \in S : Before(n, m)})
  <2> TAKE m \in S
  <2>1. {n \in S : <<n, m>> \in R} = {n \in S : Before(n, m)}
    BY <1>2
  <2> QED
    BY <2>1 DEF Rank
<1> HIDE DEF R
<1>4. /\ \A m \in S : rank(m) \in 0..(C - 1)
      /\ \A m, n \in S : Before(m, n) => rank(m) < rank(n)
      /\ \A m, n \in S : rank(m) = rank(n) => m = n
      /\ \A k \in 0..(C - 1) : \E m \in S : rank(m) = k
  <2>1. Orders(R, S)
    BY <1>1, <1>2 DEF Orders
  <2> QED
    <3> HIDE DEF rank
    <3>1. /\ \A m \in S : rank(m) \in 0..(C - 1)
          /\ \A m, n \in S : <<m, n>> \in R => rank(m) < rank(n)
          /\ \A m, n \in S : rank(m) = rank(n) => m = n
          /\ \A k \in 0..(C - 1) : \E m \in S : rank(m) = k
      BY <1>0, <2>1, RanksFill DEF rank
    <3> QED
      BY <1>2, <3>1
<1> HIDE DEF rank
<1>5. q = [k \in 1..C |-> CHOOSE m \in S : Cardinality({n \in S : Before(n, m)}) = k - 1]
  BY DEF Sorted
<1>6. \A k \in 1..C : q[k] \in S /\ rank(q[k]) = k - 1
  <2> TAKE k \in 1..C
  <2>1. k - 1 \in 0..(C - 1)
    BY <1>0
  <2>2. PICK m \in S : rank(m) = k - 1
    BY <1>4, <2>1
  <2>3. Cardinality({n \in S : Before(n, m)}) = k - 1
    BY <1>3, <2>2
  <2>4. q[k] = CHOOSE x \in S : Cardinality({n \in S : Before(n, x)}) = k - 1
    BY <1>5
  <2>5. q[k] \in S /\ Cardinality({n \in S : Before(n, q[k])}) = k - 1
    BY <2>3, <2>4
  <2> QED
    BY <1>3, <2>5
<1>7. q \in Seq(S) /\ Len(q) = C
  <2>1. q \in [1..C -> S]
    BY <1>5, <1>6
  <2> HIDE DEF q, C
  <2> QED
    BY <1>0, <2>1
<1>8. Ascending(q)
  <2>1. ASSUME NEW i \in 1..C, NEW j \in 1..C, i < j PROVE Before(q[i], q[j])
    <3>1. rank(q[i]) < rank(q[j])
      BY <1>6, <2>1
    <3>2. q[i] \in S /\ q[j] \in S /\ rank(q[i]) \in Nat /\ rank(q[j]) \in Nat
      BY <1>0, <1>4, <1>6
    <3>3. q[i] # q[j] /\ ~Before(q[j], q[i])
      BY <1>4, <3>1, <3>2
    <3> QED
      BY <1>1, <3>2, <3>3
  <2> QED
    BY <1>7, <2>1 DEF Ascending
<1>9. ASSUME NEW m \in S PROVE \E k \in 1..C : q[k] = m
  <2>1. rank(m) + 1 \in 1..C /\ rank(m) \in Nat
    BY <1>0, <1>4
  <2>2. rank(q[rank(m) + 1]) = rank(m) /\ q[rank(m) + 1] \in S
    BY <1>6, <2>1
  <2> QED
    BY <1>4, <2>1, <2>2
<1>10. ToSet(q) = S
  <2>1. DOMAIN q = 1..C
    BY <1>5
  <2> QED
    BY <1>6, <1>9, <2>1 DEF ToSet
<1>11. q \in Seq(ScreenMessage)
  BY <1>7 DEF Apart
<1> QED
  BY <1>7, <1>8, <1>10, <1>11

\* Filtering keeps the elements that are in S, and the order.
LEMMA FilterFacts ==
  ASSUME NEW M, NEW q \in Seq(M), NEW S
  PROVE  /\ Filter(q, S) \in Seq(M)
         /\ ToSet(Filter(q, S)) = ToSet(q) \cap S
         /\ Ascending(q) => Ascending(Filter(q, S))
<1> DEFINE f == Filter(q, S)
<1>1. f \in Seq(M) /\ ToSet(f) = ToSet(q) \cap S
  BY FilterPlaces
<1>2. PICK at \in [1..Len(f) -> 1..Len(q)] :
        /\ \A k \in 1..Len(f) : f[k] = q[at[k]]
        /\ \A i, j \in 1..Len(f) : i < j => at[i] < at[j]
  BY FilterPlaces
<1>3. Ascending(q) => Ascending(f)
  <2> HIDE DEF f
  <2> QED
    BY <1>2 DEF Ascending
<1> QED
  BY <1>1, <1>3

\* What each merge of a message preserves, merging them one by one preserves.
LEMMA MergedOneByOne ==
  ASSUME NEW q, NEW messages, Len(messages) \in Nat, NEW T, q \in T,
         \A x \in T, i \in 1..Len(messages) : MergeRealtimeMessage(x, messages[i]) \in T
  PROVE  MergeRealtimeMessages(q, messages) \in T
<1> DEFINE N == Len(messages)
           Op(x, i) == MergeRealtimeMessage(x, messages[i])
           merged[i \in 0..N] == IF i = 0 THEN q ELSE Op(merged[i - 1], i)
           E == {n \in 0..N : \E g : g = [i \in 0..n |-> IF i = 0 THEN q ELSE Op(g[i - 1], i)]}
<1>0. N \in Nat /\ \A x \in T, i \in 1..N : Op(x, i) \in T
  OBVIOUS
<1>1. MergeRealtimeMessages(q, messages) = merged[N]
  BY DEF MergeRealtimeMessages
<1> HIDE DEF N, Op
<1>2. merged = [i \in 0..N |-> IF i = 0 THEN q ELSE Op(merged[i - 1], i)]
  <2>1. 0 \in E
    <3> DEFINE g == [i \in 0..0 |-> q]
    <3>1. g = [i \in 0..0 |-> IF i = 0 THEN q ELSE Op(g[i - 1], i)]
      OBVIOUS
    <3> HIDE DEF g
    <3>2. \E x : x = [i \in 0..0 |-> IF i = 0 THEN q ELSE Op(x[i - 1], i)]
      BY <3>1
    <3>3. 0 \in 0..N
      BY <1>0
    <3> QED
      BY <3>2, <3>3
  <2>2. \A n \in 0..(N - 1) : n \in E => n + 1 \in E
    <3> SUFFICES ASSUME NEW n \in 0..(N - 1), n \in E PROVE n + 1 \in E
      OBVIOUS
    <3>1. PICK g : g = [i \in 0..n |-> IF i = 0 THEN q ELSE Op(g[i - 1], i)]
      OBVIOUS
    <3> DEFINE h == [i \in 0..(n + 1) |-> IF i <= n THEN g[i] ELSE Op(g[n], n + 1)]
    <3>2. \A i \in 0..(n + 1) : h[i] = IF i = 0 THEN q ELSE Op(h[i - 1], i)
      <4> TAKE i \in 0..(n + 1)
      <4>1. CASE i = 0
        BY <1>0, <3>1, <4>1
      <4>2. CASE i \in 1..n
        <5>1. i - 1 \in 0..n /\ i \in 0..n
          BY <1>0, <4>2
        <5>2. h[i] = g[i] /\ h[i - 1] = g[i - 1]
          BY <1>0, <4>2, <5>1
        <5>3. g[i] = Op(g[i - 1], i)
          BY <1>0, <3>1, <4>2, <5>1
        <5> HIDE DEF h
        <5> QED
          BY <1>0, <4>2, <5>2, <5>3
      <4>3. CASE i = n + 1
        BY <1>0, <4>3
      <4> QED
        BY <1>0, <4>1, <4>2, <4>3
    <3>3. h = [i \in 0..(n + 1) |-> h[i]]
      OBVIOUS
    <3> HIDE DEF h
    <3>4. h = [i \in 0..(n + 1) |-> IF i = 0 THEN q ELSE Op(h[i - 1], i)]
      BY <3>2, <3>3
    <3>5. n + 1 \in 0..N
      BY <1>0
    <3> QED
      BY <3>4, <3>5
  <2> HIDE DEF E
  <2>3. \A n \in 0..N : n \in E
    BY <1>0, <2>1, <2>2, Upwards
  <2> USE DEF E
  <2>4. \E g : g = [i \in 0..N |-> IF i = 0 THEN q ELSE Op(g[i - 1], i)]
    <3>1. N \in 0..N
      BY <1>0
    <3> QED
      BY <2>3, <3>1
  <2> QED
    BY <2>4
<1> HIDE DEF merged
<1> DEFINE D == {n \in 0..N : merged[n] \in T}
<1>3. 0 \in D
  BY <1>0, <1>2
<1>4. \A n \in 0..(N - 1) : n \in D => n + 1 \in D
  <2> SUFFICES ASSUME NEW n \in 0..(N - 1), n \in D PROVE n + 1 \in D
    OBVIOUS
  <2>1. merged[n + 1] = Op(merged[n], n + 1)
    <3>1. n + 1 \in 0..N /\ n + 1 # 0 /\ (n + 1) - 1 = n
      BY <1>0
    <3> QED
      BY <1>2, <3>1
  <2> QED
    BY <1>0, <2>1
<1>5. N \in D
  <2>1. N \in 0..N
    BY <1>0
  <2> HIDE DEF D
  <2> QED
    BY <1>0, <1>3, <1>4, <2>1, Upwards
<1> QED
  BY <1>1, <1>5

-----------------------------------------------------------------------------
(* The state.                                                                *)

\* What chat_message has of a message.
LogEntry == [from : Senders, text : Texts]

\* What the server has: sessions are created one after the other, and only
\* those have messages and answers under way.
ServerTyped ==
  /\ mode \in {"demo", "authenticated"}
  /\ log \in [Sessions -> Seq(LogEntry)]
  /\ \A s \in Sessions : Len(log[s]) <= MaxLog
  /\ owner \in [Sessions -> Names \cup {NoName}]
  /\ human \in [Sessions -> BOOLEAN]
  /\ generating \in [Sessions -> BOOLEAN]
  /\ \E k \in 0..MaxSessions : Created = 1..k
  /\ \A s \in Sessions \ Created : log[s] = <<>> /\ ~generating[s]

\* A message of the session's log, and one of the first k the customer typed.
IsSaved(s, m) == m.seq \in 1..Len(log[s]) /\ m = Saved(s, m.seq)
IsOwn(s, k, m) == m = Local(s, m.send, m.text) /\ m.send \in 1..k /\ m.text \in Texts

\* A list a screen may show for the session.
ScreenOf(q, s, k) ==
  /\ q \in Seq(ScreenMessage)
  /\ Ascending(q)
  /\ \A m \in ToSet(q) : IsSaved(s, m) \/ IsOwn(s, k, m)

\* The messages of a text the customer wrote.
Copies(S, t) == {m \in S : m.from = "USER" /\ m.text = t}
Logged(s, t) == {i \in 1..Len(log[s]) : log[s][i] = [from |-> "USER", text |-> t]}
TypedTimes(s, t) == Cardinality({i \in 1..Len(typed[s]) : typed[s][i] = t})

-----------------------------------------------------------------------------
(* Lists of messages.                                                        *)

\* The bounds, as the provers need them.
LEMMA BoundsAreNumbers ==
  MaxSessions \in Nat /\ MaxLog \in Nat /\ MaxTyped \in Nat /\ MaxMishaps \in Nat /\ MaxLog >= 1
BY ChatBoundsAssumption

\* What the log's messages are.
LEMMA SavedFacts ==
  ASSUME ServerTyped, NEW s \in Sessions, NEW i \in 1..Len(log[s])
  PROVE  /\ Saved(s, i) \in ScreenMessage /\ IsSaved(s, Saved(s, i))
         /\ Saved(s, i).seq = i /\ i \in Nat \ {0} /\ ~IsLocal(Saved(s, i))
         /\ Saved(s, i).session = s
         /\ Saved(s, i).from = log[s][i].from /\ Saved(s, i).text = log[s][i].text
         /\ log[s][i] \in LogEntry
<1>1. log[s] \in Seq(LogEntry) /\ Len(log[s]) <= MaxLog
  BY DEF ServerTyped
<1>2. log[s][i] \in LogEntry /\ i \in 0..MaxLog /\ i \in Nat \ {0}
  BY <1>1, BoundsAreNumbers
<1>3. log[s][i].from \in Senders /\ log[s][i].text \in Texts
  BY <1>2 DEF LogEntry
<1> QED
  BY <1>2, <1>3 DEF Saved, ScreenMessage, IsSaved, IsLocal

\* The fields of a message of the session's log.
LEMMA SavedMessage ==
  ASSUME ServerTyped, NEW s \in Sessions, NEW m, IsSaved(s, m)
  PROVE  /\ m \in ScreenMessage /\ ~IsLocal(m) /\ m.session = s /\ m.seq \in 1..Len(log[s])
         /\ m = Saved(s, m.seq) /\ m.seq \in Nat \ {0}
         /\ m.from = log[s][m.seq].from /\ m.text = log[s][m.seq].text /\ log[s][m.seq] \in LogEntry
BY SavedFacts DEF IsSaved

\* What the customer's are.
LEMMA OwnMessage ==
  ASSUME NEW s \in Sessions, NEW k \in Nat, NEW m, IsOwn(s, k, m)
  PROVE  /\ m \in ScreenMessage /\ IsLocal(m) /\ m.session = s /\ m.from = "USER"
         /\ m.send \in 1..k /\ m.text \in Texts /\ m = Local(s, m.send, m.text)
<1>1. m = [session |-> s, seq |-> 0, send |-> m.send, from |-> "USER", text |-> m.text]
  BY DEF IsOwn, Local
<1>2. m.send \in Nat /\ m.text \in Texts /\ m.send \in 1..k
  BY DEF IsOwn
<1>3. m.session = s /\ m.seq = 0 /\ m.from = "USER"
  BY <1>1
<1>4. m \in ScreenMessage
  BY <1>1, <1>2, BoundsAreNumbers DEF ScreenMessage, Senders
<1> QED
  BY <1>2, <1>3, <1>4 DEF IsLocal, IsOwn

\* Some of a screen's messages and some of the log's, sorted, are a screen.
LEMMA ScreenAndLog ==
  ASSUME ServerTyped, NEW s \in Sessions, NEW k \in Nat, NEW q, ScreenOf(q, s, k),
         NEW A, A \subseteq ToSet(q), NEW S, IsFiniteSet(S), \A m \in S : IsSaved(s, m)
  PROVE  ScreenOf(Sorted(A \cup S), s, k) /\ ToSet(Sorted(A \cup S)) = A \cup S
<1>1. IsFiniteSet(A) /\ A \subseteq ScreenMessage
  BY Lists, FS_Subset DEF ScreenOf
<1>2. IsFiniteSet(A \cup S)
  BY <1>1, FS_Union
<1>3. \A m \in A \cup S : m \in ScreenMessage /\ (IsSaved(s, m) \/ IsOwn(s, k, m))
  BY <1>1, SavedMessage DEF ScreenOf
<1>4. \A m, n \in ToSet(q) : m # n => Before(m, n) \/ Before(n, m)
  <2> SUFFICES ASSUME NEW m \in ToSet(q), NEW n \in ToSet(q), m # n
               PROVE  Before(m, n) \/ Before(n, m)
    OBVIOUS
  <2>1. PICK i \in 1..Len(q) : q[i] = m
    BY Lists DEF ScreenOf
  <2>2. PICK j \in 1..Len(q) : q[j] = n
    BY Lists DEF ScreenOf
  <2>3. i < j \/ j < i
    BY <2>1, <2>2 DEF ScreenOf
  <2> QED
    BY <2>1, <2>2, <2>3 DEF ScreenOf, Ascending
<1>5. \A m \in S, n \in A \cup S : m # n => Before(m, n) \/ Before(n, m)
  <2> SUFFICES ASSUME NEW m \in S, NEW n \in A \cup S, m # n
               PROVE  Before(m, n) \/ Before(n, m)
    OBVIOUS
  <2>1. ~IsLocal(m) /\ m.seq \in Nat /\ m = Saved(s, m.seq)
    BY SavedMessage
  <2>2. CASE IsSaved(s, n)
    <3>1. ~IsLocal(n) /\ n.seq \in Nat /\ n = Saved(s, n.seq)
      BY <2>2, SavedMessage
    <3>2. m.seq # n.seq
      BY <2>1, <3>1
    <3> QED
      BY <2>1, <3>1, <3>2 DEF Before
  <2>3. CASE IsOwn(s, k, n)
    BY <2>1, <2>3, OwnMessage DEF Before
  <2> QED
    BY <1>3, <2>2, <2>3
<1>6. Apart(A \cup S)
  BY <1>2, <1>3, <1>4, <1>5 DEF Apart
<1> QED
  BY <1>3, <1>6, SortedFacts DEF ScreenOf

\* Part of a screen is a screen.
LEMMA PartOfScreen ==
  ASSUME NEW q, NEW s, NEW k, ScreenOf(q, s, k), NEW S
  PROVE  ScreenOf(Filter(q, S), s, k) /\ ToSet(Filter(q, S)) = ToSet(q) \cap S
BY FilterFacts DEF ScreenOf

\* The log's messages of one text are at most as many as its entries.
LEMMA SavedCopies ==
  ASSUME ServerTyped, NEW s \in Sessions, NEW t, NEW S,
         \A m \in S : IsSaved(s, m) /\ m.from = "USER" /\ m.text = t
  PROVE  IsFiniteSet(S) /\ Cardinality(S) <= Cardinality(Logged(s, t))
<1>1. IsFiniteSet(1..Len(log[s]))
  <2>1. Len(log[s]) \in Nat
    BY DEF ServerTyped
  <2> QED
    BY <2>1, FS_Interval
<1>2. IsFiniteSet(Logged(s, t))
  <2>1. Logged(s, t) \subseteq 1..Len(log[s])
    BY DEF Logged
  <2> QED
    BY <1>1, <2>1, FS_Subset
<1> DEFINE f == [m \in S |-> m.seq]
<1>3. f \in Injection(S, Logged(s, t))
  <2>1. \A m \in S : m.seq \in Logged(s, t) /\ m = Saved(s, m.seq)
    <3> TAKE m \in S
    <3>1. m.seq \in 1..Len(log[s]) /\ m = Saved(s, m.seq) /\ log[s][m.seq] \in LogEntry
          /\ m.from = log[s][m.seq].from /\ m.text = log[s][m.seq].text
      BY SavedMessage
    <3>2. log[s][m.seq] = [from |-> "USER", text |-> t]
      BY <3>1 DEF LogEntry
    <3> QED
      BY <3>1, <3>2 DEF Logged
  <2>2. f \in [S -> Logged(s, t)]
    BY <2>1
  <2>3. \A m, n \in S : m.seq = n.seq => m = n
    BY <2>1
  <2> QED
    BY <2>2, <2>3 DEF Injection, IsInjective
<1> QED
  BY <1>2, <1>3, FS_Injection

\* The local copy an echo takes the place of: the oldest one.
Replaced(q, m) ==
  {n \in LocalCopies(q, m) : m.from = "USER" /\ \A o \in LocalCopies(q, m) : n.send <= o.send}

\* Among the local copies of a text one is the oldest.
LEMMA OldestCopy ==
  ASSUME NEW s \in Sessions, NEW k \in Nat, NEW q, ScreenOf(q, s, k), NEW m,
         m.from = "USER", LocalCopies(q, m) # {}
  PROVE  Replaced(q, m) # {}
<1> DEFINE C == LocalCopies(q, m)
           f == [n \in C |-> n.send]
           F == {f[n] : n \in C}
<1>1. IsFiniteSet(C) /\ \A n \in C : n.send \in Nat
  <2>1. IsFiniteSet(ToSet(q)) /\ ToSet(q) \subseteq ScreenMessage
    BY Lists DEF ScreenOf
  <2>2. C \subseteq ToSet(q)
    BY DEF LocalCopies
  <2> QED
    BY <2>1, <2>2, FS_Subset DEF ScreenMessage
<1> HIDE DEF C
<1>2. F \subseteq Nat
  BY <1>1
<1>3. IsFiniteSet(F)
  <2>1. f \in Surjection(C, F)
    BY DEF Surjection
  <2> HIDE DEF F, f
  <2> QED
    BY <1>1, <2>1, FS_Surjection
<1>4. F # {}
  BY DEF C
<1>5. PICK x \in F : \A y \in F : x <= y
  <2> HIDE DEF F
  <2> QED
    BY <1>2, <1>3, <1>4, Least
<1>6. PICK n \in C : n.send = x
  OBVIOUS
<1>7. \A o \in C : o.send \in F
  OBVIOUS
<1> QED
  BY <1>5, <1>6, <1>7 DEF Replaced, C

\* What the echo of a saved message makes of a screen.
LEMMA EchoFacts ==
  ASSUME ServerTyped, NEW s \in Sessions, NEW k \in Nat, NEW q, ScreenOf(q, s, k),
         NEW m, IsSaved(s, m)
  PROVE  /\ ScreenOf(MergeRealtimeMessage(q, m), s, k)
         /\ ToSet(MergeRealtimeMessage(q, m)) = (ToSet(q) \ Replaced(q, m)) \cup {m}
         /\ \A n \in Replaced(q, m) : IsLocal(n) /\ n \in ToSet(q) /\ n.text = m.text /\ m.from = "USER"
<1>1. \A n \in Replaced(q, m) : IsLocal(n) /\ n \in ToSet(q) /\ n.text = m.text /\ m.from = "USER"
  BY DEF Replaced, LocalCopies
<1> DEFINE rest == Without(q, Replaced(q, m))
<1>2. rest = Filter(q, ToSet(q) \ Replaced(q, m))
  BY DEF Without
<1>3. ToSet(rest) = ToSet(q) \ Replaced(q, m)
  BY <1>2, PartOfScreen
<1>4. ToSet(<<m>>) = {m}
  <2>1. DOMAIN <<m>> = {1} /\ <<m>>[1] = m
    OBVIOUS
  <2> QED
    BY <2>1 DEF ToSet
<1>5. MergeRealtimeMessage(q, m) = Sorted((ToSet(q) \ Replaced(q, m)) \cup {m})
  <2>1. MergeRealtimeMessage(q, m) = MergeMessages(rest, <<m>>)
    BY DEF MergeRealtimeMessage, Replaced
  <2> QED
    BY <1>3, <1>4, <2>1 DEF MergeMessages
<1> DEFINE A == ToSet(q) \ Replaced(q, m)
<1>6. IsFiniteSet({m}) /\ A \subseteq ToSet(q) /\ \A n \in {m} : IsSaved(s, n)
  BY FS_Singleton
<1> HIDE DEF A
<1>7. ScreenOf(Sorted(A \cup {m}), s, k) /\ ToSet(Sorted(A \cup {m})) = A \cup {m}
  BY <1>6, ScreenAndLog
<1> QED
  BY <1>1, <1>5, <1>7 DEF A

\* There are no more messages of one text on the screen than were typed.
Fits(q, s) == \A t \in Texts : Cardinality(Copies(ToSet(q), t)) <= TypedTimes(s, t)

\* The log has no text more often than the customer typed it; Fits says so of a screen.
LogFits(s) == \A t \in Texts :
  Cardinality(Logged(s, t)) <= TypedTimes(s, t) /\ TypedTimes(s, t) \in Nat

\* Counting the copies of a text on a screen.
LEMMA CopiesFinite ==
  ASSUME NEW s, NEW k, NEW q, ScreenOf(q, s, k), NEW t
  PROVE  IsFiniteSet(Copies(ToSet(q), t)) /\ Cardinality(Copies(ToSet(q), t)) \in Nat
<1>1. IsFiniteSet(ToSet(q))
  BY Lists DEF ScreenOf
<1>2. Copies(ToSet(q), t) \subseteq ToSet(q)
  BY DEF Copies
<1> QED
  BY <1>1, <1>2, FS_Subset, FS_CardinalityType

\* An echo takes the place of a copy, or is counted with the log's messages.
LEMMA EchoFits ==
  ASSUME ServerTyped, NEW s \in Sessions, NEW k \in Nat, NEW q, ScreenOf(q, s, k),
         NEW m, IsSaved(s, m), LogFits(s), Fits(q, s)
  PROVE  Fits(MergeRealtimeMessage(q, m), s)
<1> DEFINE r == MergeRealtimeMessage(q, m)
<1> SUFFICES ASSUME NEW t \in Texts PROVE Cardinality(Copies(ToSet(r), t)) <= TypedTimes(s, t)
  BY DEF Fits
<1>0. /\ ToSet(r) = (ToSet(q) \ Replaced(q, m)) \cup {m}
      /\ \A n \in Replaced(q, m) : IsLocal(n) /\ n \in ToSet(q) /\ n.text = m.text /\ m.from = "USER"
      /\ ScreenOf(r, s, k)
  BY EchoFacts
<1>1. /\ Cardinality(Copies(ToSet(q), t)) <= TypedTimes(s, t)
      /\ IsFiniteSet(Copies(ToSet(q), t)) /\ Cardinality(Copies(ToSet(q), t)) \in Nat
      /\ TypedTimes(s, t) \in Nat /\ Cardinality(Logged(s, t)) <= TypedTimes(s, t)
      /\ Cardinality(Copies(ToSet(r), t)) \in Nat
  BY <1>0, CopiesFinite DEF Fits, LogFits
<1> HIDE DEF r
<1>2. CASE Copies(ToSet(r), t) \subseteq Copies(ToSet(q), t)
  <2>1. Cardinality(Copies(ToSet(r), t)) <= Cardinality(Copies(ToSet(q), t))
    BY <1>1, <1>2, FS_Subset
  <2> QED
    BY <1>1, <2>1
<1>3. CASE m.from = "USER" /\ m.text = t /\ LocalCopies(q, m) = {}
  <2>1. \A n \in Copies(ToSet(r), t) : IsSaved(s, n) /\ n.from = "USER" /\ n.text = t
    <3> TAKE n \in Copies(ToSet(r), t)
    <3>1. n.from = "USER" /\ n.text = t /\ n \in ToSet(r)
      BY DEF Copies
    <3>2. CASE n = m
      BY <3>1, <3>2
    <3>3. CASE n \in ToSet(q)
      <4>1. ~IsLocal(n)
        BY <1>3, <3>1, <3>3 DEF LocalCopies
      <4>2. ~IsOwn(s, k, n)
        BY <4>1, OwnMessage
      <4> QED
        BY <3>1, <3>3, <4>2 DEF ScreenOf
    <3> QED
      BY <1>0, <3>1, <3>2, <3>3
  <2>2. Cardinality(Copies(ToSet(r), t)) <= Cardinality(Logged(s, t))
    BY <2>1, SavedCopies
  <2>3. Cardinality(Logged(s, t)) \in Nat
    <3>1. IsFiniteSet(Logged(s, t))
      <4>1. Len(log[s]) \in Nat
        BY DEF ServerTyped
      <4>2. IsFiniteSet(1..Len(log[s]))
        BY <4>1, FS_Interval
      <4>3. Logged(s, t) \subseteq 1..Len(log[s])
        BY DEF Logged
      <4> QED
        BY <4>2, <4>3, FS_Subset
    <3> QED
      BY <3>1, FS_CardinalityType
  <2> QED
    BY <1>1, <2>2, <2>3
<1>4. CASE m.from = "USER" /\ m.text = t /\ LocalCopies(q, m) # {}
  <2>1. PICK n \in Replaced(q, m) : TRUE
    BY <1>4, OldestCopy
  <2>2. n \in Copies(ToSet(q), t)
    <3>1. IsLocal(n) /\ n \in ToSet(q) /\ n.text = t
      BY <1>0, <1>4
    <3>2. ~IsSaved(s, n)
      BY <3>1, SavedMessage
    <3>3. n.from = "USER"
      BY <3>1, <3>2, OwnMessage DEF ScreenOf
    <3> QED
      BY <3>1, <3>3 DEF Copies
  <2>3. n \notin ToSet(r)
    <3>1. n # m
      <4>1. IsLocal(n) /\ ~IsLocal(m)
        BY <1>0, SavedMessage
      <4> QED
        BY <4>1
    <3> QED
      BY <1>0, <3>1
  <2> DEFINE less == Copies(ToSet(q), t) \ {n}
  <2>4. Copies(ToSet(r), t) \subseteq less \cup {m}
    BY <1>0, <2>3 DEF Copies
  <2>5. IsFiniteSet(less) /\ Cardinality(less) = Cardinality(Copies(ToSet(q), t)) - 1
    BY <1>1, <2>2, FS_RemoveElement
  <2>6. IsFiniteSet(less \cup {m}) /\ Cardinality(less \cup {m}) <= Cardinality(Copies(ToSet(q), t))
    <3> HIDE DEF less
    <3>1. /\ IsFiniteSet(less \cup {m})
          /\ Cardinality(less \cup {m}) = IF m \in less THEN Cardinality(less) ELSE Cardinality(less) + 1
      BY <2>5, FS_AddElement
    <3> QED
      BY <1>1, <2>5, <3>1
  <2> HIDE DEF less
  <2>7. Cardinality(Copies(ToSet(r), t)) <= Cardinality(less \cup {m})
    BY <2>4, <2>6, FS_Subset
  <2>8. Cardinality(less \cup {m}) \in Nat
    BY <2>6, FS_CardinalityType
  <2> QED
    BY <1>1, <2>6, <2>7, <2>8
<1>5. CASE ~(m.from = "USER" /\ m.text = t)
  BY <1>0, <1>2, <1>5 DEF Copies
<1> QED
  BY <1>3, <1>4, <1>5

\* Saved messages merged one after the other.
LEMMA EchoesFacts ==
  ASSUME ServerTyped, NEW s \in Sessions, NEW k \in Nat, NEW q, ScreenOf(q, s, k),
         NEW messages \in Seq(ScreenMessage), \A m \in ToSet(messages) : IsSaved(s, m),
         LogFits(s), Fits(q, s)
  PROVE  LET r == MergeRealtimeMessages(q, messages)
         IN  /\ ScreenOf(r, s, k) /\ Fits(r, s)
             /\ \A n \in ToSet(q) : ~IsLocal(n) => n \in ToSet(r)
<1> DEFINE T == {x \in Seq(ScreenMessage) :
                   /\ ScreenOf(x, s, k) /\ Fits(x, s)
                   /\ \A n \in ToSet(q) : ~IsLocal(n) => n \in ToSet(x)}
<1>1. q \in T
  BY DEF ScreenOf
<1>2. ASSUME NEW x \in T, NEW i \in 1..Len(messages)
      PROVE  MergeRealtimeMessage(x, messages[i]) \in T
  <2> DEFINE m == messages[i]
             y == MergeRealtimeMessage(x, m)
  <2>1. IsSaved(s, m)
    BY Lists
  <2>2. ScreenOf(x, s, k) /\ Fits(x, s) /\ \A n \in ToSet(q) : ~IsLocal(n) => n \in ToSet(x)
    OBVIOUS
  <2> HIDE DEF T, m
  <2>3. /\ ScreenOf(y, s, k)
        /\ ToSet(y) = (ToSet(x) \ Replaced(x, m)) \cup {m}
        /\ \A n \in Replaced(x, m) : IsLocal(n)
    BY <2>1, <2>2, EchoFacts
  <2>4. Fits(y, s)
    BY <2>1, <2>2, EchoFits
  <2>5. \A n \in ToSet(q) : ~IsLocal(n) => n \in ToSet(y)
    BY <2>2, <2>3
  <2> HIDE DEF y
  <2>6. y \in T
    BY <2>3, <2>4, <2>5 DEF T, ScreenOf
  <2> QED
    BY <2>6 DEF y, m
<1>3. Len(messages) \in Nat
  OBVIOUS
<1> HIDE DEF T
<1>4. MergeRealtimeMessages(q, messages) \in T
  BY <1>1, <1>2, <1>3, MergedOneByOne
<1> QED
  BY <1>4 DEF T

\* A list of saved messages only is a screen for any number of messages typed.
LEMMA SavedScreen ==
  ASSUME ServerTyped, NEW s \in Sessions, NEW k \in Nat, NEW q, ScreenOf(q, s, 0), LogFits(s)
  PROVE  ScreenOf(q, s, k) /\ Fits(q, s) /\ \A m \in ToSet(q) : IsSaved(s, m)
<1>1. \A m \in ToSet(q) : IsSaved(s, m)
  BY DEF ScreenOf, IsOwn
<1>2. ScreenOf(q, s, k)
  BY <1>1 DEF ScreenOf
<1>3. Fits(q, s)
  <2> SUFFICES ASSUME NEW t \in Texts PROVE Cardinality(Copies(ToSet(q), t)) <= TypedTimes(s, t)
    BY DEF Fits
  <2>1. Cardinality(Copies(ToSet(q), t)) <= Cardinality(Logged(s, t))
    BY <1>1, SavedCopies DEF Copies
  <2>2. Cardinality(Copies(ToSet(q), t)) \in Nat
    BY CopiesFinite
  <2>3. Cardinality(Logged(s, t)) \in Nat
    <3>1. Len(log[s]) \in Nat
      BY DEF ServerTyped
    <3>2. IsFiniteSet(1..Len(log[s]))
      BY <3>1, FS_Interval
    <3>3. Logged(s, t) \subseteq 1..Len(log[s])
      BY DEF Logged
    <3> QED
      BY <3>2, <3>3, FS_Subset, FS_CardinalityType
  <2> QED
    BY <2>1, <2>2, <2>3 DEF LogFits
<1> QED
  BY <1>1, <1>2, <1>3

\* The empty screen is one of any session.
LEMMA EmptyScreen ==
  ASSUME NEW s, NEW k
  PROVE  ScreenOf(<<>>, s, k) /\ ToSet(<<>>) = {}
<1>1. <<>> \in Seq(ScreenMessage) /\ Len(<<>>) = 0 /\ DOMAIN <<>> = {}
  OBVIOUS
<1>2. ToSet(<<>>) = {}
  BY <1>1 DEF ToSet
<1> QED
  BY <1>1, <1>2 DEF ScreenOf, Ascending

\* The log's messages from one number to another.
SavedFrom(s, a, b) == {Saved(s, i) : i \in a..b}

\* A part of the session's log, sorted, is a list a screen may show.
LEMMA SavedRange ==
  ASSUME ServerTyped, NEW s \in Sessions, NEW a \in Nat, NEW b \in Nat, a >= 1, b <= Len(log[s])
  PROVE  /\ ScreenOf(Sorted(SavedFrom(s, a, b)), s, 0)
         /\ ToSet(Sorted(SavedFrom(s, a, b))) = SavedFrom(s, a, b)
<1>0. Len(log[s]) \in Nat
  BY DEF ServerTyped
<1> DEFINE f == [i \in a..b |-> Saved(s, i)]
<1>1. IsFiniteSet(SavedFrom(s, a, b))
  <2>1. f \in Surjection(a..b, SavedFrom(s, a, b))
    BY DEF Surjection, SavedFrom
  <2>2. IsFiniteSet(a..b)
    BY <1>0, FS_Interval
  <2> HIDE DEF f
  <2> QED
    BY <2>1, <2>2, FS_Surjection
<1>2. \A m \in SavedFrom(s, a, b) : IsSaved(s, m)
  <2>1. \A i \in a..b : i \in 1..Len(log[s])
    BY <1>0
  <2> QED
    BY <2>1, SavedFacts DEF SavedFrom
<1> DEFINE S == SavedFrom(s, a, b)
<1>3. ScreenOf(<<>>, s, 0) /\ {} \subseteq ToSet(<<>>) /\ 0 \in Nat
  BY EmptyScreen
<1> HIDE DEF S
<1>4. ScreenOf(Sorted({} \cup S), s, 0) /\ ToSet(Sorted({} \cup S)) = {} \cup S
  BY <1>1, <1>2, <1>3, ScreenAndLog DEF S
<1>5. {} \cup S = S
  OBVIOUS
<1> QED
  BY <1>4, <1>5 DEF S

\* So is the log up to any message,
LEMMA SnapshotFacts ==
  ASSUME ServerTyped, NEW s \in Sessions, NEW n \in 0..Len(log[s])
  PROVE  /\ ScreenOf(Sorted(SavedUpTo(s, n)), s, 0)
         /\ ToSet(Sorted(SavedUpTo(s, n))) = SavedUpTo(s, n)
<1>1. Len(log[s]) \in Nat /\ 1 \in Nat /\ n \in Nat /\ n <= Len(log[s])
  BY DEF ServerTyped
<1>2. SavedUpTo(s, n) = SavedFrom(s, 1, n)
  BY DEF SavedUpTo, SavedFrom
<1> QED
  BY <1>1, <1>2, SavedRange

\* and whatever a reading of the messages brings.
LEMMA SnapshotsFacts ==
  ASSUME ServerTyped, NEW s \in Sessions, NEW since \in Nat, NEW q \in Snapshots(s, since)
  PROVE  ScreenOf(q, s, 0)
<1>0. Len(log[s]) \in Nat
  BY DEF ServerTyped
<1>1. PICK n \in since..Len(log[s]) : q = Sorted(SavedUpTo(s, n))
  BY DEF Snapshots
<1>2. n \in 0..Len(log[s])
  BY <1>0
<1> QED
  BY <1>1, <1>2, SnapshotFacts

\* What is stored of a screen.
LEMMA StoredPart ==
  ASSUME NEW s, NEW k, NEW q, ScreenOf(q, s, k)
  PROVE  ScreenOf(Filter(q, {m \in ToSet(q) : ~IsLocal(m)}), s, 0)
<1> DEFINE r == Filter(q, {m \in ToSet(q) : ~IsLocal(m)})
<1>1. ScreenOf(r, s, k) /\ ToSet(r) = {m \in ToSet(q) : ~IsLocal(m)}
  BY PartOfScreen
<1>2. \A m : IsOwn(s, k, m) => IsLocal(m)
  BY DEF IsOwn, IsLocal, Local
<1> HIDE DEF r
<1>3. ScreenOf(r, s, 0)
  BY <1>1, <1>2 DEF ScreenOf
<1> QED
  BY <1>3 DEF r

\* Counting the copies of a text in the log.
LEMMA LoggedFinite ==
  ASSUME ServerTyped, NEW s \in Sessions, NEW t
  PROVE  IsFiniteSet(Logged(s, t)) /\ Cardinality(Logged(s, t)) \in Nat
<1>1. Len(log[s]) \in Nat
  BY DEF ServerTyped
<1>2. IsFiniteSet(1..Len(log[s]))
  BY <1>1, FS_Interval
<1>3. Logged(s, t) \subseteq 1..Len(log[s])
  BY DEF Logged
<1> QED
  BY <1>2, <1>3, FS_Subset, FS_CardinalityType

\* The local messages of one text, in the order they were sent.
Locals(q, t) == {n \in ToSet(q) : IsLocal(n) /\ n.text = t}
SentBefore(q, t) == {p \in Locals(q, t) \X Locals(q, t) : p[1].send < p[2].send}

\* The local copies of a text are ordered by their sends.
LEMMA LocalsInOrder ==
  ASSUME NEW s \in Sessions, ServerTyped, NEW k \in Nat, NEW q, ScreenOf(q, s, k), NEW t
  PROVE  /\ IsFiniteSet(Locals(q, t)) /\ Orders(SentBefore(q, t), Locals(q, t))
         /\ \A m \in Locals(q, t) :
              /\ LocalCopies(q, m) = Locals(q, t)
              /\ Cardinality({n \in LocalCopies(q, m) : n.send < m.send})
                   = Rank(Locals(q, t), SentBefore(q, t), m)
         /\ Locals(q, t) \subseteq Copies(ToSet(q), t)
<1> DEFINE L == Locals(q, t)
           R == SentBefore(q, t)
<1>1. \A m \in L : m \in ToSet(q) /\ IsOwn(s, k, m) /\ m.text = t /\ m.send \in Nat /\ m.from = "USER"
                   /\ m = Local(s, m.send, t)
  <2> TAKE m \in L
  <2>1. m \in ToSet(q) /\ IsLocal(m) /\ m.text = t
    BY DEF Locals
  <2>2. ~IsSaved(s, m)
    BY <2>1, SavedMessage
  <2>3. IsOwn(s, k, m)
    BY <2>1, <2>2 DEF ScreenOf
  <2> QED
    BY <2>1, <2>3, OwnMessage
<1>2. IsFiniteSet(L)
  <2>1. IsFiniteSet(ToSet(q))
    BY Lists DEF ScreenOf
  <2> QED
    BY <2>1, FS_Subset DEF Locals
<1>3. \A m, n \in L : <<m, n>> \in R <=> m.send < n.send
  BY DEF SentBefore
<1> HIDE DEF L, R
<1>4. Orders(R, L)
  <2>1. \A m, n \in L : m.send = n.send => m = n
    BY <1>1
  <2> QED
    BY <1>1, <1>3, <2>1 DEF Orders
<1>5. \A m \in L : LocalCopies(q, m) = L
  BY <1>1 DEF L, Locals, LocalCopies
<1>6. \A m \in L : Cardinality({n \in LocalCopies(q, m) : n.send < m.send}) = Rank(L, R, m)
  <2> TAKE m \in L
  <2>1. {n \in LocalCopies(q, m) : n.send < m.send} = {n \in L : <<n, m>> \in R}
    BY <1>3, <1>5
  <2> QED
    BY <2>1 DEF Rank
<1>7. L \subseteq Copies(ToSet(q), t)
  BY <1>1 DEF Copies
<1> QED
  BY <1>2, <1>4, <1>5, <1>6, <1>7 DEF L, R

\* The local messages a snapshot leaves on the screen.
StillPending(persisted, q) ==
  {m \in ToSet(q) : IsLocal(m) /\
     Cardinality(Copies(ToSet(persisted), m.text))
       <= Cardinality({n \in LocalCopies(q, m) : n.send < m.send})}

\* The snapshot and what it has no copy of yet.
LEMMA PersistedIs ==
  ASSUME NEW persisted, NEW q \in Seq(ScreenMessage)
  PROVE  MergePersistedMessagesWithPending(persisted, q)
           = Sorted(StillPending(persisted, q) \cup ToSet(persisted))
<1> DEFINE K == {m \in ToSet(q) : IsLocal(m) /\
                   Cardinality({n \in ToSet(persisted) : n.from = "USER" /\ n.text = m.text})
                     <= Cardinality({n \in LocalCopies(q, m) : n.send < m.send})}
<1>1. MergePersistedMessagesWithPending(persisted, q) = MergeMessages(persisted, Filter(q, K))
  BY DEF MergePersistedMessagesWithPending
<1>2. K = StillPending(persisted, q)
  BY DEF StillPending, Copies
<1>3. StillPending(persisted, q) \subseteq ToSet(q)
  BY DEF StillPending
<1> HIDE DEF K
<1>4. ToSet(Filter(q, K)) = K
  <2>1. ToSet(Filter(q, K)) = ToSet(q) \cap K
    BY FilterFacts
  <2>2. K \subseteq ToSet(q)
    BY <1>2, <1>3
  <2> QED
    BY <2>1, <2>2
<1>5. ToSet(persisted) \cup K = K \cup ToSet(persisted)
  OBVIOUS
<1> QED
  BY <1>1, <1>2, <1>4, <1>5 DEF MergeMessages

\* As many local messages of a text stay as there are more than persisted copies.
LEMMA PendingCount ==
  ASSUME ServerTyped, NEW s \in Sessions, NEW k \in Nat, NEW q, ScreenOf(q, s, k), NEW t,
         NEW persisted, NEW p \in Nat, p = Cardinality(Copies(ToSet(persisted), t))
  PROVE  LET K == Copies(StillPending(persisted, q), t)
             c == Cardinality(Copies(ToSet(q), t))
         IN  /\ IsFiniteSet(K) /\ Cardinality(K) \in Nat /\ c \in Nat
             /\ Cardinality(K) = 0 \/ p + Cardinality(K) <= c
<1> DEFINE K == Copies(StillPending(persisted, q), t)
           L == Locals(q, t)
           R == SentBefore(q, t)
           c == Cardinality(Copies(ToSet(q), t))
           l == Cardinality(L)
           rank(m) == Rank(L, R, m)
<1>1. c \in Nat /\ IsFiniteSet(Copies(ToSet(q), t))
  BY CopiesFinite
<1>2. /\ IsFiniteSet(L) /\ Orders(R, L) /\ L \subseteq Copies(ToSet(q), t)
      /\ \A m \in L : Cardinality({n \in LocalCopies(q, m) : n.send < m.send}) = rank(m)
  BY LocalsInOrder
<1>3. l \in Nat /\ l <= c
  BY <1>1, <1>2, FS_Subset, FS_CardinalityType
<1>4. K \subseteq L /\ \A m \in K : p <= rank(m)
  <2> SUFFICES ASSUME NEW m \in K PROVE m \in L /\ p <= rank(m)
    OBVIOUS
  <2>1. m \in ToSet(q) /\ IsLocal(m) /\ m.text = t
    BY DEF Copies, StillPending
  <2>2. m \in L
    BY <2>1 DEF Locals
  <2>3. Cardinality(Copies(ToSet(persisted), t)) <= Cardinality({n \in LocalCopies(q, m) : n.send < m.send})
    BY <2>1 DEF Copies, StillPending
  <2> QED
    BY <1>2, <2>2, <2>3
<1>5. IsFiniteSet(K) /\ Cardinality(K) \in Nat
  <2> HIDE DEF K, L
  <2> QED
    BY <1>2, <1>4, FS_Subset, FS_CardinalityType
<1>6. /\ \A m \in L : rank(m) \in 0..(l - 1)
      /\ \A m, n \in L : rank(m) = rank(n) => m = n
  <2> HIDE DEF L, R
  <2> QED
    BY <1>2, RanksFill
<1> HIDE DEF K, L, R, c, rank
<1> DEFINE f == [m \in K |-> rank(m)]
<1>7. f \in Injection(K, p..(l - 1))
  <2>1. \A m \in K : rank(m) \in p..(l - 1)
    BY <1>3, <1>4, <1>6
  <2>2. \A m, n \in K : rank(m) = rank(n) => m = n
    BY <1>4, <1>6
  <2> HIDE DEF l
  <2> QED
    BY <2>1, <2>2 DEF Injection, IsInjective
<1> HIDE DEF f, l
<1>8. IsFiniteSet(p..(l - 1)) /\ Cardinality(p..(l - 1)) = IF p > l - 1 THEN 0 ELSE l - 1 - p + 1
  <2>1. p \in Int /\ l - 1 \in Int
    BY <1>3
  <2> QED
    BY <2>1, FS_Interval
<1>9. Cardinality(K) <= Cardinality(p..(l - 1))
  BY <1>7, <1>8, FS_Injection
<1>10. Cardinality(K) = 0 \/ p + Cardinality(K) <= c
  BY <1>1, <1>3, <1>5, <1>8, <1>9
<1> QED
  BY <1>1, <1>5, <1>10 DEF K, c

\* What a snapshot makes of the screen.
LEMMA PersistedFacts ==
  ASSUME ServerTyped, NEW s \in Sessions, NEW k \in Nat, NEW q, ScreenOf(q, s, k),
         NEW persisted, ScreenOf(persisted, s, 0), LogFits(s), Fits(q, s)
  PROVE  LET r == MergePersistedMessagesWithPending(persisted, q)
         IN  ScreenOf(r, s, k) /\ Fits(r, s)
<1> DEFINE r == MergePersistedMessagesWithPending(persisted, q)
           K == StillPending(persisted, q)
           P == ToSet(persisted)
<1>1. \A m \in P : IsSaved(s, m)
  BY SavedScreen
<1>2. IsFiniteSet(P)
  BY Lists DEF ScreenOf
<1>3. r = Sorted(K \cup P)
  BY PersistedIs DEF ScreenOf
<1>4. K \subseteq ToSet(q)
  BY DEF StillPending
<1> HIDE DEF r, K, P
<1>5. ScreenOf(r, s, k) /\ ToSet(r) = K \cup P
  BY <1>1, <1>2, <1>3, <1>4, ScreenAndLog
<1>6. Fits(r, s)
  <2> SUFFICES ASSUME NEW t \in Texts PROVE Cardinality(Copies(ToSet(r), t)) <= TypedTimes(s, t)
    BY DEF Fits
  <2> DEFINE C == Copies(K, t)
             D == Copies(P, t)
             p == Cardinality(D)
             c == Cardinality(Copies(ToSet(q), t))
  <2>1. IsFiniteSet(D) /\ p \in Nat
    BY CopiesFinite DEF P
  <2>2. /\ IsFiniteSet(C) /\ Cardinality(C) \in Nat /\ c \in Nat
        /\ Cardinality(C) = 0 \/ p + Cardinality(C) <= c
    BY <2>1, PendingCount DEF K, P
  <2>3. Copies(ToSet(r), t) = C \cup D
    BY <1>5 DEF Copies
  <2>4. p <= TypedTimes(s, t) /\ c <= TypedTimes(s, t) /\ TypedTimes(s, t) \in Nat
    <3>1. p <= TypedTimes(s, t)
      BY SavedScreen DEF Fits, P
    <3> QED
      BY <3>1 DEF Fits, LogFits
  <2> HIDE DEF C, D
  <2>5. Cardinality(C \cup D) <= Cardinality(C) + p
    <3>1. Cardinality(C \cup D) = Cardinality(C) + Cardinality(D) - Cardinality(C \cap D)
      BY <2>1, <2>2, FS_Union
    <3>2. Cardinality(C \cap D) \in Nat
      BY <2>2, FS_Intersection, FS_CardinalityType
    <3> QED
      BY <2>1, <2>2, <3>1, <3>2
  <2>6. Cardinality(C \cup D) \in Nat
    BY <2>1, <2>2, FS_Union, FS_CardinalityType
  <2> HIDE DEF c, p
  <2> QED
    BY <2>1, <2>2, <2>3, <2>4, <2>5, <2>6
<1> QED
  BY <1>5, <1>6 DEF r

\* What the customer has typed is shown at once.
LEMMA OwnAdded ==
  ASSUME ServerTyped, NEW s \in Sessions, NEW k \in Nat, NEW q, ScreenOf(q, s, k), NEW t \in Texts
  PROVE  LET m == Local(s, k + 1, t)
             r == MergeMessages(q, <<m>>)
         IN  ScreenOf(r, s, k + 1) /\ ToSet(r) = ToSet(q) \cup {m}
<1> DEFINE m == Local(s, k + 1, t)
           r == MergeMessages(q, <<m>>)
           S == ToSet(q) \cup {m}
<1>1. ToSet(<<m>>) = {m}
  <2>1. DOMAIN <<m>> = {1} /\ <<m>>[1] = m
    OBVIOUS
  <2> QED
    BY <2>1 DEF ToSet
<1>2. r = Sorted(S)
  BY <1>1 DEF MergeMessages
<1>3. IsOwn(s, k + 1, m) /\ m.send = k + 1 /\ IsLocal(m)
  BY DEF IsOwn, Local, IsLocal
<1>4. \A n \in ToSet(q) : Before(n, m) /\ (IsSaved(s, n) \/ IsOwn(s, k + 1, n)) /\ n \in ScreenMessage
  <2> TAKE n \in ToSet(q)
  <2>1. n \in ScreenMessage /\ (IsSaved(s, n) \/ IsOwn(s, k, n))
    BY Lists DEF ScreenOf
  <2>2. CASE IsSaved(s, n)
    BY <1>3, <2>1, <2>2, SavedMessage DEF Before
  <2>3. CASE IsOwn(s, k, n)
    <3>1. IsLocal(n) /\ n.send \in 1..k
      BY <2>3, OwnMessage
    <3> QED
      BY <1>3, <2>1, <2>3, <3>1 DEF Before, IsOwn
  <2> QED
    BY <2>1, <2>2, <2>3
<1>5. m \in ScreenMessage
  BY <1>3, OwnMessage
<1>6. IsFiniteSet(S)
  <2>1. IsFiniteSet(ToSet(q))
    BY Lists DEF ScreenOf
  <2> HIDE DEF m
  <2> QED
    BY <2>1, FS_AddElement
<1>7. \A x, y \in ToSet(q) : x # y => Before(x, y) \/ Before(y, x)
  <2> SUFFICES ASSUME NEW x \in ToSet(q), NEW y \in ToSet(q), x # y
               PROVE  Before(x, y) \/ Before(y, x)
    OBVIOUS
  <2>1. PICK i \in 1..Len(q) : q[i] = x
    BY Lists DEF ScreenOf
  <2>2. PICK j \in 1..Len(q) : q[j] = y
    BY Lists DEF ScreenOf
  <2>3. i < j \/ j < i
    BY <2>1, <2>2 DEF ScreenOf
  <2> QED
    BY <2>1, <2>2, <2>3 DEF ScreenOf, Ascending
<1> HIDE DEF m
<1>8. Apart(S)
  BY <1>4, <1>5, <1>6, <1>7 DEF Apart
<1>9. Sorted(S) \in Seq(ScreenMessage) /\ Ascending(Sorted(S)) /\ ToSet(Sorted(S)) = S
  BY <1>8, SortedFacts
<1> HIDE DEF r
<1>10. ScreenOf(r, s, k + 1) /\ ToSet(r) = ToSet(q) \cup {m}
  BY <1>2, <1>3, <1>4, <1>9 DEF ScreenOf
<1> QED
  BY <1>10 DEF m, r

-----------------------------------------------------------------------------
(* What holds of the page, of what it has stored and of what is on its way.  *)

\* The form of the page's state and refs.
PageRecord ==
  [name : Names \cup {NoName}, start : Nat, session : {NoSession} \cup Sessions,
   failed : BOOLEAN, screen : Seq(ScreenMessage), sending : BOOLEAN, send : 0..MaxTyped,
   typing : BOOLEAN, held : Seq(ScreenMessage), timer : BOOLEAN]

\* An open conversation shows what is the session's, and is its name's.
PageSound(p) ==
  /\ p \in PageRecord
  /\ p.session = NoSession => p.screen = <<>> /\ p.held = <<>> /\ ~p.timer
  /\ p.session # NoSession =>
       /\ p.session \in Created /\ p.name \in Names
       /\ mode = "demo" => owner[p.session] = p.name
       /\ ScreenOf(p.screen, p.session, p.send) /\ Fits(p.screen, p.session)
       /\ \A m \in ToSet(p.held) : IsSaved(p.session, m) /\ m.from = "BOT"

\* The form of what localStorage has for a name.
KeptRecord == [session : {NoSession} \cup Sessions, messages : Seq(ScreenMessage)]

\* What is stored for a name is part of the log of a session of that name.
KeptSound(n, kept) ==
  /\ kept \in KeptRecord
  /\ ScreenOf(kept.messages, kept.session, 0)
  /\ kept.messages # <<>> =>
       /\ kept.session \in Created
       /\ mode = "demo" => owner[kept.session] = n

\* What localStorage has for all names.
StorageSound(st) == DOMAIN st = Names /\ \A n \in Names : KeptSound(n, st[n])

\* What a step of the server keeps.
Grows ==
  /\ mode' = mode
  /\ \A s \in Sessions : /\ Len(log[s]) <= Len(log'[s])
                         /\ \A i \in 1..Len(log[s]) : log'[s][i] = log[s][i]
  /\ \A s \in Created : s \in Created' /\ owner'[s] = owner[s]

\* No step takes back what was typed.
TypedKept ==
  \A s \in Sessions, t \in Texts :
    TypedTimes(s, t) \in Nat /\ TypedTimes(s, t)' \in Nat /\ TypedTimes(s, t) <= TypedTimes(s, t)'

\* A saved message stays saved,
LEMMA SavedKept ==
  ASSUME ServerTyped, ServerTyped', Grows, NEW s \in Sessions, NEW m, IsSaved(s, m)
  PROVE  IsSaved(s, m)'
<1>1. log[s] \in Seq(LogEntry) /\ log'[s] \in Seq(LogEntry)
  BY DEF ServerTyped
<1>2. m.seq \in 1..Len(log[s]) /\ m.seq \in 1..Len(log'[s]) /\ log'[s][m.seq] = log[s][m.seq]
  BY <1>1 DEF IsSaved, Grows
<1> QED
  BY <1>2 DEF IsSaved, Saved

\* a list a screen may show stays one,
LEMMA ScreenKept ==
  ASSUME ServerTyped, ServerTyped', Grows, NEW s \in Sessions, NEW k \in Nat, NEW j \in Nat, k <= j,
         NEW q, ScreenOf(q, s, k)
  PROVE  ScreenOf(q, s, j)'
<1>1. \A m : IsOwn(s, k, m) => IsOwn(s, j, m)
  BY DEF IsOwn
<1>2. \A m \in ToSet(q) : IsSaved(s, m)' \/ IsOwn(s, j, m)
  BY <1>1, SavedKept DEF ScreenOf
<1> QED
  BY <1>2 DEF ScreenOf

\* and so the page and what is stored stay sound when the server goes on.
LEMMA PageKept ==
  ASSUME ServerTyped, ServerTyped', Grows, TypedKept, PageSound(page')
  PROVE  PageSound(page)'
<1> SUFFICES ASSUME page'.session # NoSession
             PROVE  /\ page'.session \in Created' /\ (mode' = "demo" => owner'[page'.session] = page'.name)
                    /\ ScreenOf(page.screen, page.session, page.send)' /\ Fits(page.screen, page.session)'
                    /\ \A m \in ToSet(page'.held) : IsSaved(page.session, m)' /\ m.from = "BOT"
  BY DEF PageSound
<1> DEFINE s == page'.session
<1>1. s \in Sessions /\ s \in Created /\ page'.send \in Nat
  BY BoundsAreNumbers DEF PageSound, PageRecord
<1>2. s \in Created' /\ (mode' = "demo" => owner'[s] = page'.name)
  BY <1>1 DEF PageSound, Grows
<1>3. ScreenOf(page.screen, page.session, page.send)'
  BY <1>1, ScreenKept DEF PageSound
<1>4. \A m \in ToSet(page'.held) : IsSaved(page.session, m)' /\ m.from = "BOT"
  BY <1>1, SavedKept DEF PageSound
<1>5. Fits(page.screen, page.session)'
  BY <1>1, <1>3, CopiesFinite DEF PageSound, Fits, TypedKept
<1> QED
  BY <1>2, <1>3, <1>4, <1>5

\* What is stored stays sound when the server goes on.
LEMMA StorageKept ==
  ASSUME ServerTyped, ServerTyped', Grows, StorageSound(storage')
  PROVE  StorageSound(storage)'
<1> SUFFICES ASSUME NEW n \in Names
             PROVE  /\ storage'[n] \in KeptRecord
                    /\ ScreenOf(storage[n].messages, storage[n].session, 0)'
                    /\ storage'[n].messages # <<>> =>
                         /\ storage'[n].session \in Created'
                         /\ mode' = "demo" => owner'[storage'[n].session] = n
  BY DEF StorageSound, KeptSound
<1> DEFINE kept == storage'[n]
<1>1. KeptSound(n, kept)
  BY DEF StorageSound
<1>2. CASE kept.messages = <<>>
  <2>1. <<>> \in Seq(ScreenMessage) /\ Ascending(<<>>) /\ ToSet(<<>>) = {}
    BY EmptyScreen DEF ScreenOf
  <2>2. ScreenOf(storage[n].messages, storage[n].session, 0)'
    BY <1>2, <2>1 DEF ScreenOf
  <2> QED
    BY <1>1, <1>2, <2>2 DEF KeptSound
<1>3. CASE kept.messages # <<>>
  <2>1. kept.session \in Sessions /\ kept.session \in Created
    BY <1>1, <1>3 DEF KeptSound, Created
  <2>2. ScreenOf(storage[n].messages, storage[n].session, 0)'
    BY <1>1, <2>1, ScreenKept DEF KeptSound
  <2> QED
    BY <1>1, <1>3, <2>1, <2>2 DEF KeptSound, Grows
<1> QED
  BY <1>2, <1>3

\* What Store writes is sound when the screen it is given is.
LEMMA Stores ==
  ASSUME ServerTyped, StorageSound(storage), NEW n \in Names, NEW s \in Created,
         mode = "demo" => owner[s] = n,
         NEW k, NEW q, ScreenOf(q, s, k), Store(n, s, q)
  PROVE  StorageSound(storage')
<1> DEFINE r == Filter(q, {m \in ToSet(q) : ~IsLocal(m)})
<1>1. ScreenOf(r, s, 0)
  BY StoredPart
<1>2. s \in Sessions
  BY DEF Created
<1>3. storage' = IF mode = "demo" THEN [storage EXCEPT ![n] = [session |-> s, messages |-> r]]
                                  ELSE storage
  BY DEF Store
<1> HIDE DEF r
<1>4. KeptSound(n, [session |-> s, messages |-> r])
  BY <1>1, <1>2 DEF KeptSound, KeptRecord, ScreenOf
<1> QED
  BY <1>3, <1>4 DEF StorageSound

\* A screen of an open conversation.
OpenPage(p) == PageSound(p) /\ p.session # NoSession

\* What is known of a page with an open conversation.
LEMMA OpenPageFacts ==
  ASSUME ServerTyped, NEW p, OpenPage(p)
  PROVE  /\ p.session \in Sessions /\ p.session \in Created /\ p.name \in Names /\ p.send \in Nat
         /\ p.screen \in Seq(ScreenMessage) /\ p.held \in Seq(ScreenMessage) /\ p \in PageRecord
         /\ mode = "demo" => owner[p.session] = p.name
         /\ ScreenOf(p.screen, p.session, p.send) /\ Fits(p.screen, p.session)
         /\ \A m \in ToSet(p.held) : IsSaved(p.session, m) /\ m.from = "BOT"
BY BoundsAreNumbers DEF OpenPage, PageSound, PageRecord

\* Another screen of the same conversation.
LEMMA AnotherScreen ==
  ASSUME ServerTyped, NEW p, OpenPage(p), NEW q, ScreenOf(q, p.session, p.send), Fits(q, p.session)
  PROVE  OpenPage([p EXCEPT !.screen = q])
<1>1. [p EXCEPT !.screen = q] \in PageRecord
  BY DEF OpenPage, PageSound, PageRecord, ScreenOf
<1> QED
  BY <1>1 DEF OpenPage, PageSound, PageRecord

\* stopBotTyping drops what is held back and leaves the screen.
LEMMA StoppedFacts ==
  ASSUME ServerTyped, NEW p, OpenPage(p)
  PROVE  /\ OpenPage(StopBotTyping(p))
         /\ StopBotTyping(p).session = p.session /\ StopBotTyping(p).name = p.name
         /\ StopBotTyping(p).screen = p.screen /\ StopBotTyping(p).send = p.send
         /\ StopBotTyping(p).held = <<>> /\ StopBotTyping(p).start = p.start
         /\ ~StopBotTyping(p).typing
<1>0. /\ <<>> \in Seq(ScreenMessage) /\ ToSet(<<>>) = {} /\ p \in PageRecord
  BY EmptyScreen DEF ScreenOf, OpenPage, PageSound
<1>1. StopBotTyping(p) \in PageRecord
  BY <1>0 DEF PageRecord, StopBotTyping
<1>2. /\ StopBotTyping(p).session = p.session /\ StopBotTyping(p).name = p.name
      /\ StopBotTyping(p).screen = p.screen /\ StopBotTyping(p).send = p.send
      /\ StopBotTyping(p).held = <<>> /\ StopBotTyping(p).start = p.start
      /\ ~StopBotTyping(p).typing
  BY <1>0 DEF PageRecord, StopBotTyping
<1> QED
  BY <1>0, <1>1, <1>2 DEF OpenPage, PageSound

\* Saved messages of the open conversation come in.
LEMMA AppendFacts ==
  ASSUME ServerTyped, StorageSound(storage), NEW p, OpenPage(p), LogFits(p.session),
         NEW messages \in Seq(ScreenMessage), \A m \in ToSet(messages) : IsSaved(p.session, m),
         AppendRealtimeMessages(p, messages)
  PROVE  /\ OpenPage(page') /\ StorageSound(storage')
         /\ page' = [p EXCEPT !.screen = page'.screen]
         /\ \A n \in ToSet(p.screen) : ~IsLocal(n) => n \in ToSet(page'.screen)
<1> DEFINE r == MergeRealtimeMessages(p.screen, messages)
<1>1. /\ ScreenOf(r, p.session, p.send) /\ Fits(r, p.session)
      /\ \A n \in ToSet(p.screen) : ~IsLocal(n) => n \in ToSet(r)
  BY OpenPageFacts, EchoesFacts
<1>2. page' = [p EXCEPT !.screen = r] /\ (storage' = storage \/ Store(p.name, p.session, r))
  BY DEF AppendRealtimeMessages
<1> HIDE DEF r
<1>3. OpenPage(page')
  BY <1>1, <1>2, AnotherScreen
<1>4. StorageSound(storage')
  BY <1>1, <1>2, OpenPageFacts, Stores
<1>5. page'.screen = r
  BY <1>2, OpenPageFacts DEF PageRecord
<1> QED
  BY <1>1, <1>2, <1>3, <1>4, <1>5

\* What was held back is shown, and the typing indicator ends.
LEMMA FlushFacts ==
  ASSUME ServerTyped, StorageSound(storage), NEW p, OpenPage(p), LogFits(p.session),
         FlushPendingBotMessages(p)
  PROVE  /\ OpenPage(page') /\ StorageSound(storage')
         /\ page' = [StopBotTyping(p) EXCEPT !.screen = page'.screen]
         /\ \A n \in ToSet(p.screen) : ~IsLocal(n) => n \in ToSet(page'.screen)
<1> DEFINE q == StopBotTyping(p)
<1>1. OpenPage(q) /\ q.session = p.session /\ q.screen = p.screen
  BY StoppedFacts
<1>2. AppendRealtimeMessages(q, p.held)
  BY DEF FlushPendingBotMessages
<1>3. p.held \in Seq(ScreenMessage) /\ \A m \in ToSet(p.held) : IsSaved(q.session, m)
  BY <1>1, OpenPageFacts
<1> HIDE DEF q
<1>4. /\ OpenPage(page') /\ StorageSound(storage')
      /\ page' = [q EXCEPT !.screen = page'.screen]
      /\ \A n \in ToSet(q.screen) : ~IsLocal(n) => n \in ToSet(page'.screen)
  BY <1>1, <1>2, <1>3, AppendFacts
<1> QED
  BY <1>1, <1>4 DEF q

\* An answer is held back, or shown with what was.
LEMMA QueueFacts ==
  ASSUME ServerTyped, StorageSound(storage), NEW p, OpenPage(p), LogFits(p.session),
         NEW m, IsSaved(p.session, m), m.from = "BOT", NEW late, QueueBotMessage(p, m, late)
  PROVE  /\ OpenPage(page') /\ StorageSound(storage')
         /\ page'.session = p.session /\ page'.name = p.name /\ page'.send = p.send
         /\ page'.start = p.start
         /\ page'.timer \/ ~page'.typing
         /\ \A n \in ToSet(p.screen) : ~IsLocal(n) => n \in ToSet(page'.screen)
<1> DEFINE held == IF Contains(p.held, m) THEN p.held ELSE Append(p.held, m)
           q == [p EXCEPT !.held = held]
<1>1. m \in ScreenMessage
  BY OpenPageFacts, SavedMessage
<1>2. held \in Seq(ScreenMessage) /\ \A n \in ToSet(held) : IsSaved(p.session, n) /\ n.from = "BOT"
  <2>1. p.held \in Seq(ScreenMessage) /\ \A n \in ToSet(p.held) : IsSaved(p.session, n) /\ n.from = "BOT"
    BY OpenPageFacts
  <2>2. Append(p.held, m) \in Seq(ScreenMessage)
    BY <1>1, <2>1
  <2>3. ToSet(Append(p.held, m)) \subseteq ToSet(p.held) \cup {m}
    BY <1>1, <2>1, <2>2 DEF ToSet
  <2> QED
    BY <2>1, <2>2, <2>3
<1> HIDE DEF held
<1>3. /\ q \in PageRecord /\ [q EXCEPT !.timer = TRUE] \in PageRecord
      /\ [q EXCEPT !.timer = TRUE] = [p EXCEPT !.held = held, !.timer = TRUE]
      /\ OpenPage(q) /\ OpenPage([q EXCEPT !.timer = TRUE])
  <2>1. q \in PageRecord /\ [q EXCEPT !.timer = TRUE] \in PageRecord
    BY <1>2 DEF OpenPage, PageSound, PageRecord
  <2> QED
    BY <1>2, <2>1 DEF OpenPage, PageSound, PageRecord
<1>4. q.screen = p.screen /\ q.session = p.session /\ q.name = p.name /\ q.send = p.send /\ q.start = p.start
  BY OpenPageFacts DEF PageRecord
<1>5. \/ page' = [q EXCEPT !.timer = TRUE] /\ storage' = storage
      \/ FlushPendingBotMessages(q)
  BY <1>3 DEF QueueBotMessage, held
<1> HIDE DEF q
<1>6. CASE page' = [q EXCEPT !.timer = TRUE] /\ storage' = storage
  BY <1>3, <1>4, <1>6 DEF PageRecord
<1>7. CASE FlushPendingBotMessages(q)
  <2>1. /\ OpenPage(page') /\ StorageSound(storage')
        /\ page' = [StopBotTyping(q) EXCEPT !.screen = page'.screen]
        /\ \A n \in ToSet(q.screen) : ~IsLocal(n) => n \in ToSet(page'.screen)
    BY <1>3, <1>4, <1>7, FlushFacts
  <2> QED
    BY <1>3, <1>4, <2>1 DEF StopBotTyping, PageRecord
<1> QED
  BY <1>5, <1>6, <1>7

-----------------------------------------------------------------------------
(* The page's steps.                                                         *)

\* The form of a request for a session.
StartRecord ==
  [id : Nat, name : Names, fresh : BOOLEAN, session : {NoSession} \cup Sessions, since : Nat]

\* The requests for a session: the page waits for the latest, while none is open.
StartsSound(S, p) ==
  /\ \A r \in S :
       /\ r \in StartRecord
       /\ r.session # NoSession =>
            /\ r.session \in Created /\ r.since <= Len(log[r.session])
            /\ mode = "demo" => owner[r.session] = r.name
       /\ r.id <= p.start
       /\ r.id = p.start => r.name = p.name /\ p.session = NoSession
  /\ \A r, q \in S : r.id = q.id => r = q

\* What is on its way to the page belongs to the open conversation.
NetSound(p, y, w) ==
  /\ y \in [session : {NoSession} \cup Sessions, since : Nat]
  /\ y # NoSync => /\ y.session = p.session /\ p.session # NoSession
                   /\ y.since <= Len(log[p.session])
  /\ p.session = NoSession => w = {}
  /\ p.session # NoSession => w \subseteq 1..Len(log[p.session])

\* The customer's side: page, stored conversations, requests and the topic.
Sound(p, st, S, y, w) == PageSound(p) /\ StorageSound(st) /\ StartsSound(S, p) /\ NetSound(p, y, w)

\* The customer's side before a step, and after it with the server as it was.
SoundNow == Sound(page, storage, starts, sync, wire)
SoundNext == Sound(page', storage', starts', sync', wire')

\* What a step may do to the screen and to the typing indicator.
SavedStays ==
  \A m \in ToSet(page.screen) :
    ~IsLocal(m) /\ page'.session = page.session /\ sync' = sync /\ mishaps' = mishaps
      => m \in ToSet(page'.screen)

\* After the step the indicator is off, or its timer runs.
IndicatorEnded == page'.timer \/ ~page'.typing

\* The step leaves the indicator to what it waited for.
IndicatorKept ==
  /\ page'.session = page.session /\ page'.name = page.name
  /\ page'.typing => page.typing
  /\ page.timer => page'.timer

\* What the steps of the page do.
PageStep == SoundNext /\ SavedStays /\ (IndicatorEnded \/ IndicatorKept) /\ page'.send = page.send

\* A conversation that opens: its messages, its request and its topic.
LEMMA OpenedFacts ==
  ASSUME ServerTyped, NEW p \in PageRecord, p.name \in Names, NEW s \in Created,
         mode = "demo" => owner[s] = p.name,
         LogFits(s), NEW messages, ScreenOf(messages, s, 0), Opened(p, s, messages)
  PROVE  /\ PageSound(page') /\ NetSound(page', sync', wire')
         /\ page'.session = s /\ s # NoSession /\ page'.name = p.name /\ page'.start = p.start
         /\ page'.send = p.send /\ ~page'.typing
<1>1. s \in Sessions /\ s # NoSession /\ p.send \in Nat /\ Len(log[s]) \in Nat
  BY BoundsAreNumbers DEF Created, Sessions, NoSession, PageRecord, ServerTyped
<1>2. ScreenOf(messages, s, p.send) /\ Fits(messages, s) /\ messages \in Seq(ScreenMessage)
  BY <1>1, SavedScreen DEF ScreenOf
<1>3. <<>> \in Seq(ScreenMessage) /\ ToSet(<<>>) = {}
  BY EmptyScreen DEF ScreenOf
<1>4. page' = [p EXCEPT !.typing = FALSE, !.held = <<>>, !.timer = FALSE, !.session = s,
                        !.screen = messages, !.failed = FALSE, !.sending = FALSE]
  BY DEF Opened, StopBotTyping, PageRecord
<1>5. /\ page' \in PageRecord
      /\ page'.session = s /\ page'.name = p.name /\ page'.start = p.start
      /\ page'.send = p.send /\ page'.screen = messages /\ page'.held = <<>> /\ ~page'.typing
  BY <1>1, <1>2, <1>3, <1>4 DEF PageRecord
<1>6. PageSound(page')
  BY <1>1, <1>2, <1>3, <1>5 DEF PageSound
<1>7. NetSound(page', sync', wire')
  BY <1>1, <1>5 DEF NetSound, Opened
<1> QED
  BY <1>1, <1>5, <1>6, <1>7

\* A page without a conversation.
LEMMA LeftFacts ==
  ASSUME NEW p \in PageRecord, Left(p)
  PROVE  /\ PageSound(page') /\ NetSound(page', sync', wire')
         /\ page'.session = NoSession /\ page'.name = p.name /\ page'.start = p.start
         /\ page'.send = p.send /\ ~page'.typing /\ page'.screen = <<>>
<1>3. <<>> \in Seq(ScreenMessage)
  BY EmptyScreen DEF ScreenOf
<1>4. page' = [p EXCEPT !.typing = FALSE, !.held = <<>>, !.timer = FALSE, !.session = NoSession,
                        !.screen = <<>>, !.failed = FALSE, !.sending = FALSE]
  BY DEF Left, StopBotTyping, PageRecord
<1>5. /\ page' \in PageRecord
      /\ page'.session = NoSession /\ page'.name = p.name /\ page'.start = p.start
      /\ page'.send = p.send /\ page'.screen = <<>> /\ page'.held = <<>> /\ ~page'.typing
      /\ ~page'.timer
  BY <1>3, <1>4 DEF PageRecord
<1>6. NetSound(page', sync', wire')
  BY <1>5 DEF NetSound, Left, NoSync, NoSession
<1> QED
  BY <1>5, <1>6 DEF PageSound

\* The fields of a new request for a session.
LEMMA AskedFacts ==
  ASSUME NEW i \in Nat, NEW n \in Names, NEW fresh \in BOOLEAN
  PROVE  /\ Asked(i, n, fresh) \in StartRecord /\ Asked(i, n, fresh).session = NoSession
         /\ Asked(i, n, fresh).id = i /\ Asked(i, n, fresh).name = n
BY DEF Asked, StartRecord

\* One more request, under a number of its own.
LEMMA AskedOnce ==
  ASSUME NEW S, NEW p, NEW q, StartsSound(S, p), p.start \in Nat, q.start = p.start + 1,
         q.session = NoSession, q.name \in Names, NEW fresh \in BOOLEAN
  PROVE  StartsSound(S \cup {Asked(q.start, q.name, fresh)}, q)
<1> DEFINE a == Asked(q.start, q.name, fresh)
<1>1. a \in StartRecord /\ a.session = NoSession /\ a.id = q.start /\ a.name = q.name
  BY AskedFacts
<1>2. \A r \in S : r.id \in Nat /\ r.id < q.start
  BY DEF StartsSound, StartRecord
<1> HIDE DEF a
<1>3. StartsSound(S \cup {a}, q)
  BY <1>1, <1>2 DEF StartsSound
<1> QED
  BY <1>3 DEF a

\* A request already made is never the one a later page waits for.
LEMMA StartsOutdated ==
  ASSUME NEW S, NEW p, NEW q, StartsSound(S, p), p.start \in Nat, q.start \in Nat, q.start > p.start
  PROVE  StartsSound(S, q)
<1>1. \A r \in S : r.id \in Nat /\ r.id < q.start
  BY DEF StartsSound, StartRecord
<1> QED
  BY <1>1 DEF StartsSound

\* A name is given: the stored session is opened, or a session is asked for.
LEMMA StartSessionFacts ==
  ASSUME ServerTyped, \A s \in Sessions : LogFits(s), StorageSound(storage),
         NEW p \in PageRecord, NEW n \in Names, NEW S, StartsSound(S, p), StartSession(p, n, S)
  PROVE  /\ PageSound(page') /\ StartsSound(starts', page') /\ NetSound(page', sync', wire')
         /\ ~page'.typing /\ page'.send = p.send /\ page'.name = n
<1> DEFINE q == [p EXCEPT !.name = n, !.start = p.start + 1]
           kept == storage[n]
<1>1. /\ q \in PageRecord /\ q.name = n /\ q.start = p.start + 1 /\ q.start \in Nat /\ q.send = p.send
      /\ p.start \in Nat
  <2>1. p.start \in Nat /\ p.start + 1 \in Nat
    BY DEF PageRecord
  <2>2. q \in PageRecord
    BY <2>1 DEF PageRecord
  <2> QED
    BY <2>1, <2>2 DEF PageRecord
<1>2. KeptSound(n, kept)
  BY DEF StorageSound
<1>3. \/ /\ mode = "demo" /\ kept.messages # <<>>
         /\ Opened(q, kept.session, kept.messages) /\ starts' = S
      \/ Left(q) /\ starts' = S \cup {Asked(q.start, q.name, FALSE)}
  BY <1>1 DEF StartSession
<1> HIDE DEF q, kept
<1>4. CASE /\ mode = "demo" /\ kept.messages # <<>>
           /\ Opened(q, kept.session, kept.messages) /\ starts' = S
  <2>1. /\ kept.session \in Created /\ kept.session \in Sessions /\ owner[kept.session] = n
        /\ ScreenOf(kept.messages, kept.session, 0)
    BY <1>2, <1>4 DEF KeptSound, Created
  <2>2. /\ PageSound(page') /\ NetSound(page', sync', wire')
        /\ page'.start = q.start /\ page'.name = q.name /\ page'.send = q.send /\ ~page'.typing
    BY <1>1, <1>4, <2>1, OpenedFacts
  <2>3. StartsSound(S, page')
    BY <1>1, <2>2, StartsOutdated
  <2> QED
    BY <1>1, <1>4, <2>2, <2>3
<1>5. CASE Left(q) /\ starts' = S \cup {Asked(q.start, q.name, FALSE)}
  <2>1. /\ PageSound(page') /\ NetSound(page', sync', wire') /\ page'.session = NoSession
        /\ page'.start = q.start /\ page'.name = q.name /\ page'.send = q.send /\ ~page'.typing
    BY <1>1, <1>5, LeftFacts
  <2>2. StartsSound(S \cup {Asked(page'.start, page'.name, FALSE)}, page')
    BY <1>1, <2>1, AskedOnce
  <2> QED
    BY <1>1, <1>5, <2>1, <2>2
<1> QED
  BY <1>3, <1>4, <1>5

\* The form of a message on its way.
SendRecord ==
  [id : Nat, session : Sessions, name : Names, text : Texts,
   stage : {"sent", "generating", "refused", "saved"}, from : Nat, upTo : Nat, waits : BOOLEAN]

\* The first of the first k messages typed, on their way; an answer's messages
\* are the log's, and begin with the one it answers.
SendsSound(S, k) ==
  /\ IsFiniteSet(S)
  /\ \A r \in S :
       /\ r \in SendRecord
       /\ r.session \in Created
       /\ r.id \in 1..k
       /\ mode = "authenticated" => r.stage = "sent"
       /\ r.stage = "saved" =>
            /\ 1 <= r.from /\ r.from <= r.upTo /\ r.upTo <= Len(log[r.session])
            /\ log[r.session][r.from] = [from |-> "USER", text |-> r.text]

\* What the steps of the page start from.
Ready == ServerTyped /\ SoundNow /\ SendsSound(sends, page.send) /\ mishaps \in Nat /\ \A s \in Sessions : LogFits(s)

\* The fields of a fresh page.
LEMMA FreshPageFacts ==
  ASSUME NEW i \in Nat, NEW k \in 0..MaxTyped
  PROVE  FreshPage(NoName, i, k) \in PageRecord /\ FreshPage(NoName, i, k).start = i
         /\ FreshPage(NoName, i, k).send = k
<1>1. <<>> \in Seq(ScreenMessage)
  OBVIOUS
<1> QED
  BY <1>1 DEF FreshPage, PageRecord

\* What SoundNow says of the page.
LEMMA PageFields ==
  ASSUME SoundNow
  PROVE  /\ page \in PageRecord /\ page.start \in Nat /\ page.send \in 0..MaxTyped
         /\ page.session # NoSession => OpenPage(page)
         /\ page.session = NoSession => page.screen = <<>> /\ ToSet(page.screen) = {}
BY EmptyScreen DEF SoundNow, Sound, PageSound, PageRecord, OpenPage

\* The steps of the page, one lemma each.
LEMMA LoadPageStep ==
  ASSUME Ready, NEW n \in Names, LoadPage(n)
  PROVE  PageStep /\ IndicatorEnded
<1> DEFINE p == FreshPage(NoName, 0, page.send)
<1>1. p \in PageRecord /\ p.send = page.send
  BY PageFields, FreshPageFacts DEF Ready
<1>2. StartsSound({}, p)
  BY DEF StartsSound
<1>3. StartSession(p, n, {}) /\ mishaps' = mishaps + 1 /\ storage' = storage
  BY DEF LoadPage, Mishap
<1> HIDE DEF p
<1>4. /\ PageSound(page') /\ StartsSound(starts', page') /\ NetSound(page', sync', wire')
      /\ ~page'.typing /\ page'.send = p.send
  BY <1>1, <1>2, <1>3, StartSessionFacts DEF Ready, SoundNow, Sound
<1> QED
  BY <1>1, <1>3, <1>4
     DEF Ready, SoundNow, Sound, PageStep, SoundNext, SavedStays, IndicatorEnded

LEMMA NavigateStep ==
  ASSUME Ready, NEW n \in Names, Navigate(n)
  PROVE  PageStep
<1> DEFINE p == FreshPage(NoName, page.start + 1, page.send)
<1>1. p \in PageRecord /\ p.send = page.send /\ p.start = page.start + 1 /\ p.start \in Nat /\ page.start \in Nat
  <2>1. page.start + 1 \in Nat /\ page.start \in Nat /\ page.send \in 0..MaxTyped
    BY PageFields DEF Ready
  <2> QED
    BY <2>1, FreshPageFacts
<1>3. StartSession(p, n, starts) /\ mishaps' = mishaps + 1 /\ storage' = storage
  BY DEF Navigate, Mishap
<1> HIDE DEF p
<1>2. StartsSound(starts, p)
  BY <1>1, StartsOutdated DEF Ready, SoundNow, Sound
<1>4. /\ PageSound(page') /\ StartsSound(starts', page') /\ NetSound(page', sync', wire')
      /\ ~page'.typing /\ page'.send = p.send
  BY <1>1, <1>2, <1>3, StartSessionFacts DEF Ready, SoundNow, Sound
<1> QED
  BY <1>1, <1>3, <1>4
     DEF Ready, SoundNow, Sound, PageStep, SoundNext, SavedStays, IndicatorEnded

LEMMA HandleNameSubmitStep ==
  ASSUME Ready, NEW n \in Names, HandleNameSubmit(n)
  PROVE  PageStep
<1>1. page \in PageRecord /\ ToSet(page.screen) = {}
  <2>1. page.session = NoSession
    BY ChatNamesAssumption DEF HandleNameSubmit, Ready, SoundNow, Sound, PageSound
  <2> QED
    BY <2>1, PageFields DEF Ready
<1>3. StartSession(page, n, starts) /\ storage' = storage
  BY DEF HandleNameSubmit
<1>4. /\ PageSound(page') /\ StartsSound(starts', page') /\ NetSound(page', sync', wire')
      /\ ~page'.typing /\ page'.send = page.send
  BY <1>1, <1>3, StartSessionFacts DEF Ready, SoundNow, Sound
<1> QED
  BY <1>1, <1>3, <1>4
     DEF Ready, SoundNow, Sound, PageStep, SoundNext, SavedStays, IndicatorEnded

LEMMA HandleStartNewSessionStep ==
  ASSUME Ready, HandleStartNewSession
  PROVE  PageStep
<1> DEFINE p == [page EXCEPT !.start = page.start + 1]
<1>1. page \in PageRecord /\ page.start \in Nat /\ page.name \in Names /\ page.session # NoSession
  BY PageFields DEF HandleStartNewSession, Ready, SoundNow, Sound, PageSound
<1>2. /\ p \in PageRecord /\ p.send = page.send /\ p.name = page.name /\ p.start = page.start + 1
  BY <1>1 DEF PageRecord
<1>3. Left(p) /\ starts' = starts \cup {Asked(p.start, p.name, TRUE)} /\ storage' = storage
  BY <1>2 DEF HandleStartNewSession
<1> HIDE DEF p
<1>4. /\ PageSound(page') /\ NetSound(page', sync', wire') /\ page'.session = NoSession
      /\ page'.start = p.start /\ page'.name = p.name /\ page'.send = p.send /\ ~page'.typing
  BY <1>2, <1>3, LeftFacts
<1>5. StartsSound(starts \cup {Asked(page'.start, page'.name, TRUE)}, page')
  BY <1>1, <1>2, <1>4, AskedOnce DEF Ready, SoundNow, Sound
<1> QED
  BY <1>1, <1>2, <1>3, <1>4, <1>5
     DEF Ready, SoundNow, Sound, PageStep, SoundNext, SavedStays, IndicatorEnded

LEMMA HandleResetToNameFormStep ==
  ASSUME Ready, HandleResetToNameForm
  PROVE  PageStep
<1> DEFINE p == [page EXCEPT !.start = page.start + 1, !.name = NoName]
<1>1. page \in PageRecord /\ page.start \in Nat
  BY PageFields DEF Ready
<1>2. /\ p \in PageRecord /\ p.send = page.send /\ p.start = page.start + 1 /\ p.start \in Nat
  <2>1. page.start + 1 \in Nat
    BY <1>1
  <2>2. p \in PageRecord
    BY <1>1, <2>1 DEF PageRecord
  <2> QED
    BY <1>1, <2>1, <2>2 DEF PageRecord
<1>3. Left(p) /\ starts' = starts /\ storage' = storage
  BY DEF HandleResetToNameForm
<1> HIDE DEF p
<1>4. /\ PageSound(page') /\ NetSound(page', sync', wire') /\ page'.session = NoSession
      /\ page'.start = p.start /\ page'.send = p.send /\ ~page'.typing
  BY <1>2, <1>3, LeftFacts
<1>5. StartsSound(starts, page')
  BY <1>1, <1>2, <1>4, StartsOutdated DEF Ready, SoundNow, Sound
<1>6. page.session = NoSession => ToSet(page.screen) = {}
  BY PageFields DEF Ready
<1> QED
  BY <1>2, <1>3, <1>4, <1>5, <1>6
     DEF Ready, SoundNow, Sound, PageStep, SoundNext, SavedStays, IndicatorEnded

\* Fewer requests.
LEMMA StartsFewer ==
  ASSUME NEW S, NEW p, StartsSound(S, p), NEW T, T \subseteq S
  PROVE  StartsSound(T, p)
BY DEF StartsSound

LEMMA SessionArrivesStep ==
  ASSUME Ready, NEW r \in starts, SessionArrives(r)
  PROVE  PageStep
<1>1. /\ r.session \in Created /\ r.session \in Sessions /\ (mode = "demo" => owner[r.session] = r.name)
      /\ r.name \in Names /\ r.since \in Nat
  BY DEF Ready, SoundNow, Sound, StartsSound, StartRecord, SessionArrives, Created
<1>2. starts' = starts \ {r}
  BY DEF SessionArrives
<1>3. PICK messages \in IF mode = "demo" THEN Snapshots(r.session, r.since) ELSE {<<>>} :
        /\ Store(r.name, r.session, messages)
        /\ IF r.id = page.start THEN Opened(page, r.session, messages)
                                ELSE UNCHANGED <<page, sync, wire>>
  BY DEF SessionArrives
<1>4. ScreenOf(messages, r.session, 0)
  <2>1. CASE mode = "demo"
    BY <1>1, <1>3, <2>1, SnapshotsFacts DEF Ready
  <2>2. CASE mode # "demo"
    BY <2>2, EmptyScreen
  <2> QED
    BY <2>1, <2>2
<1>5. StorageSound(storage')
  BY <1>1, <1>3, <1>4, Stores DEF Ready, SoundNow, Sound
<1>6. CASE r.id = page.start
  <2>1. r.name = page.name /\ page.session = NoSession
    BY <1>6 DEF Ready, SoundNow, Sound, StartsSound
  <2>2. /\ PageSound(page') /\ NetSound(page', sync', wire')
        /\ page'.session = r.session /\ page'.start = page.start /\ page'.send = page.send
        /\ page'.session # NoSession /\ ~page'.typing
    BY <1>1, <1>3, <1>4, <1>6, <2>1, PageFields, OpenedFacts DEF Ready
  <2>3. \A q \in starts \ {r} : q.id <= page.start /\ q.id # page.start
    BY <1>6 DEF Ready, SoundNow, Sound, StartsSound
  <2>4. StartsSound(starts', page')
    BY <1>2, <2>2, <2>3 DEF Ready, SoundNow, Sound, StartsSound
  <2> QED
    BY <1>5, <2>1, <2>2, <2>4 DEF PageStep, SoundNext, Sound, SavedStays, IndicatorEnded
<1>7. CASE r.id # page.start
  <2>1. UNCHANGED <<page, sync, wire>>
    BY <1>3, <1>7
  <2>2. StartsSound(starts', page)
    BY <1>2, StartsFewer DEF Ready, SoundNow, Sound
  <2> QED
    BY <1>5, <2>1, <2>2 DEF Ready, SoundNow, PageStep, SoundNext, Sound, SavedStays, IndicatorKept
<1> QED
  BY <1>6, <1>7

\* A step that changes the screen of the open conversation and what is stored for it.
LEMMA ShownStep ==
  ASSUME Ready, OpenPage(page), OpenPage(page'), StorageSound(storage'),
         page'.session = page.session, page'.name = page.name, page'.start = page.start,
         starts' = starts, sync' \in {sync, NoSync}, wire' \subseteq wire
  PROVE  SoundNext
<1>1. StartsSound(starts', page')
  BY DEF Ready, SoundNow, Sound, StartsSound
<1>2. NetSound(page', sync', wire')
  BY DEF Ready, SoundNow, Sound, NetSound, NoSync, NoSession
<1> QED
  BY <1>1, <1>2 DEF SoundNext, Sound, OpenPage

LEMMA StartFailsStep ==
  ASSUME Ready, NEW r \in starts, StartFails(r)
  PROVE  PageStep
<1>1. page \in PageRecord
  BY PageFields DEF Ready
<1>2. /\ page' \in PageRecord /\ page'.session = page.session /\ page'.name = page.name
      /\ page'.start = page.start /\ page'.send = page.send /\ page'.screen = page.screen
      /\ page'.held = page.held /\ page'.typing = page.typing /\ page'.timer = page.timer
  BY <1>1 DEF StartFails, PageRecord
<1>3. starts' = starts \ {r} /\ storage' = storage /\ sync' = sync /\ wire' = wire
  BY DEF StartFails
<1>4. PageSound(page')
  BY <1>2 DEF Ready, SoundNow, Sound, PageSound
<1>5. NetSound(page', sync', wire')
  BY <1>2, <1>3 DEF Ready, SoundNow, Sound, NetSound
<1>6. StartsSound(starts', page')
  BY <1>2, <1>3 DEF Ready, SoundNow, Sound, StartsSound
<1> QED
  BY <1>2, <1>3, <1>4, <1>5, <1>6
     DEF Ready, SoundNow, PageStep, SoundNext, Sound, SavedStays, IndicatorKept

LEMMA TypingTimeoutStep ==
  ASSUME Ready, TypingTimeout
  PROVE  PageStep
<1>1. OpenPage(page) /\ LogFits(page.session) /\ StorageSound(storage)
  BY PageFields DEF TypingTimeout, Ready, SoundNow, Sound, OpenPage, PageSound, Created
<1>2. FlushPendingBotMessages(page) /\ starts' = starts /\ sync' = sync /\ wire' = wire
  BY DEF TypingTimeout, chatNet
<1>3. /\ OpenPage(page') /\ StorageSound(storage')
      /\ page' = [StopBotTyping(page) EXCEPT !.screen = page'.screen]
      /\ \A n \in ToSet(page.screen) : ~IsLocal(n) => n \in ToSet(page'.screen)
  BY <1>1, <1>2, FlushFacts DEF Ready
<1>4. /\ page'.session = page.session /\ page'.name = page.name /\ page'.start = page.start
      /\ page'.send = page.send /\ ~page'.typing
  <2>1. StopBotTyping(page) \in PageRecord
    BY <1>1, StoppedFacts DEF Ready, OpenPage, PageSound
  <2> QED
    BY <1>1, <1>3, <2>1, StoppedFacts DEF Ready, PageRecord
<1>5. SoundNext
  BY <1>1, <1>2, <1>3, <1>4, ShownStep
<1> QED
  BY <1>3, <1>4, <1>5 DEF PageStep, SavedStays, IndicatorEnded

LEMMA SnapshotArrivesStep ==
  ASSUME Ready, SnapshotArrives
  PROVE  PageStep
<1>1. /\ OpenPage(page) /\ LogFits(page.session) /\ StorageSound(storage)
      /\ sync.session = page.session /\ sync.since \in Nat /\ page.session \in Sessions
  BY PageFields DEF SnapshotArrives, Ready, SoundNow, Sound, OpenPage, PageSound, Created, NetSound
<1>2. PICK persisted \in Snapshots(sync.session, sync.since) :
        /\ page' = [page EXCEPT !.screen = MergePersistedMessagesWithPending(persisted, @)]
        /\ Store(page.name, page.session, persisted)
  BY DEF SnapshotArrives
<1> DEFINE q == MergePersistedMessagesWithPending(persisted, page.screen)
<1>3. ScreenOf(persisted, page.session, 0)
  BY <1>1, <1>2, SnapshotsFacts DEF Ready
<1>4. page \in PageRecord /\ page' = [page EXCEPT !.screen = q]
  BY <1>2, PageFields DEF Ready
<1>5. ScreenOf(q, page.session, page.send) /\ Fits(q, page.session)
  BY <1>1, <1>3, OpenPageFacts, PersistedFacts DEF Ready
<1> HIDE DEF q
<1>6. OpenPage(page')
  BY <1>1, <1>4, <1>5, AnotherScreen DEF Ready
<1>7. StorageSound(storage')
  BY <1>1, <1>2, <1>3, OpenPageFacts, Stores DEF Ready
<1>8. /\ page'.session = page.session /\ page'.name = page.name /\ page'.start = page.start
      /\ page'.send = page.send /\ page'.typing = page.typing /\ page'.timer = page.timer
  BY <1>4 DEF PageRecord
<1>9. sync' = NoSync /\ sync # NoSync /\ starts' = starts /\ wire' = wire
  BY DEF SnapshotArrives
<1>10. SoundNext
  BY <1>1, <1>6, <1>7, <1>8, <1>9, ShownStep
<1> QED
  BY <1>8, <1>9, <1>10 DEF PageStep, SavedStays, IndicatorKept

LEMMA SnapshotFailsStep ==
  ASSUME Ready, SnapshotFails
  PROVE  PageStep
<1>1. page' = page /\ storage' = storage /\ starts' = starts /\ wire' = wire /\ sync' = NoSync
  BY DEF SnapshotFails, chatPage
<1>2. NetSound(page', sync', wire')
  BY <1>1 DEF Ready, SoundNow, Sound, NetSound, NoSync, NoSession
<1> QED
  BY <1>1, <1>2 DEF Ready, SoundNow, PageStep, SoundNext, Sound, SavedStays, IndicatorKept

LEMMA DeliverStep ==
  ASSUME Ready, NEW i \in 1..MaxLog, Deliver(i)
  PROVE  PageStep
<1>1. /\ OpenPage(page) /\ LogFits(page.session) /\ StorageSound(storage) /\ page.session \in Sessions
      /\ i \in 1..Len(log[page.session])
  BY PageFields DEF Deliver, Ready, SoundNow, Sound, OpenPage, PageSound, Created, NetSound
<1> DEFINE m == Saved(page.session, i)
<1>2. m \in ScreenMessage /\ IsSaved(page.session, m)
  BY <1>1, SavedFacts DEF Ready
<1>3. wire' \subseteq wire /\ starts' = starts /\ sync' = sync
  BY DEF Deliver
<1>4. \/ m.from = "BOT" /\ \E late \in BOOLEAN : QueueBotMessage(page, m, late)
      \/ AppendRealtimeMessages(StopBotTyping(page), <<m>>)
      \/ AppendRealtimeMessages(page, <<m>>)
  BY DEF Deliver
<1> HIDE DEF m
<1>5. CASE m.from = "BOT" /\ \E late \in BOOLEAN : QueueBotMessage(page, m, late)
  <2>1. PICK late \in BOOLEAN : QueueBotMessage(page, m, late)
    BY <1>5
  <2>2. /\ OpenPage(page') /\ StorageSound(storage')
        /\ page'.session = page.session /\ page'.name = page.name /\ page'.send = page.send
        /\ page'.start = page.start
        /\ page'.timer \/ ~page'.typing
        /\ \A n \in ToSet(page.screen) : ~IsLocal(n) => n \in ToSet(page'.screen)
    BY <1>1, <1>2, <1>5, <2>1, QueueFacts DEF Ready
  <2>3. SoundNext
    BY <1>1, <1>3, <2>2, ShownStep
  <2> QED
    BY <2>2, <2>3 DEF PageStep, SavedStays, IndicatorEnded
<1>6. <<m>> \in Seq(ScreenMessage) /\ \A n \in ToSet(<<m>>) : IsSaved(page.session, n)
  <2>1. <<m>> \in Seq(ScreenMessage) /\ DOMAIN <<m>> = {1} /\ <<m>>[1] = m
    BY <1>2
  <2> QED
    BY <1>2, <2>1 DEF ToSet
<1>7. CASE AppendRealtimeMessages(StopBotTyping(page), <<m>>)
  <2> DEFINE p == StopBotTyping(page)
  <2>1. /\ OpenPage(p) /\ p.session = page.session /\ p.name = page.name /\ p.screen = page.screen
        /\ p.send = page.send /\ p.start = page.start /\ ~p.typing
    BY <1>1, StoppedFacts DEF Ready
  <2> HIDE DEF p
  <2>2. /\ OpenPage(page') /\ StorageSound(storage') /\ page' = [p EXCEPT !.screen = page'.screen]
        /\ \A n \in ToSet(p.screen) : ~IsLocal(n) => n \in ToSet(page'.screen)
    BY <1>1, <1>6, <1>7, <2>1, AppendFacts DEF Ready, p
  <2>3. /\ page'.session = page.session /\ page'.name = page.name /\ page'.start = page.start
        /\ page'.send = page.send /\ ~page'.typing
    BY <2>1, <2>2, OpenPageFacts DEF Ready, PageRecord
  <2>4. SoundNext
    BY <1>1, <1>3, <2>2, <2>3, ShownStep
  <2> QED
    BY <2>1, <2>2, <2>3, <2>4 DEF PageStep, SavedStays, IndicatorEnded
<1>8. CASE AppendRealtimeMessages(page, <<m>>)
  <2>2. /\ OpenPage(page') /\ StorageSound(storage') /\ page' = [page EXCEPT !.screen = page'.screen]
        /\ \A n \in ToSet(page.screen) : ~IsLocal(n) => n \in ToSet(page'.screen)
    BY <1>1, <1>6, <1>8, AppendFacts DEF Ready
  <2>3. /\ page'.session = page.session /\ page'.name = page.name /\ page'.start = page.start
        /\ page'.send = page.send /\ page'.typing = page.typing /\ page'.timer = page.timer
    BY <1>1, <2>2, OpenPageFacts DEF Ready, PageRecord
  <2>4. SoundNext
    BY <1>1, <1>3, <2>2, <2>3, ShownStep
  <2> QED
    BY <2>2, <2>3, <2>4 DEF PageStep, SavedStays, IndicatorKept
<1> QED
  BY <1>4, <1>5, <1>7, <1>8

\* The end of a request changes no more than sending.
LEMMA SettledFacts ==
  ASSUME ServerTyped, NEW p, OpenPage(p), NEW r
  PROVE  /\ OpenPage(Settled(p, r))
         /\ Settled(p, r).session = p.session /\ Settled(p, r).name = p.name
         /\ Settled(p, r).screen = p.screen /\ Settled(p, r).send = p.send
         /\ Settled(p, r).start = p.start /\ Settled(p, r).typing = p.typing
         /\ Settled(p, r).timer = p.timer
<1>1. p \in PageRecord
  BY DEF OpenPage, PageSound
<1>2. Settled(p, r) \in PageRecord
  BY <1>1 DEF Settled, PageRecord
<1>3. /\ Settled(p, r).session = p.session /\ Settled(p, r).name = p.name
      /\ Settled(p, r).screen = p.screen /\ Settled(p, r).send = p.send
      /\ Settled(p, r).start = p.start /\ Settled(p, r).typing = p.typing
      /\ Settled(p, r).timer = p.timer /\ Settled(p, r).held = p.held
  BY <1>1 DEF Settled, PageRecord
<1> QED
  BY <1>2, <1>3 DEF OpenPage, PageSound

\* The screen as one of a page: the other fields stay.
LEMMA OtherScreenFields ==
  ASSUME NEW p \in PageRecord, NEW q
  PROVE  LET o == [p EXCEPT !.screen = q]
         IN  /\ o.session = p.session /\ o.name = p.name /\ o.send = p.send /\ o.start = p.start
             /\ o.typing = p.typing /\ o.timer = p.timer /\ o.screen = q
BY DEF PageRecord

\* The answer to a message that is no longer the open conversation's changes nothing.
LEMMA NotCurrent ==
  ASSUME Ready, page' = page, storage' = storage, starts' = starts, sync' = sync, wire' = wire
  PROVE  PageStep
BY DEF Ready, SoundNow, PageStep, SoundNext, SavedStays, IndicatorKept

\* The demo's answer: what was saved is shown, the bot's messages are queued.
LEMMA SendAnsweredStep ==
  ASSUME Ready, NEW r \in sends, SendAnswered(r)
  PROVE  /\ PageStep
         /\ IF IsCurrentConversation(r.session, r.name) THEN IndicatorEnded ELSE page' = page
<1>0. starts' = starts /\ sync' = sync /\ wire' = wire
  BY DEF SendAnswered
<1>1. CASE ~IsCurrentConversation(r.session, r.name)
  <2>1. page' = page /\ storage' = storage
    BY <1>1 DEF SendAnswered
  <2> QED
    BY <1>0, <1>1, <2>1, NotCurrent
<1>2. CASE IsCurrentConversation(r.session, r.name)
  <2> DEFINE s == page.session
             answer == Sorted(SavedFrom(s, r.from, r.upTo))
             bots == Filter(answer, {m \in ToSet(answer) : m.from = "BOT"})
             others == Without(answer, ToSet(bots))
             shown == MergeRealtimeMessages(page.screen, others)
             q == [page EXCEPT !.screen = shown]
             p == Settled(q, r)
  <2>1. s = r.session /\ s \in Sessions /\ s \in Created /\ s # NoSession
    <3>1. s = r.session /\ r.session \in Created
      BY <1>2 DEF IsCurrentConversation, Ready, SendsSound
    <3>2. \A x \in Created : x \in Sessions /\ x # NoSession
      BY BoundsAreNumbers DEF Created, Sessions, NoSession
    <3> HIDE DEF s
    <3> QED
      BY <3>1, <3>2
  <2>2. OpenPage(page) /\ LogFits(s) /\ StorageSound(storage) /\ ServerTyped
    BY <2>1, PageFields DEF Ready, SoundNow, Sound
  <2>3. /\ r.stage = "saved" /\ r.from \in Nat /\ r.upTo \in Nat /\ r.from >= 1
        /\ r.upTo <= Len(log[s])
    BY <2>1 DEF SendAnswered, Ready, SendsSound, SendRecord
  <2>4. ScreenOf(answer, s, 0)
    BY <2>1, <2>2, <2>3, SavedRange
  <2>5. IF bots = <<>>
        THEN page' = StopBotTyping(p) /\ Store(p.name, p.session, p.screen)
        ELSE \E late \in BOOLEAN : QueueBotMessage(p, Head(bots), late)
    BY <1>2, <2>1 DEF SendAnswered, SavedFrom
  <2> HIDE DEF answer
  <2>6. ScreenOf(bots, s, 0) /\ \A m \in ToSet(bots) : IsSaved(s, m) /\ m.from = "BOT"
    <3>1. ScreenOf(bots, s, 0) /\ ToSet(bots) = ToSet(answer) \cap {m \in ToSet(answer) : m.from = "BOT"}
      BY <2>4, PartOfScreen
    <3> QED
      BY <2>1, <2>2, <2>4, <3>1, SavedScreen
  <2>7. others \in Seq(ScreenMessage) /\ \A m \in ToSet(others) : IsSaved(s, m)
    <3>1. ScreenOf(others, s, 0)
      BY <2>4, PartOfScreen DEF Without
    <3> QED
      BY <2>1, <2>2, <3>1, SavedScreen DEF ScreenOf
  <2> HIDE DEF bots, others
  <2>8. /\ ScreenOf(shown, s, page.send) /\ Fits(shown, s)
        /\ \A n \in ToSet(page.screen) : ~IsLocal(n) => n \in ToSet(shown)
    BY <2>1, <2>2, <2>7, OpenPageFacts, EchoesFacts
  <2> HIDE DEF shown
  <2>9. /\ OpenPage(q) /\ q.session = s /\ q.name = page.name /\ q.send = page.send
        /\ q.start = page.start /\ q.screen = shown
    <3>1. page \in PageRecord
      BY <2>2 DEF OpenPage, PageSound
    <3> QED
      BY <2>2, <2>8, <3>1, AnotherScreen, OtherScreenFields
  <2> HIDE DEF q
  <2>10. /\ OpenPage(p) /\ p.session = s /\ p.name = page.name /\ p.send = page.send
         /\ p.start = page.start /\ p.screen = shown
    BY <2>2, <2>9, SettledFacts
  <2> HIDE DEF p, s
  <2>11. CASE bots = <<>>
    <3>1. page' = StopBotTyping(p) /\ Store(p.name, p.session, p.screen)
      BY <2>5, <2>11
    <3>2. /\ OpenPage(page') /\ page'.session = p.session /\ page'.name = p.name
          /\ page'.screen = p.screen /\ page'.send = p.send /\ page'.start = p.start /\ ~page'.typing
      BY <2>2, <2>10, <3>1, StoppedFacts
    <3>3. StorageSound(storage')
      BY <2>2, <2>10, <3>1, OpenPageFacts, Stores
    <3>4. SoundNext
      BY <1>0, <2>2, <2>10, <3>2, <3>3, ShownStep DEF s
    <3> QED
      BY <1>2, <2>8, <2>10, <3>2, <3>4 DEF PageStep, SavedStays, IndicatorEnded
  <2>12. CASE bots # <<>>
    <3>1. PICK late \in BOOLEAN : QueueBotMessage(p, Head(bots), late)
      BY <2>5, <2>12
    <3>2. Head(bots) \in ToSet(bots)
      <4>1. bots \in Seq(ScreenMessage)
        BY <2>6 DEF ScreenOf
      <4>2. 1 \in 1..Len(bots) /\ Head(bots) = bots[1]
        BY <2>12, <4>1
      <4> QED
        BY <4>1, <4>2, Lists
    <3>3. /\ OpenPage(page') /\ StorageSound(storage')
          /\ page'.session = p.session /\ page'.name = p.name /\ page'.send = p.send
          /\ page'.start = p.start
          /\ page'.timer \/ ~page'.typing
          /\ \A n \in ToSet(p.screen) : ~IsLocal(n) => n \in ToSet(page'.screen)
      BY <2>2, <2>6, <2>10, <3>1, <3>2, QueueFacts
    <3>4. SoundNext
      BY <1>0, <2>2, <2>10, <3>3, ShownStep DEF s
    <3> QED
      BY <1>2, <2>8, <2>10, <3>3, <3>4 DEF PageStep, SavedStays, IndicatorEnded
  <2> QED
    BY <2>11, <2>12
<1> QED
  BY <1>1, <1>2

\* A screen with fewer messages repeats no more of them.
LEMMA FitsFewer ==
  ASSUME NEW s, NEW k, NEW q, ScreenOf(q, s, k), Fits(q, s), LogFits(s),
         NEW r, ScreenOf(r, s, k), ToSet(r) \subseteq ToSet(q)
  PROVE  Fits(r, s)
<1> SUFFICES ASSUME NEW t \in Texts PROVE Cardinality(Copies(ToSet(r), t)) <= TypedTimes(s, t)
  BY DEF Fits
<1>1. Copies(ToSet(r), t) \subseteq Copies(ToSet(q), t)
  BY DEF Copies
<1>2. IsFiniteSet(Copies(ToSet(q), t)) /\ Cardinality(Copies(ToSet(q), t)) \in Nat
  BY CopiesFinite
<1>3. Cardinality(Copies(ToSet(r), t)) \in Nat
  BY CopiesFinite
<1>4. Cardinality(Copies(ToSet(r), t)) <= Cardinality(Copies(ToSet(q), t))
  BY <1>1, <1>2, FS_Subset
<1> QED
  BY <1>2, <1>3, <1>4 DEF Fits, LogFits

\* The local copy of a failed message leaves the screen, no saved message does.
LEMMA SendFailsStep ==
  ASSUME Ready, NEW r \in sends, SendFails(r)
  PROVE  /\ PageStep
         /\ IF IsCurrentConversation(r.session, r.name) THEN IndicatorEnded ELSE page' = page
<1>0. starts' = starts /\ sync' = sync /\ wire' = wire /\ storage' = storage
  BY DEF SendFails
<1>1. CASE ~IsCurrentConversation(r.session, r.name)
  <2>1. page' = page
    BY <1>1 DEF SendFails
  <2> QED
    BY <1>0, <1>1, <2>1, NotCurrent
<1>2. CASE IsCurrentConversation(r.session, r.name)
  <2> DEFINE s == page.session
             shown == WithoutFailed(r)
             q == [page EXCEPT !.screen = shown]
             h == StopBotTyping(q)
             p == Settled(h, r)
  <2>1. s \in Sessions /\ s # NoSession
    <3>1. s = r.session /\ r.session \in Created
      BY <1>2 DEF IsCurrentConversation, Ready, SendsSound
    <3>2. \A x \in Created : x \in Sessions /\ x # NoSession
      BY BoundsAreNumbers DEF Created, Sessions, NoSession
    <3> HIDE DEF s
    <3> QED
      BY <3>1, <3>2
  <2>2. OpenPage(page) /\ LogFits(s) /\ StorageSound(storage) /\ ServerTyped /\ page \in PageRecord
    BY <2>1, PageFields DEF Ready, SoundNow, Sound
  <2>3. page' = p
    BY <1>2 DEF SendFails
  <2>4. /\ ScreenOf(shown, s, page.send) /\ ToSet(shown) \subseteq ToSet(page.screen)
        /\ \A n \in ToSet(page.screen) : ~IsLocal(n) => n \in ToSet(shown)
    <3> DEFINE F == {Local(r.session, r.id, r.text)}
    <3>1. shown = Filter(page.screen, ToSet(page.screen) \ F)
      BY DEF WithoutFailed, Without
    <3>2. \A n \in F : IsLocal(n)
      BY DEF Local, IsLocal
    <3> HIDE DEF F, shown
    <3>3. /\ ScreenOf(shown, s, page.send)
          /\ ToSet(shown) = ToSet(page.screen) \cap (ToSet(page.screen) \ F)
      BY <2>2, <3>1, OpenPageFacts, PartOfScreen
    <3> QED
      BY <3>2, <3>3
  <2> HIDE DEF shown
  <2>5. Fits(shown, s)
    BY <2>2, <2>4, OpenPageFacts, FitsFewer
  <2>6. /\ OpenPage(q) /\ q.session = s /\ q.name = page.name /\ q.send = page.send
        /\ q.start = page.start /\ q.screen = shown
    BY <2>2, <2>4, <2>5, AnotherScreen, OtherScreenFields
  <2> HIDE DEF q
  <2>7. /\ OpenPage(h) /\ h.session = s /\ h.name = page.name /\ h.send = page.send
        /\ h.start = page.start /\ h.screen = shown /\ ~h.typing
    BY <2>2, <2>6, StoppedFacts
  <2> HIDE DEF h
  <2>8. /\ OpenPage(p) /\ p.session = s /\ p.name = page.name /\ p.send = page.send
        /\ p.start = page.start /\ p.screen = shown /\ ~p.typing
    BY <2>2, <2>7, SettledFacts
  <2> HIDE DEF p
  <2>9. SoundNext
    BY <1>0, <2>2, <2>3, <2>8, ShownStep
  <2> QED
    BY <1>2, <2>3, <2>4, <2>8, <2>9 DEF PageStep, SavedStays, IndicatorEnded
<1> QED
  BY <1>1, <1>2

\* The connection comes and goes: the screen stays.
LEMMA StompStep ==
  ASSUME Ready, StompConnects \/ StompDisconnects
  PROVE  PageStep /\ page' = page
<1>1. page' = page /\ storage' = storage /\ starts' = starts /\ sync' = sync /\ wire' \subseteq wire
  BY DEF StompConnects, StompDisconnects, chatPage
<1>2. NetSound(page', sync', wire')
  BY <1>1 DEF Ready, SoundNow, Sound, NetSound
<1> QED
  BY <1>1, <1>2 DEF Ready, SoundNow, PageStep, SoundNext, Sound, SavedStays, IndicatorKept

-----------------------------------------------------------------------------
(* The customer's messages: typed, on their way, saved.                      *)

\* The messages of one text that may still be saved.
Waiting(S, s, t) == {r \in S : r.session = s /\ r.text = t /\ r.stage \in {"sent", "generating"}}

\* What is saved or may be was typed, each message once.
TypedCovers ==
  \A s \in Sessions, t \in Texts :
    Cardinality(Logged(s, t)) + Cardinality(Waiting(sends, s, t)) <= TypedTimes(s, t)

\* The form of what was typed.
TypedTyped == typed \in [Sessions -> Seq(Texts)]

\* Counting the times a text was typed.
LEMMA TypedNumber ==
  ASSUME TypedTyped, NEW s \in Sessions, NEW t
  PROVE  /\ TypedTimes(s, t) \in Nat
         /\ IsFiniteSet({i \in 1..Len(typed[s]) : typed[s][i] = t})
<1>1. Len(typed[s]) \in Nat
  BY DEF TypedTyped
<1>2. IsFiniteSet(1..Len(typed[s]))
  BY <1>1, FS_Interval
<1>3. IsFiniteSet({i \in 1..Len(typed[s]) : typed[s][i] = t})
  BY <1>2, FS_Subset
<1> QED
  BY <1>3, FS_CardinalityType DEF TypedTimes

\* Counting the messages of a text that may still be saved:
LEMMA WaitingFinite ==
  ASSUME NEW S, IsFiniteSet(S), NEW s, NEW t
  PROVE  IsFiniteSet(Waiting(S, s, t)) /\ Cardinality(Waiting(S, s, t)) \in Nat
BY FS_Subset, FS_CardinalityType DEF Waiting

\* fewer on their way are fewer waiting,
LEMMA WaitingFewer ==
  ASSUME NEW S, IsFiniteSet(S), NEW T, NEW s, NEW t, Waiting(T, s, t) \subseteq Waiting(S, s, t)
  PROVE  /\ IsFiniteSet(Waiting(T, s, t)) /\ Cardinality(Waiting(T, s, t)) \in Nat
         /\ Cardinality(Waiting(T, s, t)) <= Cardinality(Waiting(S, s, t))
BY WaitingFinite, FS_Subset, FS_CardinalityType

\* and without one of them there is one less.
LEMMA WaitingWithout ==
  ASSUME NEW S, IsFiniteSet(S), NEW r \in S, r.stage \in {"sent", "generating"},
         NEW T, \A s, t : Waiting(T, s, t) \subseteq Waiting(S, s, t) \ {r}
  PROVE  Cardinality(Waiting(T, r.session, r.text)) + 1 <= Cardinality(Waiting(S, r.session, r.text))
<1> DEFINE W == Waiting(S, r.session, r.text)
           V == Waiting(T, r.session, r.text)
<1>1. r \in W /\ V \subseteq W \ {r}
  BY DEF Waiting
<1>2. IsFiniteSet(W) /\ Cardinality(W) \in Nat
  BY WaitingFinite
<1> HIDE DEF W, V
<1>3. IsFiniteSet(W \ {r}) /\ Cardinality(W \ {r}) = Cardinality(W) - 1
  BY <1>1, <1>2, FS_RemoveElement
<1>4. Cardinality(V) <= Cardinality(W \ {r}) /\ Cardinality(V) \in Nat
  BY <1>1, <1>3, FS_Subset, FS_CardinalityType
<1>5. Cardinality(V) + 1 <= Cardinality(W)
  BY <1>2, <1>3, <1>4
<1> QED
  BY <1>5 DEF W, V

\* One request for another of the same message.
LEMMA WaitingReplaced ==
  ASSUME NEW S, IsFiniteSet(S), NEW r \in S, NEW q, q.session = r.session, q.text = r.text,
         q.stage \in {"sent", "generating"} => r.stage \in {"sent", "generating"}, NEW s, NEW t
  PROVE  Cardinality(Waiting((S \ {r}) \cup {q}, s, t)) <= Cardinality(Waiting(S, s, t))
<1> DEFINE T == (S \ {r}) \cup {q}
           W == Waiting(S, s, t)
           V == Waiting(T, s, t)
<1>1. IsFiniteSet(W) /\ Cardinality(W) \in Nat
  BY WaitingFinite
<1>2. CASE q \notin V
  <2>1. V \subseteq W
    BY <1>2 DEF Waiting
  <2> HIDE DEF W, V
  <2> QED
    BY <1>1, <2>1, FS_Subset DEF V, W
<1>3. CASE q \in V
  <2>1. V \subseteq (W \ {r}) \cup {q} /\ r \in W
    BY <1>3 DEF Waiting
  <2> HIDE DEF W, V
  <2>2. IsFiniteSet(W \ {r}) /\ Cardinality(W \ {r}) = Cardinality(W) - 1
    BY <1>1, <2>1, FS_RemoveElement
  <2> DEFINE X == W \ {r}
  <2> HIDE DEF X
  <2>3. IsFiniteSet(X) /\ Cardinality(X) = Cardinality(W) - 1
    BY <2>2 DEF X
  <2>4. IsFiniteSet(X \cup {q}) /\ (Cardinality(X \cup {q}) = Cardinality(X) + 1
                                       \/ Cardinality(X \cup {q}) = Cardinality(X))
    BY <2>3, FS_AddElement
  <2>5. Cardinality(V) <= Cardinality(X \cup {q}) /\ Cardinality(V) \in Nat
    BY <2>1, <2>4, FS_Subset, FS_CardinalityType DEF X
  <2>6. Cardinality(V) <= Cardinality(W)
    BY <1>1, <2>3, <2>4, <2>5
  <2> QED
    BY <2>6 DEF V, W
<1> QED
  BY <1>2, <1>3

\* Nobody waits for the requests of a document that is gone.
LEMMA WaitingUnheard ==
  ASSUME NEW S, S \subseteq SendRecord, IsFiniteSet(S)
  PROVE  /\ IsFiniteSet(Unheard(S))
         /\ \A s, t : Cardinality(Waiting(Unheard(S), s, t)) <= Cardinality(Waiting(S, s, t))
<1> DEFINE deaf(r) == [r EXCEPT !.waits = FALSE]
           K == {r \in S : r.stage \notin {"refused", "saved"}}
<1>1. Unheard(S) = {deaf(r) : r \in K}
  BY DEF Unheard
<1>2. \A r \in K : /\ deaf(r).session = r.session /\ deaf(r).text = r.text /\ deaf(r).stage = r.stage
  BY DEF SendRecord
<1>3. IsFiniteSet(K)
  BY FS_Subset
<1>4. IsFiniteSet(Unheard(S))
  <2> DEFINE f == [r \in K |-> deaf(r)]
  <2>1. f \in Surjection(K, Unheard(S))
    BY <1>1 DEF Surjection
  <2> HIDE DEF f, K
  <2> QED
    BY <1>3, <2>1, FS_Surjection
<1>5. ASSUME NEW s, NEW t
      PROVE  Cardinality(Waiting(Unheard(S), s, t)) <= Cardinality(Waiting(S, s, t))
  <2> DEFINE W == Waiting(S, s, t)
             V == Waiting(Unheard(S), s, t)
             f == [r \in W |-> deaf(r)]
  <2>1. IsFiniteSet(W)
    BY WaitingFinite
  <2>2. W \subseteq K
    BY DEF Waiting
  <2>3. V = {deaf(r) : r \in W}
    <3>1. \A r \in W : deaf(r) \in V
      BY <1>1, <1>2, <2>2 DEF Waiting
    <3>2. ASSUME NEW v \in V PROVE \E r \in W : v = deaf(r)
      <4>1. v \in Unheard(S) /\ v.session = s /\ v.text = t /\ v.stage \in {"sent", "generating"}
        BY DEF Waiting
      <4>2. PICK r \in K : v = deaf(r)
        BY <1>1, <4>1
      <4>3. r \in S /\ deaf(r).session = r.session /\ deaf(r).text = r.text /\ deaf(r).stage = r.stage
        BY <1>2
      <4>4. r \in W
        BY <4>1, <4>2, <4>3 DEF Waiting
      <4> QED
        BY <4>2, <4>4
    <3> HIDE DEF W, V
    <3> QED
      BY <3>1, <3>2
  <2>4. f \in Surjection(W, V)
    <3> HIDE DEF W, V
    <3> QED
      BY <2>3 DEF Surjection
  <2> HIDE DEF f, W, V
  <2>5. Cardinality(V) <= Cardinality(W)
    BY <2>1, <2>4, FS_Surjection
  <2> QED
    BY <2>5 DEF V, W
<1> QED
  BY <1>4, <1>5

\* A step that leaves the server as it is.
LEMMA ServerSame ==
  ASSUME ServerTyped, UNCHANGED <<mode, chatServer>>
  PROVE  ServerTyped' /\ Grows /\ \A s, t : Logged(s, t)' = Logged(s, t)
<1>1. mode' = mode /\ log' = log /\ owner' = owner /\ human' = human /\ generating' = generating
  BY DEF chatServer
<1>2. Created' = Created
  BY <1>1 DEF Created
<1>3. ServerTyped'
  BY <1>1, <1>2 DEF ServerTyped
<1>4. Grows
  <2>1. \A s \in Sessions : Len(log[s]) <= Len(log[s])
    BY DEF ServerTyped
  <2> QED
    BY <1>1, <1>2, <2>1 DEF Grows
<1> QED
  BY <1>1, <1>3, <1>4 DEF Logged

\* A step in which nothing is typed.
LEMMA TypedSame ==
  ASSUME TypedTyped, typed' = typed
  PROVE  TypedTyped' /\ TypedKept /\ \A s, t : TypedTimes(s, t)' = TypedTimes(s, t)
<1>1. \A s, t : TypedTimes(s, t)' = TypedTimes(s, t)
  BY DEF TypedTimes
<1>2. \A s \in Sessions, t \in Texts : TypedTimes(s, t) \in Nat
  BY TypedNumber
<1> QED
  BY <1>1, <1>2 DEF TypedTyped, TypedKept

\* Requests for a session stay sound when the server goes on,
LEMMA StartsKept ==
  ASSUME ServerTyped, ServerTyped', Grows, NEW S, StartsSound(S, page')
  PROVE  StartsSound(S, page)'
<1>1. \A s \in Sessions : Len(log[s]) \in Nat /\ Len(log'[s]) \in Nat /\ Len(log[s]) <= Len(log'[s])
  BY DEF ServerTyped, Grows
<1> SUFFICES ASSUME NEW r \in S, r.session # NoSession
             PROVE  /\ r.session \in Created' /\ r.since <= Len(log'[r.session])
                    /\ mode' = "demo" => owner'[r.session] = r.name
  BY DEF StartsSound
<1>2. /\ r.session \in Created /\ r.since <= Len(log[r.session]) /\ r.since \in Nat
      /\ mode = "demo" => owner[r.session] = r.name
  BY DEF StartsSound, StartRecord
<1> QED
  BY <1>1, <1>2 DEF Grows, Created

\* so does what is on its way to the page,
LEMMA NetKept ==
  ASSUME ServerTyped, ServerTyped', Grows, PageSound(page'), NetSound(page', sync', wire')
  PROVE  NetSound(page, sync, wire)'
<1>1. \A s \in Sessions : Len(log[s]) \in Nat /\ Len(log'[s]) \in Nat /\ Len(log[s]) <= Len(log'[s])
  BY DEF ServerTyped, Grows
<1>2. page'.session # NoSession => page'.session \in Sessions
  BY DEF PageSound, Created
<1>3. sync'.since \in Nat
  BY DEF NetSound
<1>4. sync' # NoSync => sync'.since <= Len(log'[page'.session])
  <2> HAVE sync' # NoSync
  <2>1. page'.session \in Sessions /\ sync'.since <= Len(log[page'.session])
    BY <1>2 DEF NetSound
  <2> QED
    BY <1>1, <1>3, <2>1
<1>5. page'.session # NoSession => wire' \subseteq 1..Len(log'[page'.session])
  <2> HAVE page'.session # NoSession
  <2>1. page'.session \in Sessions /\ wire' \subseteq 1..Len(log[page'.session])
    BY <1>2 DEF NetSound
  <2> QED
    BY <1>1, <2>1
<1> QED
  BY <1>4, <1>5 DEF NetSound

\* so does the whole of the customer's side,
LEMMA SoundKept ==
  ASSUME ServerTyped, ServerTyped', Grows, TypedKept, SoundNext
  PROVE  SoundNow'
<1>1. PageSound(page)'
  BY PageKept DEF SoundNext, Sound
<1>2. StorageSound(storage)'
  BY StorageKept DEF SoundNext, Sound
<1>3. StartsSound(starts, page)'
  BY StartsKept DEF SoundNext, Sound, StartsSound
<1>4. NetSound(page, sync, wire)'
  BY NetKept DEF SoundNext, Sound
<1> QED
  BY <1>1, <1>2, <1>3, <1>4 DEF SoundNow, Sound

\* and so do the messages on their way.
LEMMA SendsKept ==
  ASSUME ServerTyped, ServerTyped', Grows, NEW S, NEW k \in Nat, NEW j \in Nat, k <= j, SendsSound(S, k)
  PROVE  SendsSound(S, j)'
<1>1. \A s \in Sessions : /\ log[s] \in Seq(LogEntry) /\ log'[s] \in Seq(LogEntry)
                          /\ Len(log[s]) \in Nat /\ Len(log'[s]) \in Nat
                          /\ Len(log[s]) <= Len(log'[s])
                          /\ \A i \in 1..Len(log[s]) : log'[s][i] = log[s][i]
  BY DEF ServerTyped, Grows
<1> SUFFICES ASSUME NEW r \in S
             PROVE  /\ r \in SendRecord /\ r.session \in Created' /\ r.id \in 1..j
                    /\ mode' = "authenticated" => r.stage = "sent"
                    /\ r.stage = "saved" =>
                         /\ 1 <= r.from /\ r.from <= r.upTo /\ r.upTo <= Len(log'[r.session])
                         /\ log'[r.session][r.from] = [from |-> "USER", text |-> r.text]
  BY DEF SendsSound
<1>2. r \in SendRecord /\ r.session \in Created' /\ r.id \in 1..j /\ (mode' = "authenticated" => r.stage = "sent")
  <2>1. r \in SendRecord /\ r.session \in Created /\ r.id \in 1..k /\ (mode = "authenticated" => r.stage = "sent")
    BY DEF SendsSound
  <2>2. \A i \in 1..k : i \in 1..j
    OBVIOUS
  <2> QED
    BY <2>1, <2>2 DEF Grows
<1>3. ASSUME r.stage = "saved"
      PROVE  /\ 1 <= r.from /\ r.from <= r.upTo /\ r.upTo <= Len(log'[r.session])
             /\ log'[r.session][r.from] = [from |-> "USER", text |-> r.text]
  <2>1. /\ 1 <= r.from /\ r.from <= r.upTo /\ r.upTo <= Len(log[r.session])
        /\ log[r.session][r.from] = [from |-> "USER", text |-> r.text]
    BY <1>3 DEF SendsSound
  <2>2. r.session \in Sessions /\ r.from \in Nat /\ r.upTo \in Nat
    BY <1>2 DEF SendRecord
  <2>3. r.from \in 1..Len(log[r.session])
    BY <1>1, <2>1, <2>2
  <2> QED
    BY <1>1, <2>1, <2>2, <2>3
<1> QED
  BY <1>2, <1>3

-----------------------------------------------------------------------------
(* The inductive invariant, and the steps that leave the server as it is.    *)

\* The inductive invariant. TypedCovers is what makes TypedShownOnce inductive: a
\* message on its way counts until it is saved, so its echo is counted already.
UserChatInv ==
  /\ ServerTyped
  /\ SoundNow
  /\ SendsSound(sends, page.send)
  /\ TypedTyped
  /\ TypedCovers
  /\ linked \in BOOLEAN
  /\ mishaps \in 0..MaxMishaps

\* The log repeats nothing that was not typed as often.
LEMMA CoversFits ==
  ASSUME ServerTyped, TypedTyped, TypedCovers, IsFiniteSet(sends)
  PROVE  \A s \in Sessions : LogFits(s)
<1> SUFFICES ASSUME NEW s \in Sessions, NEW t \in Texts
             PROVE  Cardinality(Logged(s, t)) <= TypedTimes(s, t) /\ TypedTimes(s, t) \in Nat
  BY DEF LogFits
<1>1. Cardinality(Logged(s, t)) \in Nat
  BY LoggedFinite
<1>2. Cardinality(Waiting(sends, s, t)) \in Nat
  BY WaitingFinite
<1>3. TypedTimes(s, t) \in Nat
  BY TypedNumber
<1>4. Cardinality(Logged(s, t)) + Cardinality(Waiting(sends, s, t)) <= TypedTimes(s, t)
  BY DEF TypedCovers
<1> QED
  BY <1>1, <1>2, <1>3, <1>4

\* The invariant has all that the steps of the page start from.
LEMMA InvReady ==
  ASSUME UserChatInv
  PROVE  Ready
<1>1. mishaps \in Nat
  BY BoundsAreNumbers DEF UserChatInv
<1>2. \A s \in Sessions : LogFits(s)
  BY CoversFits DEF UserChatInv, SendsSound
<1> QED
  BY <1>1, <1>2 DEF UserChatInv, Ready

\* A step of the page or of the network.
LEMMA PageStepKeeps ==
  ASSUME UserChatInv, PageStep, UNCHANGED <<mode, chatServer, typed>>,
         SendsSound(sends', page.send),
         \A s, t : Cardinality(Waiting(sends', s, t)) <= Cardinality(Waiting(sends, s, t)),
         linked' \in BOOLEAN, mishaps' = mishaps \/ Mishap
  PROVE  UserChatInv'
<1>1. ServerTyped' /\ Grows /\ \A s, t : Logged(s, t)' = Logged(s, t)
  BY ServerSame DEF UserChatInv
<1>2. TypedTyped' /\ TypedKept /\ \A s, t : TypedTimes(s, t)' = TypedTimes(s, t)
  BY TypedSame DEF UserChatInv
<1>3. SoundNow'
  BY <1>1, <1>2, SoundKept DEF UserChatInv, PageStep
<1>4. page.send \in Nat /\ page'.send = page.send
  BY PageFields, BoundsAreNumbers DEF UserChatInv, PageStep
<1>5. SendsSound(sends, page.send)'
  BY <1>1, <1>4, SendsKept DEF UserChatInv, SendsSound
<1>6. TypedCovers'
  <2> SUFFICES ASSUME NEW s \in Sessions, NEW t \in Texts
               PROVE  Cardinality(Logged(s, t)') + Cardinality(Waiting(sends', s, t)) <= TypedTimes(s, t)'
    BY DEF TypedCovers, Waiting
  <2>1. Cardinality(Logged(s, t)) + Cardinality(Waiting(sends, s, t)) <= TypedTimes(s, t)
    BY DEF UserChatInv, TypedCovers
  <2>2. /\ Cardinality(Logged(s, t)) \in Nat /\ Cardinality(Waiting(sends, s, t)) \in Nat
        /\ Cardinality(Waiting(sends', s, t)) \in Nat /\ TypedTimes(s, t) \in Nat
    BY LoggedFinite, WaitingFinite, TypedNumber DEF UserChatInv, SendsSound
  <2>3. Cardinality(Waiting(sends', s, t)) <= Cardinality(Waiting(sends, s, t))
    OBVIOUS
  <2>4. Logged(s, t)' = Logged(s, t) /\ TypedTimes(s, t)' = TypedTimes(s, t)
    BY <1>1, <1>2
  <2> QED
    BY <2>1, <2>2, <2>3, <2>4
<1>7. mishaps' \in 0..MaxMishaps
  BY BoundsAreNumbers DEF UserChatInv, Mishap
<1> QED
  BY <1>1, <1>2, <1>3, <1>5, <1>6, <1>7 DEF UserChatInv

\* Fewer messages on their way are sound when all were.
LEMMA SendsFewer ==
  ASSUME NEW S, NEW k, SendsSound(S, k), NEW T, T \subseteq S
  PROVE  /\ SendsSound(T, k)
         /\ \A s, t : Cardinality(Waiting(T, s, t)) <= Cardinality(Waiting(S, s, t))
<1>1. IsFiniteSet(S) /\ IsFiniteSet(T)
  BY FS_Subset DEF SendsSound
<1>2. \A s, t : Waiting(T, s, t) \subseteq Waiting(S, s, t)
  BY DEF Waiting
<1>3. \A s, t : Cardinality(Waiting(T, s, t)) <= Cardinality(Waiting(S, s, t))
  BY <1>1, <1>2, WaitingFewer
<1> QED
  BY <1>1, <1>3 DEF SendsSound

\* A request that nobody waits for any more.
LEMMA Unheeded ==
  ASSUME NEW S, NEW k, SendsSound(S, k), NEW r \in S
  PROVE  LET q == [r EXCEPT !.waits = FALSE]
         IN  /\ SendsSound({q}, k) /\ q.session = r.session /\ q.text = r.text /\ q.stage = r.stage
<1> DEFINE q == [r EXCEPT !.waits = FALSE]
<1>1. r \in SendRecord
  BY DEF SendsSound
<1>2. q \in SendRecord /\ q.session = r.session /\ q.text = r.text /\ q.stage = r.stage /\ q.id = r.id
      /\ q.from = r.from /\ q.upTo = r.upTo
  BY <1>1 DEF SendRecord
<1> HIDE DEF q
<1>3. SendsSound({q}, k)
  <2>1. /\ q \in SendRecord /\ q.session \in Created /\ q.id \in 1..k
        /\ mode = "authenticated" => q.stage = "sent"
        /\ q.stage = "saved" =>
             /\ 1 <= q.from /\ q.from <= q.upTo /\ q.upTo <= Len(log[q.session])
             /\ log[q.session][q.from] = [from |-> "USER", text |-> q.text]
    BY <1>2 DEF SendsSound
  <2>2. IsFiniteSet({q}) /\ \A x \in {q} : x = q
    BY FS_Singleton
  <2> QED
    BY <2>1, <2>2 DEF SendsSound
<1> QED
  BY <1>2, <1>3 DEF q

\* Messages on their way, taken together.
LEMMA SendsUnion ==
  ASSUME NEW S, NEW T, NEW k, SendsSound(S, k), SendsSound(T, k)
  PROVE  SendsSound(S \cup T, k)
BY FS_Union DEF SendsSound

\* A page is loaded: what was on its way goes on unheard.
LEMMA LoadPageKeeps ==
  ASSUME UserChatInv, NEW n \in Names, LoadPage(n)
  PROVE  UserChatInv'
<1>1. PageStep
  BY InvReady, LoadPageStep
<1>2. sends \subseteq SendRecord /\ IsFiniteSet(sends) /\ SendsSound(sends, page.send)
  BY DEF UserChatInv, SendsSound
<1>3. sends' = Unheard(sends)
  BY DEF LoadPage
<1>4. /\ IsFiniteSet(sends')
      /\ \A s, t : Cardinality(Waiting(sends', s, t)) <= Cardinality(Waiting(sends, s, t))
  BY <1>2, <1>3, WaitingUnheard
<1>5. SendsSound(sends', page.send)
  <2>1. \A q \in sends' : SendsSound({q}, page.send)
    <3> TAKE q \in sends'
    <3>1. PICK r \in sends : q = [r EXCEPT !.waits = FALSE]
      BY <1>3 DEF Unheard
    <3> QED
      BY <1>2, <3>1, Unheeded
  <2> QED
    BY <1>4, <2>1 DEF SendsSound
<1>6. UNCHANGED <<mode, chatServer, typed>> /\ linked' \in BOOLEAN /\ Mishap
  BY DEF LoadPage
<1> QED
  BY <1>1, <1>4, <1>5, <1>6, PageStepKeeps

\* Steps of the page that leave the customer's messages on their way.
LEMMA QuietStepKeeps ==
  ASSUME UserChatInv, PageStep, UNCHANGED <<mode, chatServer, typed>>, sends' \subseteq sends,
         linked' \in BOOLEAN, mishaps' = mishaps \/ Mishap
  PROVE  UserChatInv'
<1>1. /\ SendsSound(sends', page.send)
      /\ \A s, t : Cardinality(Waiting(sends', s, t)) <= Cardinality(Waiting(sends, s, t))
  BY SendsFewer DEF UserChatInv
<1> QED
  BY <1>1, PageStepKeeps

\* A message fails, and may be saved all the same.
LEMMA SendFailsKeeps ==
  ASSUME UserChatInv, NEW r \in sends, SendFails(r)
  PROVE  UserChatInv'
<1>1. PageStep
  BY InvReady, SendFailsStep
<1>2. UNCHANGED <<mode, chatServer, typed>> /\ linked' \in BOOLEAN /\ (mishaps' = mishaps \/ Mishap)
  BY DEF SendFails, UserChatInv
<1> DEFINE q == [r EXCEPT !.waits = FALSE]
<1>3. sends' = sends \ {r} \/ sends' = (sends \ {r}) \cup {q}
  BY DEF SendFails
<1>4. CASE sends' = sends \ {r}
  BY <1>1, <1>2, <1>4, QuietStepKeeps
<1>5. CASE sends' = (sends \ {r}) \cup {q}
  <2>1. /\ SendsSound({q}, page.send) /\ q.session = r.session /\ q.text = r.text /\ q.stage = r.stage
    BY Unheeded DEF UserChatInv
  <2>2. SendsSound(sends \ {r}, page.send) /\ IsFiniteSet(sends)
    <3>1. SendsSound(sends, page.send) /\ sends \ {r} \subseteq sends
      BY DEF UserChatInv
    <3>2. SendsSound(sends \ {r}, page.send)
      BY <3>1, SendsFewer
    <3> QED
      BY <3>1, <3>2 DEF SendsSound
  <2> HIDE DEF q
  <2>3. SendsSound(sends', page.send)
    BY <1>5, <2>1, <2>2, SendsUnion
  <2>4. \A s, t : Cardinality(Waiting(sends', s, t)) <= Cardinality(Waiting(sends, s, t))
    BY <1>5, <2>1, <2>2, WaitingReplaced
  <2> QED
    BY <1>1, <1>2, <2>3, <2>4, PageStepKeeps
<1> QED
  BY <1>3, <1>4, <1>5

\* The steps of the page, of its requests and of the topic.
LEMMA PageNextKeeps ==
  ASSUME UserChatInv,
         \/ \E n \in Names : Navigate(n) \/ HandleNameSubmit(n)
         \/ HandleStartNewSession
         \/ HandleResetToNameForm
         \/ \E r \in starts : SessionArrives(r) \/ StartFails(r)
         \/ \E r \in sends : SendAnswered(r)
         \/ TypingTimeout
         \/ SnapshotArrives
         \/ SnapshotFails
         \/ \E i \in 1..MaxLog : Deliver(i)
         \/ StompConnects
         \/ StompDisconnects
  PROVE  UserChatInv'
<1>0. Ready /\ linked \in BOOLEAN
  BY InvReady DEF UserChatInv
<1>1. ASSUME NEW n \in Names, Navigate(n) PROVE UserChatInv'
  BY <1>0, <1>1, NavigateStep, QuietStepKeeps DEF Navigate
<1>2. ASSUME NEW n \in Names, HandleNameSubmit(n) PROVE UserChatInv'
  BY <1>0, <1>2, HandleNameSubmitStep, QuietStepKeeps DEF HandleNameSubmit
<1>3. CASE HandleStartNewSession
  BY <1>0, <1>3, HandleStartNewSessionStep, QuietStepKeeps DEF HandleStartNewSession
<1>4. CASE HandleResetToNameForm
  BY <1>0, <1>4, HandleResetToNameFormStep, QuietStepKeeps DEF HandleResetToNameForm
<1>5. ASSUME NEW r \in starts, SessionArrives(r) PROVE UserChatInv'
  BY <1>0, <1>5, SessionArrivesStep, QuietStepKeeps DEF SessionArrives
<1>6. ASSUME NEW r \in starts, StartFails(r) PROVE UserChatInv'
  BY <1>0, <1>6, StartFailsStep, QuietStepKeeps DEF StartFails
<1>7. ASSUME NEW r \in sends, SendAnswered(r) PROVE UserChatInv'
  <2>1. sends' \subseteq sends /\ UNCHANGED <<mode, chatServer, typed, linked, mishaps>>
    BY <1>7 DEF SendAnswered
  <2> QED
    BY <1>0, <1>7, <2>1, SendAnsweredStep, QuietStepKeeps
<1>8. CASE TypingTimeout
  BY <1>0, <1>8, TypingTimeoutStep, QuietStepKeeps DEF TypingTimeout, chatNet
<1>9. CASE SnapshotArrives
  BY <1>0, <1>9, SnapshotArrivesStep, QuietStepKeeps DEF SnapshotArrives
<1>10. CASE SnapshotFails
  BY <1>0, <1>10, SnapshotFailsStep, QuietStepKeeps DEF SnapshotFails, chatPage
<1>11. ASSUME NEW i \in 1..MaxLog, Deliver(i) PROVE UserChatInv'
  <2>1. sends' = sends /\ UNCHANGED <<mode, chatServer, typed, linked, mishaps>>
    BY <1>11 DEF Deliver
  <2> QED
    BY <1>0, <1>11, <2>1, DeliverStep, QuietStepKeeps
<1>12. CASE StompConnects
  BY <1>0, <1>12, StompStep, QuietStepKeeps DEF StompConnects, chatPage
<1>13. CASE StompDisconnects
  BY <1>0, <1>13, StompStep, QuietStepKeeps DEF StompDisconnects, chatPage
<1> QED
  BY <1>1, <1>2, <1>3, <1>4, <1>5, <1>6, <1>7, <1>8, <1>9, <1>10, <1>11, <1>12, <1>13

-----------------------------------------------------------------------------
(* The customer sends a message.                                             *)

\* The customer types a message.
LEMMA TypedOnceMore ==
  ASSUME TypedTyped, NEW s \in Sessions, NEW t \in Texts, typed' = [typed EXCEPT ![s] = Append(@, t)]
  PROVE  /\ TypedTyped' /\ TypedKept
         /\ \A x \in Sessions, u \in Texts :
              TypedTimes(x, u)' = TypedTimes(x, u) + (IF x = s /\ u = t THEN 1 ELSE 0)
<1>1. TypedTyped'
  BY DEF TypedTyped
<1>2. typed[s] \in Seq(Texts) /\ typed'[s] = Append(typed[s], t) /\ Len(typed[s]) \in Nat
  BY DEF TypedTyped
<1>3. /\ Len(typed'[s]) = Len(typed[s]) + 1 /\ typed'[s][Len(typed[s]) + 1] = t
      /\ \A i \in 1..Len(typed[s]) : typed'[s][i] = typed[s][i]
  BY <1>2
<1>4. ASSUME NEW x \in Sessions, NEW u \in Texts
      PROVE  TypedTimes(x, u)' = TypedTimes(x, u) + (IF x = s /\ u = t THEN 1 ELSE 0)
  <2> DEFINE D == {i \in 1..Len(typed[x]) : typed[x][i] = u}
             E == {i \in 1..Len(typed'[x]) : typed'[x][i] = u}
  <2>1. TypedTimes(x, u) = Cardinality(D) /\ TypedTimes(x, u)' = Cardinality(E)
    BY DEF TypedTimes
  <2>2. IsFiniteSet(D) /\ Cardinality(D) \in Nat
    BY <2>1, TypedNumber
  <2>3. CASE x # s
    <3>1. E = D
      BY <2>3 DEF TypedTyped
    <3> QED
      BY <2>1, <2>2, <2>3, <3>1
  <2>4. CASE x = s /\ u # t
    <3>1. E = D
      BY <1>2, <1>3, <2>4
    <3> HIDE DEF D, E
    <3> QED
      BY <2>1, <2>2, <2>4, <3>1
  <2>5. CASE x = s /\ u = t
    <3> DEFINE n == Len(typed[s]) + 1
    <3>1. E = D \cup {n} /\ n \notin D
      BY <1>2, <1>3, <2>5
    <3> HIDE DEF D, E, n
    <3>2. Cardinality(D \cup {n}) = Cardinality(D) + 1
      BY <2>2, <3>1, FS_AddElement
    <3> QED
      BY <2>1, <2>2, <2>5, <3>1, <3>2
  <2> QED
    BY <2>3, <2>4, <2>5
<1>5. TypedKept
  <2> SUFFICES ASSUME NEW x \in Sessions, NEW u \in Texts
               PROVE  /\ TypedTimes(x, u) \in Nat /\ TypedTimes(x, u)' \in Nat
                      /\ TypedTimes(x, u) <= TypedTimes(x, u)'
    BY DEF TypedKept
  <2>1. TypedTimes(x, u) \in Nat
    BY TypedNumber
  <2>2. \/ TypedTimes(x, u)' = TypedTimes(x, u) + 1
        \/ TypedTimes(x, u)' = TypedTimes(x, u) + 0
    BY <1>4
  <2> QED
    BY <2>1, <2>2
<1> QED
  BY <1>1, <1>4, <1>5

\* The message just typed is one more on the screen.
LEMMA OwnFits ==
  ASSUME NEW s, NEW k, NEW q, ScreenOf(q, s, k), NEW r, NEW m, ToSet(r) = ToSet(q) \cup {m},
         m.from = "USER", NEW u
  PROVE  /\ Cardinality(Copies(ToSet(r), u)) \in Nat /\ Cardinality(Copies(ToSet(q), u)) \in Nat
         /\ Cardinality(Copies(ToSet(r), u))
              <= Cardinality(Copies(ToSet(q), u)) + (IF u = m.text THEN 1 ELSE 0)
<1> DEFINE C == Copies(ToSet(q), u)
           D == Copies(ToSet(r), u)
<1>1. IsFiniteSet(C) /\ Cardinality(C) \in Nat
  BY CopiesFinite
<1>2. IF u = m.text THEN D = C \cup {m} ELSE D = C
  BY DEF Copies
<1> HIDE DEF C, D
<1>3. /\ Cardinality(D) \in Nat
      /\ Cardinality(D) <= Cardinality(C) + (IF u = m.text THEN 1 ELSE 0)
  <2>1. CASE u = m.text
    BY <1>1, <1>2, <2>1, FS_AddElement, FS_CardinalityType
  <2>2. CASE u # m.text
    BY <1>1, <1>2, <2>2
  <2> QED
    BY <2>1, <2>2
<1> QED
  BY <1>1, <1>3 DEF C, D

\* It is shown as a local message and counted as one on its way.
LEMMA HandleSendMessageKeeps ==
  ASSUME UserChatInv, NEW t \in Texts, HandleSendMessage(t)
  PROVE  UserChatInv' /\ SavedStays
<1> SUFFICES ASSUME NEW s, s = page.session, NEW k, k = page.send
             PROVE  UserChatInv' /\ SavedStays
  OBVIOUS
<1> DEFINE m == Local(s, k + 1, t)
           q == MergeMessages(page.screen, <<m>>)
           a == [id |-> k + 1, session |-> s, name |-> page.name, text |-> t,
                 stage |-> "sent", from |-> 0, upTo |-> 0, waits |-> mode = "demo"]
<1>1. /\ OpenPage(page) /\ page \in PageRecord /\ s \in Sessions /\ s \in Created /\ s # NoSession
      /\ k \in Nat /\ k < MaxTyped /\ page.name \in Names
      /\ ServerTyped /\ TypedTyped /\ SoundNow /\ StorageSound(storage)
  <2>1. OpenPage(page) /\ page \in PageRecord /\ ServerTyped
    BY PageFields DEF HandleSendMessage, UserChatInv
  <2> QED
    BY <2>1, OpenPageFacts DEF HandleSendMessage, UserChatInv, SoundNow, Sound
<1>2. /\ typed' = [typed EXCEPT ![s] = Append(@, t)]
      /\ page' = [page EXCEPT !.send = k + 1, !.sending = (mode = "demo"), !.typing = TRUE, !.screen = q]
      /\ sends' = sends \cup {a}
      /\ UNCHANGED <<mode, chatServer>> /\ storage' = storage /\ starts' = starts /\ sync' = sync
      /\ wire' = wire /\ linked' = linked /\ mishaps' = mishaps
  BY DEF HandleSendMessage
<1>3. ServerTyped' /\ Grows /\ \A x, u : Logged(x, u)' = Logged(x, u)
  BY <1>1, <1>2, ServerSame
<1>4. /\ TypedTyped' /\ TypedKept
      /\ \A x \in Sessions, u \in Texts :
              TypedTimes(x, u)' = TypedTimes(x, u) + (IF x = s /\ u = t THEN 1 ELSE 0)
  BY <1>1, <1>2, TypedOnceMore
<1>5. ScreenOf(q, s, k + 1) /\ ToSet(q) = ToSet(page.screen) \cup {m}
  BY <1>1, OpenPageFacts, OwnAdded
<1>6. m.from = "USER" /\ m.text = t
  BY DEF Local
<1>7. /\ a \in SendRecord /\ a.session = s /\ a.text = t /\ a.id = k + 1 /\ a.stage = "sent"
  BY <1>1 DEF SendRecord
<1> HIDE DEF m, q, a
<1>8. /\ page' \in PageRecord /\ page'.session = s /\ page'.name = page.name /\ page'.start = page.start
      /\ page'.send = k + 1 /\ page'.screen = q /\ page'.held = page.held
  <2>1. k + 1 \in 0..MaxTyped /\ q \in Seq(ScreenMessage) /\ (mode = "demo") \in BOOLEAN
    BY <1>1, <1>5, BoundsAreNumbers DEF ScreenOf
  <2>2. page' \in PageRecord
    BY <1>1, <1>2, <2>1 DEF PageRecord
  <2> QED
    BY <1>1, <1>2, <2>2 DEF PageRecord
<1>9. PageSound(page)'
  <2>1. s \in Created' /\ (mode' = "demo" => owner'[s] = page'.name)
    BY <1>1, <1>3, <1>8, OpenPageFacts DEF Grows
  <2>2. ScreenOf(page.screen, page.session, page.send)'
    BY <1>1, <1>3, <1>5, <1>8, ScreenKept
  <2>3. \A h \in ToSet(page'.held) : IsSaved(page.session, h)' /\ h.from = "BOT"
    BY <1>1, <1>3, <1>8, OpenPageFacts, SavedKept
  <2>4. Fits(page.screen, page.session)'
    <3> SUFFICES ASSUME NEW u \in Texts
                 PROVE  Cardinality(Copies(ToSet(q), u)) <= TypedTimes(s, u)'
      BY <1>8 DEF Fits
    <3>1. /\ Cardinality(Copies(ToSet(q), u)) \in Nat /\ Cardinality(Copies(ToSet(page.screen), u)) \in Nat
          /\ Cardinality(Copies(ToSet(q), u))
               <= Cardinality(Copies(ToSet(page.screen), u)) + (IF u = t THEN 1 ELSE 0)
      BY <1>1, <1>5, <1>6, OpenPageFacts, OwnFits
    <3>2. Cardinality(Copies(ToSet(page.screen), u)) <= TypedTimes(s, u) /\ TypedTimes(s, u) \in Nat
      BY <1>1, OpenPageFacts, TypedNumber DEF Fits
    <3>3. TypedTimes(s, u)' = TypedTimes(s, u) + (IF u = t THEN 1 ELSE 0)
      BY <1>1, <1>4
    <3> QED
      BY <3>1, <3>2, <3>3
  <2>5. page'.name \in Names
    BY <1>1, <1>8
  <2> QED
    BY <1>1, <1>8, <2>1, <2>2, <2>3, <2>4, <2>5 DEF PageSound
<1>10. SoundNow'
  <2>1. StorageSound(storage)'
    BY <1>1, <1>2, <1>3, StorageKept
  <2>2. StartsSound(starts', page')
    BY <1>2, <1>8 DEF SoundNow, Sound, StartsSound, UserChatInv
  <2>3. StartsSound(starts, page)'
    BY <1>1, <1>3, <2>2, StartsKept DEF StartsSound
  <2>4. NetSound(page, sync, wire)'
    <3>1. log' = log
      BY <1>2 DEF chatServer
    <3> QED
      BY <1>1, <1>2, <1>8, <3>1 DEF SoundNow, Sound, NetSound
  <2> QED
    BY <1>9, <2>1, <2>3, <2>4 DEF SoundNow, Sound
<1>11. SendsSound(sends, page.send)'
  <2>1. SendsSound(sends, k + 1)
    <3>1. \A i \in 1..k : i \in 1..(k + 1)
      BY <1>1
    <3> QED
      BY <3>1 DEF UserChatInv, SendsSound
  <2>2. SendsSound({a}, k + 1)
    <3>1. k + 1 \in 1..(k + 1)
      BY <1>1
    <3> QED
      BY <1>1, <1>7, <3>1, FS_Singleton DEF SendsSound
  <2>3. SendsSound(sends', k + 1)
    BY <1>2, <2>1, <2>2, SendsUnion
  <2>4. k + 1 \in Nat /\ k + 1 <= k + 1
    BY <1>1
  <2> QED
    BY <1>1, <1>3, <1>8, <2>3, <2>4, SendsKept DEF SendsSound
<1>12. TypedCovers'
  <2> SUFFICES ASSUME NEW x \in Sessions, NEW u \in Texts
               PROVE  Cardinality(Logged(x, u)') + Cardinality(Waiting(sends', x, u)) <= TypedTimes(x, u)'
    BY DEF TypedCovers, Waiting
  <2> DEFINE W == Waiting(sends, x, u)
             V == Waiting(sends', x, u)
             L == Cardinality(Logged(x, u))
  <2>1. L \in Nat /\ IsFiniteSet(W) /\ Cardinality(W) \in Nat /\ TypedTimes(x, u) \in Nat
    BY <1>1, LoggedFinite, WaitingFinite, TypedNumber DEF UserChatInv, SendsSound
  <2>2. L + Cardinality(W) <= TypedTimes(x, u)
    BY DEF UserChatInv, TypedCovers
  <2>3. IF x = s /\ u = t THEN V = W \cup {a} ELSE V = W
    BY <1>2, <1>7 DEF Waiting
  <2> HIDE DEF V, W, L
  <2>4. Cardinality(V) \in Nat /\ Cardinality(V) <= Cardinality(W) + (IF x = s /\ u = t THEN 1 ELSE 0)
    <3>1. CASE x = s /\ u = t
      BY <2>1, <2>3, <3>1, FS_AddElement, FS_CardinalityType
    <3>2. CASE ~(x = s /\ u = t)
      BY <2>1, <2>3, <3>2
    <3> QED
      BY <3>1, <3>2
  <2>5. TypedTimes(x, u)' = TypedTimes(x, u) + (IF x = s /\ u = t THEN 1 ELSE 0)
    BY <1>4
  <2>6. L + Cardinality(V) <= TypedTimes(x, u)'
    BY <2>1, <2>2, <2>4, <2>5
  <2> QED
    BY <1>3, <2>6 DEF V, L
<1>13. SavedStays
  BY <1>5, <1>8 DEF SavedStays
<1> QED
  BY <1>2, <1>3, <1>4, <1>10, <1>11, <1>12, <1>13 DEF UserChatInv

-----------------------------------------------------------------------------
(* The server's steps.                                                       *)

\* A list with another at its end.
LEMMA Appended ==
  ASSUME NEW M, NEW a \in Seq(M), NEW b \in Seq(M)
  PROVE  /\ a \o b \in Seq(M) /\ Len(a \o b) = Len(a) + Len(b)
         /\ \A i \in 1..Len(a) : (a \o b)[i] = a[i]
         /\ \A i \in 1..Len(b) : (a \o b)[Len(a) + i] = b[i]
OBVIOUS

\* The log after messages are saved.
LEMMA LogAppended ==
  ASSUME ServerTyped, NEW s \in Sessions, NEW froms \in Seq(Senders), NEW text \in Texts,
         SaveMessages(s, froms, text)
  PROVE  /\ log' \in [Sessions -> Seq(LogEntry)]
         /\ \A x \in Sessions : Len(log'[x]) <= MaxLog
         /\ \A x \in Sessions \ {s} : log'[x] = log[x]
         /\ Len(log'[s]) = Len(log[s]) + Len(froms)
         /\ \A i \in 1..Len(log[s]) : log'[s][i] = log[s][i]
         /\ \A i \in 1..Len(froms) : log'[s][Len(log[s]) + i] = [from |-> froms[i], text |-> text]
<1> DEFINE add == [i \in 1..Len(froms) |-> [from |-> froms[i], text |-> text]]
<1>1. log \in [Sessions -> Seq(LogEntry)] /\ log[s] \in Seq(LogEntry) /\ Len(log[s]) \in Nat
  BY DEF ServerTyped
<1>2. add \in Seq(LogEntry) /\ Len(add) = Len(froms) /\ Len(froms) \in Nat
  <2>1. \A i \in 1..Len(froms) : [from |-> froms[i], text |-> text] \in LogEntry
    BY DEF LogEntry
  <2> QED
    BY <2>1
<1>3. log' = [log EXCEPT ![s] = log[s] \o add] /\ Len(log[s]) + Len(froms) <= MaxLog
  BY DEF SaveMessages
<1>4. \A i \in 1..Len(froms) : add[i] = [from |-> froms[i], text |-> text]
  OBVIOUS
<1> HIDE DEF add
<1>5. /\ log[s] \o add \in Seq(LogEntry) /\ Len(log[s] \o add) = Len(log[s]) + Len(add)
      /\ \A i \in 1..Len(log[s]) : (log[s] \o add)[i] = log[s][i]
      /\ \A i \in 1..Len(add) : (log[s] \o add)[Len(log[s]) + i] = add[i]
  <2> DEFINE old == log[s]
  <2>1. old \in Seq(LogEntry) /\ add \in Seq(LogEntry)
    BY <1>1, <1>2
  <2> HIDE DEF old
  <2>2. /\ old \o add \in Seq(LogEntry) /\ Len(old \o add) = Len(old) + Len(add)
        /\ \A i \in 1..Len(old) : (old \o add)[i] = old[i]
        /\ \A i \in 1..Len(add) : (old \o add)[Len(old) + i] = add[i]
    BY <2>1, Appended
  <2> QED
    BY <2>2 DEF old
<1>6. log' \in [Sessions -> Seq(LogEntry)] /\ log'[s] = log[s] \o add
  BY <1>1, <1>3, <1>5
<1>7. \A x \in Sessions \ {s} : log'[x] = log[x]
  BY <1>1, <1>3
<1>8. \A x \in Sessions : Len(log'[x]) <= MaxLog
  BY <1>2, <1>3, <1>5, <1>6, <1>7 DEF ServerTyped
<1> QED
  BY <1>2, <1>4, <1>5, <1>6, <1>7, <1>8

\* One message more of the customer's in the log at most, and only of this text.
LEMMA LoggedOnceMore ==
  ASSUME ServerTyped, NEW s \in Sessions, NEW froms \in Seq(Senders), NEW text \in Texts,
         SaveMessages(s, froms, text), \A i \in 2..Len(froms) : froms[i] # "USER"
  PROVE  \A x \in Sessions, u \in Texts :
           /\ Cardinality(Logged(x, u)') \in Nat
           /\ Cardinality(Logged(x, u)')
                <= Cardinality(Logged(x, u))
                     + (IF x = s /\ u = text /\ froms[1] = "USER" THEN 1 ELSE 0)
<1> SUFFICES ASSUME NEW x \in Sessions, NEW u \in Texts
             PROVE  /\ Cardinality(Logged(x, u)') \in Nat
                    /\ Cardinality(Logged(x, u)')
                         <= Cardinality(Logged(x, u))
                              + (IF x = s /\ u = text /\ froms[1] = "USER" THEN 1 ELSE 0)
  OBVIOUS
<1> DEFINE D == Logged(x, u)
           E == {i \in 1..Len(log'[x]) : log'[x][i] = [from |-> "USER", text |-> u]}
           n == Len(log[s]) + 1
<1>1. IsFiniteSet(D) /\ Cardinality(D) \in Nat
  BY LoggedFinite
<1>2. Logged(x, u)' = E
  BY DEF Logged
<1>3. CASE x # s
  <2>1. E = D
    BY <1>3, LogAppended DEF Logged
  <2> HIDE DEF D, E
  <2> QED
    BY <1>1, <1>2, <1>3, <2>1 DEF D
<1>4. CASE x = s
  <2>1. /\ Len(log'[s]) = Len(log[s]) + Len(froms) /\ Len(log[s]) \in Nat /\ Len(froms) \in Nat
        /\ \A i \in 1..Len(log[s]) : log'[s][i] = log[s][i]
        /\ \A i \in 1..Len(froms) : log'[s][Len(log[s]) + i] = [from |-> froms[i], text |-> text]
    BY LogAppended DEF ServerTyped
  <2>2. \A i \in E : i \in D \/ (i = n /\ u = text /\ froms[1] = "USER")
    <3> TAKE i \in E
    <3>1. i \in 1..(Len(log[s]) + Len(froms)) /\ log'[s][i] = [from |-> "USER", text |-> u]
      BY <1>4, <2>1
    <3>2. CASE i \in 1..Len(log[s])
      BY <1>4, <2>1, <3>1, <3>2 DEF Logged
    <3>3. CASE i \notin 1..Len(log[s])
      <4> DEFINE j == i - Len(log[s])
      <4>1. j \in 1..Len(froms) /\ i = Len(log[s]) + j
        BY <2>1, <3>1, <3>3
      <4> HIDE DEF j
      <4>2. [from |-> froms[j], text |-> text] = [from |-> "USER", text |-> u]
        BY <2>1, <3>1, <4>1
      <4>3. froms[j] = "USER" /\ text = u
        BY <4>2
      <4>4. j = 1
        BY <2>1, <4>1, <4>3
      <4> QED
        BY <4>1, <4>3, <4>4
    <3> QED
      BY <3>2, <3>3
  <2> HIDE DEF D, E, n
  <2>3. CASE u = text /\ froms[1] = "USER"
    <3>1. E \subseteq D \cup {n}
      BY <2>2
    <3>2. IsFiniteSet(D \cup {n}) /\ Cardinality(D \cup {n}) <= Cardinality(D) + 1
          /\ Cardinality(D \cup {n}) \in Nat
      <4>1. /\ IsFiniteSet(D \cup {n})
            /\ Cardinality(D \cup {n}) = IF n \in D THEN Cardinality(D) ELSE Cardinality(D) + 1
        BY <1>1, FS_AddElement
      <4> QED
        BY <1>1, <4>1
    <3>3. Cardinality(E) <= Cardinality(D \cup {n}) /\ Cardinality(E) \in Nat
      BY <3>1, <3>2, FS_Subset, FS_CardinalityType
    <3>4. Cardinality(E) <= Cardinality(D) + 1
      BY <1>1, <3>2, <3>3
    <3> QED
      BY <1>2, <1>4, <2>3, <3>3, <3>4 DEF D
  <2>4. CASE ~(u = text /\ froms[1] = "USER")
    <3>1. E \subseteq D
      BY <2>2, <2>4
    <3>2. Cardinality(E) <= Cardinality(D) /\ Cardinality(E) \in Nat
      BY <1>1, <3>1, FS_Subset, FS_CardinalityType
    <3> QED
      BY <1>1, <1>2, <1>4, <2>4, <3>2 DEF D
  <2> QED
    BY <2>3, <2>4
<1> QED
  BY <1>3, <1>4

\* Messages are saved in a session and broadcast: all but the counts.
LEMMA SavingKeeps ==
  ASSUME UserChatInv, NEW s \in Created, NEW froms \in Seq(Senders), NEW text \in Texts,
         SaveMessages(s, froms, text),
         UNCHANGED <<mode, owner, page, storage, typed, starts, sync>>,
         human' \in [Sessions -> BOOLEAN], generating' \in [Sessions -> BOOLEAN],
         \A x \in Sessions \ Created : ~generating'[x]
  PROVE  ServerTyped' /\ Grows /\ SoundNow' /\ TypedTyped' /\ mishaps' \in 0..MaxMishaps
<1>1. ServerTyped /\ SoundNow /\ s \in Sessions /\ TypedTyped
  BY DEF UserChatInv, Created
<1>2. /\ log' \in [Sessions -> Seq(LogEntry)]
      /\ \A x \in Sessions : Len(log'[x]) <= MaxLog
      /\ \A x \in Sessions \ {s} : log'[x] = log[x]
      /\ Len(log'[s]) = Len(log[s]) + Len(froms)
      /\ \A i \in 1..Len(log[s]) : log'[s][i] = log[s][i]
  BY <1>1, LogAppended
<1>3. Created' = Created
  BY DEF Created
<1>4. Len(froms) \in Nat /\ \A x \in Sessions : Len(log[x]) \in Nat
  BY <1>1 DEF ServerTyped
<1>5. ServerTyped'
  BY <1>1, <1>2, <1>3 DEF ServerTyped
<1>6. Grows
  <2>1. \A x \in Sessions : Len(log[x]) <= Len(log'[x]) /\ \A i \in 1..Len(log[x]) : log'[x][i] = log[x][i]
    BY <1>1, <1>2, <1>4
  <2> QED
    BY <1>3, <2>1 DEF Grows
<1>7. TypedTyped' /\ TypedKept
  BY <1>1, TypedSame
<1>8. PageSound(page)'
  BY <1>1, <1>5, <1>6, <1>7, PageKept DEF SoundNow, Sound
<1>9. StorageSound(storage)'
  BY <1>1, <1>5, <1>6, StorageKept DEF SoundNow, Sound
<1>10. StartsSound(starts, page)'
  <2>1. StartsSound(starts', page')
    BY <1>1 DEF SoundNow, Sound
  <2> QED
    BY <1>1, <1>5, <1>6, <2>1, StartsKept DEF StartsSound
<1>11. NetSound(page, sync, wire)'
  <2>1. NetSound(page, sync, wire)
    BY <1>1 DEF SoundNow, Sound
  <2>2. page.session # NoSession => page.session \in Sessions
    BY <1>1 DEF SoundNow, Sound, PageSound, Created
  <2>3. sync # NoSync => sync.since <= Len(log'[page.session])
    <3> HAVE sync # NoSync
    <3>1. page.session \in Sessions /\ sync.since \in Nat /\ sync.since <= Len(log[page.session])
      BY <2>1, <2>2 DEF NetSound
    <3>2. Len(log[page.session]) <= Len(log'[page.session]) /\ Len(log'[page.session]) \in Nat
      BY <1>2, <1>6, <3>1 DEF Grows
    <3> QED
      BY <1>4, <3>1, <3>2
  <2>4. wire' = wire \/ (page.session = s /\ wire' = wire \cup (Len(log[s]) + 1 .. Len(log[s]) + Len(froms)))
    BY DEF SaveMessages, Broadcast
  <2>5. page.session = NoSession => wire' = {}
    BY <1>1, <2>1, <2>4, BoundsAreNumbers DEF NetSound, Sessions, NoSession
  <2>6. page.session # NoSession => wire' \subseteq 1..Len(log'[page.session])
    <3> HAVE page.session # NoSession
    <3>1. page.session \in Sessions /\ wire \subseteq 1..Len(log[page.session])
      BY <2>1, <2>2 DEF NetSound
    <3>2. Len(log[page.session]) <= Len(log'[page.session]) /\ Len(log'[page.session]) \in Nat
      BY <1>2, <1>6, <3>1 DEF Grows
    <3>3. wire \subseteq 1..Len(log'[page.session])
      BY <1>4, <3>1, <3>2
    <3>4. (Len(log[s]) + 1 .. Len(log[s]) + Len(froms)) \subseteq 1..Len(log'[s])
      BY <1>1, <1>2, <1>4
    <3> QED
      BY <2>4, <3>3, <3>4
  <2> QED
    BY <2>1, <2>3, <2>5, <2>6 DEF NetSound
<1>12. mishaps' \in 0..MaxMishaps
  BY BoundsAreNumbers DEF UserChatInv, SaveMessages, Broadcast, Mishap
<1> QED
  BY <1>5, <1>6, <1>7, <1>8, <1>9, <1>10, <1>11, <1>12 DEF SoundNow, Sound

\* What is saved is no longer on its way.
LEMMA CoversKept ==
  ASSUME ServerTyped, TypedTyped, TypedCovers, IsFiniteSet(sends), IsFiniteSet(sends'), typed' = typed,
         NEW s, NEW text, NEW saved \in BOOLEAN,
         \A x \in Sessions, u \in Texts :
           /\ Cardinality(Logged(x, u)') \in Nat
           /\ Cardinality(Logged(x, u)')
                <= Cardinality(Logged(x, u)) + (IF x = s /\ u = text /\ saved THEN 1 ELSE 0),
         \A x, u : Cardinality(Waiting(sends', x, u)) <= Cardinality(Waiting(sends, x, u)),
         saved => Cardinality(Waiting(sends', s, text)) + 1 <= Cardinality(Waiting(sends, s, text))
  PROVE  TypedCovers'
<1> SUFFICES ASSUME NEW x \in Sessions, NEW u \in Texts
             PROVE  Cardinality(Logged(x, u)') + Cardinality(Waiting(sends', x, u)) <= TypedTimes(x, u)'
  BY DEF TypedCovers, Waiting
<1> DEFINE L == Cardinality(Logged(x, u))
           M == Cardinality(Logged(x, u)')
           W == Cardinality(Waiting(sends, x, u))
           V == Cardinality(Waiting(sends', x, u))
<1>1. L \in Nat /\ M \in Nat /\ W \in Nat /\ V \in Nat /\ TypedTimes(x, u) \in Nat
  BY LoggedFinite, WaitingFinite, TypedNumber
<1>2. L + W <= TypedTimes(x, u)
  BY DEF TypedCovers
<1>3. TypedTimes(x, u)' = TypedTimes(x, u)
  BY TypedSame
<1>4. V <= W /\ M <= L + (IF x = s /\ u = text /\ saved THEN 1 ELSE 0)
  OBVIOUS
<1>5. x = s /\ u = text /\ saved => V + 1 <= W
  OBVIOUS
<1> HIDE DEF L, M, W, V
<1>6. M + V <= TypedTimes(x, u)
  <2>1. CASE x = s /\ u = text /\ saved
    BY <1>1, <1>2, <1>4, <1>5, <2>1
  <2>2. CASE ~(x = s /\ u = text /\ saved)
    <3>1. M <= L + 0
      BY <1>4, <2>2
    <3> QED
      BY <1>1, <1>2, <1>4, <3>1
  <2> QED
    BY <2>1, <2>2
<1> QED
  BY <1>3, <1>6 DEF M, V

\* A message that is answered or refused, or whose answer begins, is another
\* request for the same message or none.
LEMMA Restaged ==
  ASSUME NEW r \in SendRecord, NEW st \in {"generating", "refused"}
  PROVE  LET a == [r EXCEPT !.stage = st]
         IN  /\ a \in SendRecord /\ a.session = r.session /\ a.text = r.text /\ a.id = r.id
             /\ a.stage = st
BY DEF SendRecord

\* The same, for the messages on their way.
LEMMA RestagedSound ==
  ASSUME NEW k, NEW S, SendsSound(S, k), mode = "demo", NEW r \in S,
         NEW st \in {"generating", "refused"}
  PROVE  SendsSound({[r EXCEPT !.stage = st]}, k)
<1> DEFINE a == [r EXCEPT !.stage = st]
<1>1. r \in SendRecord /\ r.session \in Created /\ r.id \in 1..k
  BY DEF SendsSound
<1>2. a \in SendRecord /\ a.session = r.session /\ a.id = r.id /\ a.stage = st /\ st # "saved"
  BY <1>1, Restaged
<1> HIDE DEF a
<1>3. IsFiniteSet({a}) /\ \A x \in {a} : x = a
  BY FS_Singleton
<1>4. SendsSound({a}, k)
  BY <1>1, <1>2, <1>3 DEF SendsSound
<1> QED
  BY <1>4 DEF a

\* A message that is saved is no longer waiting.
LEMMA StageSavedWaits ==
  ASSUME NEW r \in SendRecord, NEW n, StageSaved(r, n)
  PROVE  \A x, u : Waiting(sends', x, u) \subseteq Waiting(sends, x, u) \ {r}
<1>1. \A q \in sends' : q \in sends \ {r} \/ q.stage = "saved"
  <2> TAKE q \in sends'
  <2> DEFINE a == [r EXCEPT !.stage = "saved", !.from = Len(log[r.session]) + 1,
                            !.upTo = Len(log[r.session]) + n]
  <2>1. q \in sends \ {r} \/ q = a
    BY DEF StageSaved
  <2>2. a.stage = "saved"
    BY DEF SendRecord
  <2> HIDE DEF a
  <2> QED
    BY <2>1, <2>2
<1> QED
  BY <1>1 DEF Waiting

\* The record of an answer is the log's: it begins with the message it answers.
LEMMA StageSavedSound ==
  ASSUME UserChatInv, mode = "demo", NEW r \in sends, r.stage \in {"sent", "generating"},
         NEW froms \in Seq(Senders), froms[1] = "USER", NEW n \in Nat, n = Len(froms), n >= 1,
         SaveMessages(r.session, froms, r.text), StageSaved(r, n),
         page' = page, ServerTyped', Grows
  PROVE  SendsSound(sends, page.send)' /\ IsFiniteSet(sends')
<1> DEFINE s == r.session
           l == Len(log[s])
           a == [r EXCEPT !.stage = "saved", !.from = l + 1, !.upTo = l + n]
<1>1. /\ r \in SendRecord /\ s \in Created /\ s \in Sessions /\ r.id \in 1..page.send /\ r.text \in Texts
      /\ ServerTyped /\ SendsSound(sends, page.send) /\ page.send \in Nat
  <2>1. ServerTyped /\ SendsSound(sends, page.send) /\ SoundNow
    BY DEF UserChatInv
  <2>2. r \in SendRecord /\ s \in Created /\ r.id \in 1..page.send
    BY <2>1 DEF SendsSound
  <2>3. s \in Sessions /\ r.text \in Texts
    BY <2>2 DEF SendRecord
  <2>4. page.send \in Nat
    BY <2>1, PageFields, BoundsAreNumbers
  <2> QED
    BY <2>1, <2>2, <2>3, <2>4
<1>2. l \in Nat
  BY <1>1 DEF ServerTyped
<1>3. /\ Len(log'[s]) = l + n
      /\ log'[s][l + 1] = [from |-> "USER", text |-> r.text]
  <2>1. 1 \in 1..Len(froms)
    OBVIOUS
  <2>2. SaveMessages(s, froms, r.text)
    OBVIOUS
  <2> HIDE DEF s
  <2>3. /\ Len(log'[s]) = Len(log[s]) + Len(froms)
        /\ \A i \in 1..Len(froms) : log'[s][Len(log[s]) + i] = [from |-> froms[i], text |-> r.text]
    BY <1>1, <2>2, LogAppended
  <2> QED
    BY <2>1, <2>3
<1>4. sends' = (sends \ {r}) \cup (IF r.waits THEN {a} ELSE {})
  BY DEF StageSaved
<1>5. l + 1 \in Nat /\ l + n \in Nat /\ 1 <= l + 1 /\ l + 1 <= l + n
  BY <1>2
<1> HIDE DEF l
<1>6. /\ a \in SendRecord /\ a.session = s /\ a.text = r.text /\ a.id = r.id /\ a.stage = "saved"
      /\ a.from = l + 1 /\ a.upTo = l + n
  BY <1>1, <1>5 DEF SendRecord
<1> HIDE DEF a
<1>7. SendsSound(sends \ {r}, page.send)
  <2>1. sends \ {r} \subseteq sends
    OBVIOUS
  <2> QED
    BY <1>1, <2>1, SendsFewer
<1>8. /\ IsFiniteSet(sends \ {r})
      /\ \A q \in sends \ {r} :
           /\ q \in SendRecord /\ q.session \in Created' /\ q.id \in 1..page.send
           /\ q.stage = "saved" =>
                /\ 1 <= q.from /\ q.from <= q.upTo /\ q.upTo <= Len(log'[q.session])
                /\ log'[q.session][q.from] = [from |-> "USER", text |-> q.text]
  <2> DEFINE k == page.send
             S == sends \ {r}
  <2>1. ASSUME NEW j, j = k, NEW T, T = S
        PROVE  SendsSound(T, j)'
    BY <1>1, <1>7, <2>1, SendsKept
  <2> QED
    BY <2>1 DEF SendsSound
<1>9. /\ a \in SendRecord /\ a.session \in Created' /\ a.id \in 1..page.send
      /\ 1 <= a.from /\ a.from <= a.upTo /\ a.upTo <= Len(log'[a.session])
      /\ log'[a.session][a.from] = [from |-> "USER", text |-> a.text]
  BY <1>1, <1>3, <1>5, <1>6 DEF Grows
<1>10. IsFiniteSet(sends')
  <2>1. CASE r.waits
    BY <1>4, <1>8, <2>1, FS_AddElement
  <2>2. CASE ~r.waits
    BY <1>4, <1>8, <2>2
  <2> QED
    BY <2>1, <2>2
<1>11. mode' = "demo"
  BY DEF Grows
<1>12. SendsSound(sends, page.send)'
  BY <1>4, <1>8, <1>9, <1>10, <1>11 DEF SendsSound
<1> QED
  BY <1>10, <1>12

\* The customer's side is the same when none of its variables has changed.
LEMMA SoundSame ==
  ASSUME ServerTyped, ServerTyped', Grows, TypedTyped, SoundNow,
         UNCHANGED <<page, storage, typed, starts, sync, wire>>
  PROVE  SoundNow'
<1>1. SoundNext
  BY DEF SoundNow, SoundNext, Sound
<1>2. TypedKept
  BY TypedSame
<1> QED
  BY <1>1, <1>2, SoundKept

\* A step of the server that saves nothing.
LEMMA QuietServerKeeps ==
  ASSUME UserChatInv, UNCHANGED <<mode, log, owner, page, storage, typed, starts, sync, wire, linked>>,
         human' \in [Sessions -> BOOLEAN], generating' \in [Sessions -> BOOLEAN],
         \A x \in Sessions \ Created : ~generating'[x],
         SendsSound(sends', page.send),
         \A s, t : Cardinality(Waiting(sends', s, t)) <= Cardinality(Waiting(sends, s, t)),
         mishaps' = mishaps \/ Mishap
  PROVE  UserChatInv'
<1>1. /\ ServerTyped /\ SoundNow /\ TypedTyped /\ TypedCovers /\ page.send \in Nat
      /\ IsFiniteSet(sends) /\ IsFiniteSet(sends')
  <2>1. ServerTyped /\ SoundNow /\ TypedTyped /\ TypedCovers /\ SendsSound(sends, page.send)
    BY DEF UserChatInv
  <2>2. page.send \in Nat
    BY <2>1, PageFields, BoundsAreNumbers
  <2> QED
    BY <2>1, <2>2 DEF SendsSound
<1>2. Created' = Created
  BY DEF Created
<1>3. ServerTyped'
  BY <1>1, <1>2 DEF ServerTyped
<1>4. Grows
  <2>1. \A s \in Sessions : Len(log[s]) <= Len(log[s])
    BY <1>1 DEF ServerTyped
  <2> QED
    BY <1>2, <2>1 DEF Grows
<1>5. SoundNow'
  BY <1>1, <1>3, <1>4, SoundSame
<1>6. SendsSound(sends, page.send)'
  <2> DEFINE k == page.send
  <2>1. ASSUME NEW j, j = k, NEW T, T = sends'
        PROVE  SendsSound(T, j)'
    BY <1>1, <1>3, <1>4, <2>1, SendsKept
  <2> QED
    BY <2>1 DEF SendsSound
<1>7. TypedCovers'
  <2>1. \A x \in Sessions, u \in Texts :
          Cardinality(Logged(x, u)') \in Nat /\ Cardinality(Logged(x, u)') <= Cardinality(Logged(x, u)) + 0
    <3> TAKE x \in Sessions, u \in Texts
    <3>1. Logged(x, u)' = Logged(x, u)
      BY DEF Logged
    <3>2. Cardinality(Logged(x, u)) \in Nat
      BY <1>1, LoggedFinite
    <3> QED
      BY <3>1, <3>2
  <2>2. \A x \in Sessions, u \in Texts :
          /\ Cardinality(Logged(x, u)') \in Nat
          /\ Cardinality(Logged(x, u)')
               <= Cardinality(Logged(x, u)) + (IF x = 0 /\ u = 0 /\ FALSE THEN 1 ELSE 0)
    BY <2>1
  <2> QED
    BY <1>1, <2>2, CoversKept
<1>8. mishaps' \in 0..MaxMishaps
  BY BoundsAreNumbers DEF UserChatInv, Mishap
<1>9. TypedTyped' /\ linked' \in BOOLEAN
  BY DEF UserChatInv, TypedTyped
<1> QED
  BY <1>3, <1>5, <1>6, <1>7, <1>8, <1>9 DEF UserChatInv

\* The answer of a request is refused, or its generation begins.
LEMMA RestagedKeeps ==
  ASSUME UserChatInv, mode = "demo", NEW r \in sends, NEW st \in {"generating", "refused"},
         st = "generating" => r.stage = "sent",
         NEW b \in BOOLEAN, sends' = (sends \ {r}) \cup (IF b THEN {[r EXCEPT !.stage = st]} ELSE {})
  PROVE  /\ SendsSound(sends', page.send)
         /\ \A s, t : Cardinality(Waiting(sends', s, t)) <= Cardinality(Waiting(sends, s, t))
<1> DEFINE a == [r EXCEPT !.stage = st]
<1>1. SendsSound(sends, page.send)
  BY DEF UserChatInv
<1>2. IsFiniteSet(sends) /\ r \in SendRecord
  BY <1>1 DEF SendsSound
<1>3. SendsSound({a}, page.send)
  BY <1>1, RestagedSound
<1>4. a.session = r.session /\ a.text = r.text /\ a.stage = st
  BY <1>2, Restaged
<1>5. /\ SendsSound(sends \ {r}, page.send)
      /\ \A s, t : Cardinality(Waiting(sends \ {r}, s, t)) <= Cardinality(Waiting(sends, s, t))
  <2>1. sends \ {r} \subseteq sends
    OBVIOUS
  <2> QED
    BY <1>1, <2>1, SendsFewer
<1> HIDE DEF a
<1>6. CASE b
  <2>1. sends' = (sends \ {r}) \cup {a}
    BY <1>6 DEF a
  <2>2. SendsSound(sends', page.send)
    BY <1>3, <1>5, <2>1, SendsUnion
  <2>3. \A s, t : Cardinality(Waiting(sends', s, t)) <= Cardinality(Waiting(sends, s, t))
    BY <1>2, <1>4, <2>1, WaitingReplaced
  <2> QED
    BY <2>2, <2>3
<1>7. CASE ~b
  <2>1. sends' = sends \ {r}
    BY <1>7
  <2> QED
    BY <1>5, <2>1
<1> QED
  BY <1>6, <1>7

\* A step of the server that saves the message of a request.
LEMMA SavedRequestKeeps ==
  ASSUME UserChatInv, NEW r \in sends, r.stage \in {"sent", "generating"},
         NEW froms \in Seq(Senders), froms[1] = "USER", \A i \in 2..Len(froms) : froms[i] # "USER",
         SaveMessages(r.session, froms, r.text),
         UNCHANGED <<mode, owner, page, storage, typed, starts, sync, linked>>,
         human' \in [Sessions -> BOOLEAN], generating' \in [Sessions -> BOOLEAN],
         \A x \in Sessions \ Created : ~generating'[x],
         ServerTyped' /\ Grows => SendsSound(sends, page.send)' /\ IsFiniteSet(sends'),
         \A x, u : Waiting(sends', x, u) \subseteq Waiting(sends, x, u) \ {r}
  PROVE  UserChatInv'
<1>1. /\ ServerTyped /\ TypedTyped /\ TypedCovers /\ IsFiniteSet(sends)
      /\ r \in SendRecord /\ r.session \in Created
  BY DEF UserChatInv, SendsSound
<1>2. r.session \in Sessions /\ r.text \in Texts
  BY <1>1 DEF SendRecord
<1>3. ServerTyped' /\ Grows /\ SoundNow' /\ TypedTyped' /\ mishaps' \in 0..MaxMishaps
  BY <1>1, <1>2, SavingKeeps
<1>4. SendsSound(sends, page.send)' /\ IsFiniteSet(sends')
  BY <1>3
<1>5. TypedCovers'
  <2> DEFINE s == r.session
             text == r.text
  <2>0. SaveMessages(s, froms, text)
    OBVIOUS
  <2>3. Cardinality(Waiting(sends', s, text)) + 1 <= Cardinality(Waiting(sends, s, text))
    BY <1>1, WaitingWithout
  <2> HIDE DEF s, text
  <2>1. \A x \in Sessions, u \in Texts :
           /\ Cardinality(Logged(x, u)') \in Nat
           /\ Cardinality(Logged(x, u)')
                <= Cardinality(Logged(x, u)) + (IF x = s /\ u = text /\ TRUE THEN 1 ELSE 0)
    <3>1. s \in Sessions /\ text \in Texts
      BY <1>2 DEF s, text
    <3>2. \A x \in Sessions, u \in Texts :
           /\ Cardinality(Logged(x, u)') \in Nat
           /\ Cardinality(Logged(x, u)')
                <= Cardinality(Logged(x, u))
                     + (IF x = s /\ u = text /\ froms[1] = "USER" THEN 1 ELSE 0)
      BY <1>1, <2>0, <3>1, LoggedOnceMore
    <3> QED
      BY <3>2
  <2>2. \A x, u : Cardinality(Waiting(sends', x, u)) <= Cardinality(Waiting(sends, x, u))
    <3>1. \A x, u : Waiting(sends', x, u) \subseteq Waiting(sends, x, u)
      OBVIOUS
    <3> QED
      BY <1>1, <3>1, WaitingFewer
  <2> QED
    BY <1>1, <1>4, <2>1, <2>2, <2>3, CoversKept
<1> QED
  BY <1>3, <1>4, <1>5 DEF UserChatInv

\* What is known of a message on its way.
LEMMA RequestFacts ==
  ASSUME UserChatInv, NEW r \in sends
  PROVE  /\ ServerTyped /\ SendsSound(sends, page.send) /\ r \in SendRecord
         /\ r.session \in Created /\ r.session \in Sessions /\ r.text \in Texts
         /\ mode \in {"demo", "authenticated"} /\ (mode = "authenticated" => r.stage = "sent")
         /\ human \in [Sessions -> BOOLEAN] /\ generating \in [Sessions -> BOOLEAN]
         /\ \A x \in Sessions \ Created : ~generating[x]
<1>1. ServerTyped /\ SendsSound(sends, page.send)
  BY DEF UserChatInv
<1>2. r \in SendRecord /\ r.session \in Created /\ (mode = "authenticated" => r.stage = "sent")
  BY <1>1 DEF SendsSound
<1> QED
  BY <1>1, <1>2 DEF ServerTyped, SendRecord

\* The messages a request saves: its own, or its own and the answer.
LEMMA OneOrTwo ==
  /\ <<"USER">> \in Seq(Senders) /\ <<"USER">>[1] = "USER" /\ Len(<<"USER">>) = 1
  /\ \A i \in 2..Len(<<"USER">>) : <<"USER">>[i] # "USER"
  /\ <<"USER", "BOT">> \in Seq(Senders) /\ <<"USER", "BOT">>[1] = "USER" /\ Len(<<"USER", "BOT">>) = 2
  /\ \A i \in 2..Len(<<"USER", "BOT">>) : <<"USER", "BOT">>[i] # "USER"
BY DEF Senders

\* The steps of the server on a message, one lemma each.
LEMMA AppendMessageKeeps ==
  ASSUME UserChatInv, NEW r \in sends, AppendMessage(r)
  PROVE  UserChatInv'
<1> DEFINE s == r.session
<1>1. /\ mode = "demo" /\ r.stage = "sent"
      /\ UNCHANGED <<mode, owner, human, page, storage, typed, starts, sync, linked>>
  BY DEF AppendMessage, chatPage
<1>2. \/ /\ sends' = (sends \ {r}) \cup (IF r.waits THEN {[r EXCEPT !.stage = "refused"]} ELSE {})
         /\ UNCHANGED <<log, generating, wire, mishaps>>
      \/ /\ sends' = (sends \ {r}) \cup {[r EXCEPT !.stage = "generating"]}
         /\ generating' = [generating EXCEPT ![s] = TRUE]
         /\ UNCHANGED <<log, wire, mishaps>>
      \/ /\ SaveMessages(s, <<"USER">>, r.text)
         /\ StageSaved(r, 1)
         /\ generating' = generating
  BY DEF AppendMessage
<1>3. CASE /\ sends' = (sends \ {r}) \cup (IF r.waits THEN {[r EXCEPT !.stage = "refused"]} ELSE {})
           /\ UNCHANGED <<log, generating, wire, mishaps>>
  <2>1. r.waits \in BOOLEAN
    BY RequestFacts DEF SendRecord
  <2>2. /\ SendsSound(sends', page.send)
        /\ \A x, u : Cardinality(Waiting(sends', x, u)) <= Cardinality(Waiting(sends, x, u))
    BY <1>1, <1>3, <2>1, RestagedKeeps
  <2> QED
    BY <1>1, <1>3, <2>2, RequestFacts, QuietServerKeeps
<1>4. CASE /\ sends' = (sends \ {r}) \cup {[r EXCEPT !.stage = "generating"]}
           /\ generating' = [generating EXCEPT ![s] = TRUE]
           /\ UNCHANGED <<log, wire, mishaps>>
  <2>1. sends' = (sends \ {r}) \cup (IF TRUE THEN {[r EXCEPT !.stage = "generating"]} ELSE {})
    BY <1>4
  <2>2. /\ SendsSound(sends', page.send)
        /\ \A x, u : Cardinality(Waiting(sends', x, u)) <= Cardinality(Waiting(sends, x, u))
    BY <1>1, <2>1, RestagedKeeps
  <2>3. /\ generating' \in [Sessions -> BOOLEAN] /\ human' \in [Sessions -> BOOLEAN]
        /\ \A x \in Sessions \ Created : ~generating'[x]
    BY <1>1, <1>4, RequestFacts
  <2> QED
    BY <1>1, <1>4, <2>2, <2>3, QuietServerKeeps
<1>5. CASE /\ SaveMessages(s, <<"USER">>, r.text)
           /\ StageSaved(r, 1)
           /\ generating' = generating
  <2> DEFINE f == <<"USER">>
  <2>1. /\ f \in Seq(Senders) /\ f[1] = "USER" /\ Len(f) = 1
        /\ \A i \in 2..Len(f) : f[i] # "USER"
    BY OneOrTwo
  <2>2. SaveMessages(r.session, f, r.text)
    BY <1>5
  <2>3. 1 \in Nat /\ 1 >= 1 /\ r.stage \in {"sent", "generating"}
    BY <1>1
  <2> HIDE DEF f
  <2>4. ASSUME ServerTyped', Grows
        PROVE  SendsSound(sends, page.send)' /\ IsFiniteSet(sends')
    BY <1>1, <1>5, <2>1, <2>2, <2>3, <2>4, StageSavedSound
  <2>5. \A x, u : Waiting(sends', x, u) \subseteq Waiting(sends, x, u) \ {r}
    BY <1>5, RequestFacts, StageSavedWaits
  <2> QED
    BY <1>1, <1>5, <2>1, <2>2, <2>3, <2>4, <2>5, RequestFacts, SavedRequestKeeps
<1> QED
  BY <1>2, <1>3, <1>4, <1>5

LEMMA AppendAnswerKeeps ==
  ASSUME UserChatInv, NEW r \in sends, AppendAnswer(r)
  PROVE  UserChatInv'
<1> DEFINE f == <<"USER", "BOT">>
<1>1. /\ r.stage = "generating" /\ mode = "demo"
      /\ UNCHANGED <<mode, owner, human, page, storage, typed, starts, sync, linked>>
      /\ StageSaved(r, 2) /\ generating' = [generating EXCEPT ![r.session] = FALSE]
  BY RequestFacts DEF AppendAnswer, chatPage
<1>2. /\ f \in Seq(Senders) /\ f[1] = "USER" /\ Len(f) = 2
      /\ \A i \in 2..Len(f) : f[i] # "USER"
  BY OneOrTwo
<1>3. SaveMessages(r.session, f, r.text)
  BY DEF AppendAnswer
<1>4. 2 \in Nat /\ 2 >= 1 /\ r.stage \in {"sent", "generating"}
  BY <1>1
<1> HIDE DEF f
<1>5. ASSUME ServerTyped', Grows
      PROVE  SendsSound(sends, page.send)' /\ IsFiniteSet(sends')
  BY <1>1, <1>2, <1>3, <1>4, <1>5, StageSavedSound
<1>6. \A x, u : Waiting(sends', x, u) \subseteq Waiting(sends, x, u) \ {r}
  BY <1>1, RequestFacts, StageSavedWaits
<1>7. /\ generating' \in [Sessions -> BOOLEAN] /\ human' \in [Sessions -> BOOLEAN]
      /\ \A x \in Sessions \ Created : ~generating'[x]
  BY <1>1, RequestFacts
<1> QED
  BY <1>1, <1>2, <1>3, <1>4, <1>5, <1>6, <1>7, SavedRequestKeeps

LEMMA AppendRollsBackKeeps ==
  ASSUME UserChatInv, NEW r \in sends, AppendRollsBack(r)
  PROVE  UserChatInv'
<1>1. /\ r.stage = "generating" /\ mode = "demo"
      /\ UNCHANGED <<mode, log, owner, human, page, storage, typed, starts, sync, wire, linked>>
      /\ generating' = [generating EXCEPT ![r.session] = FALSE] /\ Mishap
  BY RequestFacts DEF AppendRollsBack, chatPage
<1>2. sends' = (sends \ {r}) \cup (IF r.waits THEN {[r EXCEPT !.stage = "refused"]} ELSE {})
  BY DEF AppendRollsBack
<1>3. r.waits \in BOOLEAN
  BY RequestFacts DEF SendRecord
<1>4. /\ SendsSound(sends', page.send)
      /\ \A x, u : Cardinality(Waiting(sends', x, u)) <= Cardinality(Waiting(sends, x, u))
  BY <1>1, <1>2, <1>3, RestagedKeeps
<1>5. /\ generating' \in [Sessions -> BOOLEAN] /\ human' \in [Sessions -> BOOLEAN]
      /\ \A x \in Sessions \ Created : ~generating'[x]
  BY <1>1, RequestFacts
<1> QED
  BY <1>1, <1>4, <1>5, QuietServerKeeps

LEMMA HandleFrameKeeps ==
  ASSUME UserChatInv, NEW r \in sends, HandleFrame(r)
  PROVE  UserChatInv'
<1>1. /\ mode = "authenticated" /\ sends' = sends \ {r} /\ r.stage = "sent"
      /\ UNCHANGED <<mode, owner, human, page, storage, typed, starts, sync, linked>>
  BY RequestFacts DEF HandleFrame, chatPage
<1>2. \/ /\ SaveMessages(r.session, <<"USER">>, r.text)
         /\ generating' = [generating EXCEPT ![r.session] = @ \/ ~human[r.session]]
      \/ Mishap /\ UNCHANGED <<log, wire, generating>>
  BY DEF HandleFrame
<1>3. SendsSound(sends, page.send) /\ sends \ {r} \subseteq sends
  BY DEF UserChatInv
<1>4. /\ SendsSound(sends', page.send)
      /\ \A x, u : Cardinality(Waiting(sends', x, u)) <= Cardinality(Waiting(sends, x, u))
  BY <1>1, <1>3, SendsFewer
<1>5. CASE Mishap /\ UNCHANGED <<log, wire, generating>>
  BY <1>1, <1>4, <1>5, RequestFacts, QuietServerKeeps
<1>6. CASE /\ SaveMessages(r.session, <<"USER">>, r.text)
           /\ generating' = [generating EXCEPT ![r.session] = @ \/ ~human[r.session]]
  <2> DEFINE f == <<"USER">>
  <2>1. /\ f \in Seq(Senders) /\ f[1] = "USER" /\ Len(f) = 1
        /\ \A i \in 2..Len(f) : f[i] # "USER"
    BY OneOrTwo
  <2>2. SaveMessages(r.session, f, r.text) /\ r.stage \in {"sent", "generating"}
    BY <1>1, <1>6
  <2> HIDE DEF f
  <2>3. page.send \in Nat
    BY PageFields, BoundsAreNumbers DEF UserChatInv
  <2>4. ASSUME ServerTyped', Grows
        PROVE  SendsSound(sends, page.send)' /\ IsFiniteSet(sends')
    <3>1. ASSUME NEW j, j = page.send, NEW T, T = sends'
          PROVE  SendsSound(T, j)'
      BY <1>4, <2>3, <2>4, <3>1, RequestFacts, SendsKept
    <3> QED
      BY <1>1, <3>1 DEF SendsSound
  <2>5. \A x, u : Waiting(sends', x, u) \subseteq Waiting(sends, x, u) \ {r}
    BY <1>1 DEF Waiting
  <2>6. /\ generating' \in [Sessions -> BOOLEAN] /\ human' \in [Sessions -> BOOLEAN]
        /\ \A x \in Sessions \ Created : ~generating'[x]
    BY <1>1, <1>6, RequestFacts
  <2> QED
    BY <1>1, <2>1, <2>2, <2>4, <2>5, <2>6, SavedRequestKeeps
<1> QED
  BY <1>2, <1>5, <1>6

\* Messages that are not the customer's.
LEMMA UnaskedKeeps ==
  ASSUME UserChatInv, NEW s \in Created, NEW from \in Senders, from # "USER", NEW text \in Texts,
         SaveMessages(s, <<from>>, text),
         UNCHANGED <<mode, owner, page, storage, typed, starts, sync, sends, linked>>,
         human' \in [Sessions -> BOOLEAN], generating' \in [Sessions -> BOOLEAN],
         \A x \in Sessions \ Created : ~generating'[x]
  PROVE  UserChatInv'
<1> DEFINE f == <<from>>
<1>1. f \in Seq(Senders) /\ f[1] = from /\ Len(f) = 1 /\ \A i \in 2..Len(f) : f[i] # "USER"
  OBVIOUS
<1>2. SaveMessages(s, f, text)
  OBVIOUS
<1> HIDE DEF f
<1>3. /\ ServerTyped /\ TypedTyped /\ TypedCovers /\ SendsSound(sends, page.send) /\ SoundNow
      /\ s \in Sessions
  BY DEF UserChatInv, Created
<1>4. ServerTyped' /\ Grows /\ SoundNow' /\ TypedTyped' /\ mishaps' \in 0..MaxMishaps
  BY <1>1, <1>2, SavingKeeps
<1>5. page.send \in Nat
  BY <1>3, PageFields, BoundsAreNumbers
<1>6. SendsSound(sends, page.send)'
  <2>1. ASSUME NEW j, j = page.send, NEW T, T = sends
        PROVE  SendsSound(T, j)'
    BY <1>3, <1>4, <1>5, <2>1, SendsKept
  <2> QED
    BY <2>1 DEF SendsSound
<1>7. TypedCovers'
  <2>1. \A x \in Sessions, u \in Texts :
           /\ Cardinality(Logged(x, u)') \in Nat
           /\ Cardinality(Logged(x, u)')
                <= Cardinality(Logged(x, u))
                     + (IF x = s /\ u = text /\ f[1] = "USER" THEN 1 ELSE 0)
    BY <1>1, <1>2, <1>3, LoggedOnceMore
  <2>2. \A x \in Sessions, u \in Texts :
           /\ Cardinality(Logged(x, u)') \in Nat
           /\ Cardinality(Logged(x, u)')
                <= Cardinality(Logged(x, u)) + (IF x = s /\ u = text /\ FALSE THEN 1 ELSE 0)
    BY <1>1, <2>1
  <2>3. IsFiniteSet(sends)
    BY <1>3 DEF SendsSound
  <2>4. \A x, u : Cardinality(Waiting(sends', x, u)) <= Cardinality(Waiting(sends, x, u))
    <3> TAKE x, u
    <3>1. Cardinality(Waiting(sends, x, u)) \in Nat
      BY <2>3, WaitingFinite
    <3> QED
      BY <3>1
  <2> QED
    BY <1>3, <2>2, <2>3, <2>4, CoversKept
<1> QED
  BY <1>3, <1>4, <1>6, <1>7 DEF UserChatInv

\* The bot's answer to an authenticated customer.
LEMMA GenerateAndSendResponseKeeps ==
  ASSUME UserChatInv, NEW s \in Sessions, GenerateAndSendResponse(s)
  PROVE  UserChatInv'
<1>1. /\ UNCHANGED <<mode, owner, human, page, storage, typed, starts, sync, sends, linked>>
      /\ generating' = [generating EXCEPT ![s] = FALSE] /\ generating[s]
  BY DEF GenerateAndSendResponse, chatPage
<1>2. /\ ServerTyped /\ SendsSound(sends, page.send) /\ s \in Created
      /\ human' \in [Sessions -> BOOLEAN] /\ generating' \in [Sessions -> BOOLEAN]
      /\ \A x \in Sessions \ Created : ~generating'[x]
  BY <1>1 DEF UserChatInv, ServerTyped
<1>3. \/ \E t \in Texts : SaveMessages(s, <<"BOT">>, t)
      \/ UNCHANGED <<log, wire, mishaps>>
  BY DEF GenerateAndSendResponse
<1>4. ASSUME NEW t \in Texts, SaveMessages(s, <<"BOT">>, t) PROVE UserChatInv'
  <2>1. "BOT" \in Senders /\ "BOT" # "USER"
    BY DEF Senders
  <2> QED
    BY <1>1, <1>2, <1>4, <2>1, UnaskedKeeps
<1>5. CASE UNCHANGED <<log, wire, mishaps>>
  <2>1. \A x, u : Cardinality(Waiting(sends', x, u)) <= Cardinality(Waiting(sends, x, u))
    <3>1. sends' \subseteq sends
      BY <1>1
    <3> QED
      BY <1>2, <3>1, SendsFewer
  <2> QED
    BY <1>1, <1>2, <1>5, <2>1, QuietServerKeeps
<1> QED
  BY <1>3, <1>4, <1>5

\* The counselor's messages.
LEMMA CounselorSpeaksKeeps ==
  ASSUME UserChatInv, NEW s \in Sessions, CounselorSpeaks(s)
  PROVE  UserChatInv'
<1>1. /\ UNCHANGED <<mode, owner, generating, page, storage, typed, starts, sync, sends, linked>>
      /\ human' = [human EXCEPT ![s] = TRUE] /\ s \in Created
  BY DEF CounselorSpeaks, chatPage
<1>2. /\ human' \in [Sessions -> BOOLEAN] /\ generating' \in [Sessions -> BOOLEAN]
      /\ \A x \in Sessions \ Created : ~generating'[x]
  BY <1>1 DEF UserChatInv, ServerTyped
<1>3. PICK t \in Texts, from \in IF human[s] THEN {"AGENT", "BOT"} ELSE {"SYSTEM"} :
        SaveMessages(s, <<from>>, t)
  BY DEF CounselorSpeaks
<1>4. from \in {"AGENT", "BOT", "SYSTEM"}
  OBVIOUS
<1>5. from \in Senders /\ from # "USER"
  BY <1>4 DEF Senders
<1> QED
  BY <1>1, <1>2, <1>3, <1>5, UnaskedKeeps

\* A request gets its session.
Arrived(r, s, since) == [r EXCEPT !.session = s, !.since = since]

\* Sessions are created one after the other.
LEMMA CreatedIs ==
  ASSUME ServerTyped
  PROVE  /\ Cardinality(Created) \in 0..MaxSessions /\ Created = 1..Cardinality(Created)
         /\ \A s \in Created : s \in Sessions /\ s # NoSession
<1>1. PICK k \in 0..MaxSessions : Created = 1..k
  BY DEF ServerTyped
<1>2. k \in Nat
  BY <1>1, BoundsAreNumbers
<1>3. Cardinality(1..k) = k
  <2>1. Cardinality(1..k) = IF 1 > k THEN 0 ELSE k - 1 + 1
    BY <1>2, FS_Interval
  <2> QED
    BY <1>2, <2>1
<1>4. \A s \in Created : s \in Sessions /\ s # NoSession
  BY BoundsAreNumbers DEF Created, Sessions, NoSession
<1> QED
  BY <1>1, <1>3, <1>4

\* A session for the first who asks, with the demo's greeting.
LEMMA NewSession ==
  ASSUME UserChatInv, NEW s, s = Cardinality(Created) + 1, s \in Sessions, NEW n \in Names,
         owner' = [owner EXCEPT ![s] = n],
         log' = [log EXCEPT ![s] =
                   IF mode = "demo" THEN <<[from |-> "BOT", text |-> CHOOSE t \in Texts : TRUE]>>
                                    ELSE <<>>],
         UNCHANGED <<mode, human, generating>>
  PROVE  /\ ServerTyped' /\ Grows /\ s \in Created' /\ owner'[s] = n /\ Len(log'[s]) \in Nat
         /\ \A x \in Sessions, u \in Texts : Logged(x, u)' = Logged(x, u)
<1> DEFINE greeting == IF mode = "demo" THEN <<[from |-> "BOT", text |-> CHOOSE t \in Texts : TRUE]>>
                                        ELSE <<>>
<1>1. ServerTyped
  BY DEF UserChatInv
<1>2. greeting \in Seq(LogEntry) /\ Len(greeting) <= 1 /\ Len(greeting) \in Nat
      /\ \A i \in 1..Len(greeting) : greeting[i].from = "BOT"
  <2>1. (CHOOSE t \in Texts : TRUE) \in Texts
    BY ChatTextsAssumption
  <2>2. [from |-> "BOT", text |-> CHOOSE t \in Texts : TRUE] \in LogEntry
    BY <2>1 DEF LogEntry, Senders
  <2>3. CASE mode = "demo"
    BY <2>2, <2>3
  <2>4. CASE mode # "demo"
    BY <2>4
  <2> QED
    BY <2>3, <2>4
<1> HIDE DEF greeting
<1>3. log' = [log EXCEPT ![s] = greeting]
  BY DEF greeting
<1>4. log \in [Sessions -> Seq(LogEntry)] /\ owner \in [Sessions -> Names \cup {NoName}]
      /\ \A x \in Sessions : Len(log[x]) \in Nat /\ Len(log[x]) <= MaxLog
  BY <1>1 DEF ServerTyped
<1>5. s \notin Created /\ log[s] = <<>>
  <2>1. s \notin Created
    BY <1>1, CreatedIs
  <2> QED
    BY <1>1, <2>1 DEF ServerTyped
<1>6. log' \in [Sessions -> Seq(LogEntry)] /\ log'[s] = greeting /\ \A x \in Sessions \ {s} : log'[x] = log[x]
  BY <1>2, <1>3, <1>4
<1>7. /\ owner' \in [Sessions -> Names \cup {NoName}] /\ owner'[s] = n
      /\ \A x \in Sessions \ {s} : owner'[x] = owner[x]
  BY <1>4
<1>8. Created' = Created \cup {s}
  BY <1>7, ChatNamesAssumption DEF Created
<1>9. \E k \in 0..MaxSessions : Created' = 1..k
  <2> DEFINE c == Cardinality(Created)
  <2>1. c \in 0..MaxSessions /\ Created = 1..c /\ c \in Nat
    BY <1>1, CreatedIs, BoundsAreNumbers
  <2> HIDE DEF c
  <2>2. s = c + 1 /\ s \in 0..MaxSessions
    BY BoundsAreNumbers DEF c, Sessions
  <2>3. Created' = 1..s
    BY <1>8, <2>1, <2>2
  <2> QED
    BY <2>2, <2>3
<1>10. \A x \in Sessions : Len(log'[x]) <= MaxLog
  BY <1>2, <1>4, <1>6, BoundsAreNumbers
<1>11. ServerTyped'
  <2>1. \A x \in Sessions \ Created' : log'[x] = <<>> /\ ~generating'[x]
    BY <1>1, <1>6, <1>8 DEF ServerTyped
  <2> QED
    BY <1>1, <1>6, <1>7, <1>9, <1>10, <2>1 DEF ServerTyped
<1>12. Grows
  <2>1. \A x \in Sessions : Len(log[x]) <= Len(log'[x]) /\ \A i \in 1..Len(log[x]) : log'[x][i] = log[x][i]
    <3> TAKE x \in Sessions
    <3>1. CASE x = s
      <4>1. Len(log[s]) = 0
        BY <1>5
      <4> QED
        BY <1>2, <1>6, <3>1, <4>1
    <3>2. CASE x # s
      BY <1>4, <1>6, <3>2
    <3> QED
      BY <3>1, <3>2
  <2>2. \A x \in Created : x \in Created' /\ owner'[x] = owner[x]
    BY <1>5, <1>7, <1>8 DEF Created
  <2> QED
    BY <2>1, <2>2 DEF Grows
<1>13. \A x \in Sessions, u \in Texts : Logged(x, u)' = Logged(x, u)
  <2> TAKE x \in Sessions, u \in Texts
  <2>1. CASE x = s
    <3>1. Len(log[s]) = 0
      BY <1>5
    <3>2. Logged(s, u) = {}
      BY <3>1 DEF Logged
    <3>3. {i \in 1..Len(log'[s]) : log'[s][i] = [from |-> "USER", text |-> u]} = {}
      <4> SUFFICES ASSUME NEW i \in 1..Len(log'[s]), log'[s][i] = [from |-> "USER", text |-> u]
                   PROVE  FALSE
        OBVIOUS
      <4>1. log'[s][i].from = "BOT"
        BY <1>2, <1>6
      <4> QED
        BY <4>1
    <3> QED
      BY <2>1, <3>2, <3>3 DEF Logged
  <2>2. CASE x # s
    BY <1>6, <2>2 DEF Logged
  <2> QED
    BY <2>1, <2>2
<1>14. Len(log'[s]) \in Nat
  BY <1>2, <1>6
<1> QED
  BY <1>7, <1>8, <1>11, <1>12, <1>13, <1>14

\* A session is created or found again, and its request answered.
LEMMA CreateSessionKeeps ==
  ASSUME UserChatInv, NEW r \in starts, CreateSession(r)
  PROVE  UserChatInv'
<1>1. /\ ServerTyped /\ SoundNow /\ TypedTyped /\ TypedCovers /\ SendsSound(sends, page.send)
      /\ linked \in BOOLEAN /\ mishaps \in 0..MaxMishaps
  BY DEF UserChatInv
<1>2. /\ r.session = NoSession
      /\ UNCHANGED <<mode, human, generating, page, storage, typed, sync, sends, wire, linked, mishaps>>
  BY DEF CreateSession, chatPage
<1>3. StartsSound(starts, page) /\ r \in StartRecord /\ r.name \in Names
  BY <1>1 DEF SoundNow, Sound, StartsSound, StartRecord
<1> DEFINE c == Cardinality(Created)
           reuse == mode = "authenticated" /\ ~r.fresh /\ Created # {}
<1>4. PICK s : /\ s = IF reuse THEN c ELSE c + 1
               /\ s \in Sessions
               /\ IF reuse
                  THEN UNCHANGED <<owner, log>>
                  ELSE /\ owner' = [owner EXCEPT ![s] = r.name]
                       /\ log' = [log EXCEPT ![s] =
                            IF mode = "demo" THEN <<[from |-> "BOT", text |-> CHOOSE t \in Texts : TRUE]>>
                                             ELSE <<>>]
               /\ starts' = (starts \ {r}) \cup {Arrived(r, s, Len(log'[s]))}
  BY DEF CreateSession, Arrived
<1>5. /\ ServerTyped' /\ Grows /\ s \in Created' /\ (mode' = "demo" => owner'[s] = r.name)
      /\ Len(log'[s]) \in Nat
      /\ \A x \in Sessions, u \in Texts : Logged(x, u)' = Logged(x, u)
  <2>1. CASE reuse
    <3>1. UNCHANGED <<mode, chatServer>>
      BY <1>2, <1>4, <2>1 DEF chatServer
    <3>2. s \in Created
      <4>1. c \in 0..MaxSessions /\ Created = 1..c /\ Created # {}
        BY <1>1, <2>1, CreatedIs
      <4> HIDE DEF c
      <4>2. c \in 1..c
        BY <4>1, BoundsAreNumbers
      <4> QED
        BY <1>4, <2>1, <4>1, <4>2
    <3>3. Created' = Created /\ Len(log[s]) \in Nat
      BY <1>1, <1>4, <2>1 DEF Created, ServerTyped
    <3> QED
      BY <1>1, <1>2, <1>4, <2>1, <3>1, <3>2, <3>3, ServerSame
  <2>2. CASE ~reuse
    <3>1. s = Cardinality(Created) + 1
      BY <1>4, <2>2
    <3> QED
      BY <1>2, <1>3, <1>4, <2>2, <3>1, NewSession
  <2> QED
    BY <2>1, <2>2
<1> HIDE DEF c, reuse
<1>6. TypedTyped' /\ TypedKept
  BY <1>1, <1>2, TypedSame
<1>7. PageSound(page)' /\ StorageSound(storage)' /\ NetSound(page, sync, wire)'
  <2>1. PageSound(page') /\ StorageSound(storage') /\ NetSound(page', sync', wire')
    BY <1>1, <1>2 DEF SoundNow, Sound
  <2> QED
    BY <1>1, <1>5, <1>6, <2>1, PageKept, StorageKept, NetKept
<1>8. StartsSound(starts, page)'
  <2> DEFINE a == Arrived(r, s, Len(log'[s]))
  <2>1. /\ r.id <= page.start /\ (r.id = page.start => r.name = page.name /\ page.session = NoSession)
        /\ \A q \in starts \ {r} : q.id # r.id
    BY <1>3 DEF StartsSound
  <2>2. /\ a \in StartRecord /\ a.session = s /\ a.since = Len(log'[s]) /\ a.id = r.id /\ a.name = r.name
    BY <1>3, <1>4, <1>5 DEF StartRecord, Arrived
  <2>3. /\ \A q \in starts :
             /\ q \in StartRecord
             /\ q.session # NoSession =>
                  /\ q.session \in Created' /\ q.since <= Len(log'[q.session])
                  /\ mode' = "demo" => owner'[q.session] = q.name
             /\ q.id <= page.start
             /\ q.id = page.start => q.name = page.name /\ page.session = NoSession
        /\ \A q, o \in starts : q.id = o.id => q = o
    <3>1. ASSUME NEW T, T = starts
          PROVE  StartsSound(T, page)'
      <4>1. StartsSound(T, page')
        BY <1>2, <1>3, <3>1
      <4> QED
        BY <1>1, <1>5, <4>1, StartsKept
    <3> QED
      BY <1>2, <3>1 DEF StartsSound
  <2>4. starts' = (starts \ {r}) \cup {a} /\ page' = page
    BY <1>2, <1>4
  <2>5. a.since <= Len(log'[a.session])
    BY <1>5, <2>2
  <2> HIDE DEF a
  <2> QED
    BY <1>5, <2>1, <2>2, <2>3, <2>4, <2>5 DEF StartsSound
<1>9. SendsSound(sends, page.send)'
  <2>1. page.send \in Nat
    BY <1>1, PageFields, BoundsAreNumbers
  <2>2. ASSUME NEW j, j = page.send, NEW T, T = sends
        PROVE  SendsSound(T, j)'
    BY <1>1, <1>5, <2>1, <2>2, SendsKept
  <2> QED
    BY <1>2, <2>2 DEF SendsSound
<1>10. TypedCovers'
  <2>1. \A x \in Sessions, u \in Texts : TypedTimes(x, u)' = TypedTimes(x, u)
    BY <1>1, <1>2, TypedSame
  <2> QED
    BY <1>1, <1>2, <1>5, <2>1 DEF TypedCovers, Waiting
<1> QED
  BY <1>1, <1>2, <1>5, <1>6, <1>7, <1>8, <1>9, <1>10 DEF UserChatInv, SoundNow, Sound

-----------------------------------------------------------------------------
(* Every step.                                                               *)

\* The invariant holds at the start,
LEMMA InvInitial == UserChatInit => UserChatInv
<1> SUFFICES ASSUME UserChatInit PROVE UserChatInv
  OBVIOUS
<1>1. /\ <<>> \in Seq(ScreenMessage) /\ <<>> \in Seq(LogEntry) /\ <<>> \in Seq(Texts) /\ Len(<<>>) = 0
      /\ ToSet(<<>>) = {}
  BY EmptyScreen
<1>2. Created = {}
  BY DEF UserChatInit, Created
<1>3. ServerTyped
  <2>1. \E k \in 0..MaxSessions : Created = 1..k
    <3>1. 0 \in 0..MaxSessions /\ {} = 1..0
      BY BoundsAreNumbers
    <3> QED
      BY <1>2, <3>1
  <2>2. \A s \in Sessions : Len(log[s]) <= MaxLog
    BY <1>1, BoundsAreNumbers DEF UserChatInit
  <2> QED
    BY <1>1, <2>1, <2>2 DEF UserChatInit, ServerTyped
<1>4. SoundNow
  <2>1. PageSound(page)
    <3>1. 0 \in 0..MaxTyped
      BY BoundsAreNumbers
    <3>2. page \in PageRecord
      BY <3>1, FreshPageFacts DEF UserChatInit
    <3> QED
      BY <3>2 DEF UserChatInit, PageSound, FreshPage
  <2>2. StorageSound(storage)
    <3> SUFFICES ASSUME NEW n \in Names PROVE KeptSound(n, storage[n])
      BY DEF UserChatInit, StorageSound
    <3>1. storage[n] = [session |-> NoSession, messages |-> <<>>]
      BY DEF UserChatInit
    <3>2. ScreenOf(<<>>, NoSession, 0)
      BY EmptyScreen
    <3> QED
      BY <1>1, <3>1, <3>2 DEF KeptSound, KeptRecord
  <2>3. StartsSound(starts, page)
    BY DEF UserChatInit, StartsSound
  <2>4. NetSound(page, sync, wire)
    BY DEF UserChatInit, NetSound, NoSync, NoSession, FreshPage
  <2> QED
    BY <2>1, <2>2, <2>3, <2>4 DEF SoundNow, Sound
<1>5. SendsSound(sends, page.send)
  BY FS_EmptySet DEF UserChatInit, SendsSound
<1>6. TypedTyped
  BY <1>1 DEF UserChatInit, TypedTyped
<1>7. TypedCovers
  <2> SUFFICES ASSUME NEW s \in Sessions, NEW t \in Texts
               PROVE  Cardinality(Logged(s, t)) + Cardinality(Waiting(sends, s, t)) <= TypedTimes(s, t)
    BY DEF TypedCovers
  <2>1. log[s] = <<>> /\ sends = {}
    BY DEF UserChatInit
  <2>2. Logged(s, t) = {} /\ Waiting(sends, s, t) = {}
    BY <1>1, <2>1 DEF Logged, Waiting
  <2>3. Cardinality({}) = 0
    BY FS_EmptySet
  <2>4. TypedTimes(s, t) \in Nat
    BY <1>6, TypedNumber
  <2> QED
    BY <2>2, <2>3, <2>4
<1>8. linked \in BOOLEAN /\ mishaps \in 0..MaxMishaps
  <2>1. 0 \in 0..MaxMishaps
    BY BoundsAreNumbers
  <2>2. linked = FALSE /\ mishaps = 0
    BY DEF UserChatInit
  <2> QED
    BY <2>1, <2>2
<1> QED
  BY <1>3, <1>4, <1>5, <1>6, <1>7, <1>8 DEF UserChatInv

\* every step keeps it,
LEMMA InvKept == UserChatInv /\ [UserChatNext]_userChatVars => UserChatInv'
<1> SUFFICES ASSUME UserChatInv, [UserChatNext]_userChatVars PROVE UserChatInv'
  OBVIOUS
<1>1. ASSUME NEW n \in Names, LoadPage(n) PROVE UserChatInv'
  BY <1>1, LoadPageKeeps
<1>2. ASSUME NEW r \in starts, CreateSession(r) PROVE UserChatInv'
  BY <1>2, CreateSessionKeeps
<1>3. ASSUME NEW t \in Texts, HandleSendMessage(t) PROVE UserChatInv'
  BY <1>3, HandleSendMessageKeeps
<1>4. ASSUME NEW r \in sends,
             \/ SendFails(r) \/ AppendMessage(r) \/ AppendAnswer(r) \/ AppendRollsBack(r) \/ HandleFrame(r)
      PROVE  UserChatInv'
  BY <1>4, SendFailsKeeps, AppendMessageKeeps, AppendAnswerKeeps, AppendRollsBackKeeps, HandleFrameKeeps
<1>5. ASSUME NEW s \in Sessions, GenerateAndSendResponse(s) \/ CounselorSpeaks(s) PROVE UserChatInv'
  BY <1>5, GenerateAndSendResponseKeeps, CounselorSpeaksKeeps
<1>6. CASE UNCHANGED userChatVars
  <2>1. UNCHANGED <<mode, log, owner, human, generating, page, storage, typed, starts, sync, sends, wire,
                    linked, mishaps>>
    BY <1>6 DEF userChatVars, chatServer, chatPage, chatNet
  <2>2. /\ human' \in [Sessions -> BOOLEAN] /\ generating' \in [Sessions -> BOOLEAN]
        /\ \A x \in Sessions \ Created : ~generating'[x]
    BY <2>1 DEF UserChatInv, ServerTyped
  <2>3. SendsSound(sends, page.send) /\ sends' \subseteq sends
    BY <2>1 DEF UserChatInv
  <2>4. /\ SendsSound(sends', page.send)
        /\ \A s, t : Cardinality(Waiting(sends', s, t)) <= Cardinality(Waiting(sends, s, t))
    BY <2>3, SendsFewer
  <2> QED
    BY <2>1, <2>2, <2>4, QuietServerKeeps
<1> QED
  BY <1>1, <1>2, <1>3, <1>4, <1>5, <1>6, PageNextKeeps DEF UserChatNext

\* and so it always holds.
LEMMA InvAlways == UserChatSpec => []UserChatInv
  BY InvInitial, InvKept, PTL DEF UserChatSpec

-----------------------------------------------------------------------------
(* What every step leaves on the screen and of the typing indicator.         *)

\* The requests the open conversation waits for are still waited for.
WaitersKept ==
  \A q \in sends : q.waits /\ IsCurrentConversation(q.session, q.name) =>
    \E o \in sends' : o.waits /\ o.session = q.session /\ o.name = q.name

\* A step that is not a message sent.
IndicatorStep == IndicatorEnded \/ (IndicatorKept /\ (mode = "demo" => WaitersKept))

\* A step that leaves the page as it is.
LEMMA SamePage ==
  ASSUME page' = page
  PROVE  SavedStays /\ IndicatorKept
BY DEF SavedStays, IndicatorKept

\* A step that leaves the messages on their way as they are.
LEMMA SameWaiters ==
  ASSUME sends' = sends
  PROVE  WaitersKept
BY DEF WaitersKept

\* A step of the page that does neither with the messages on their way.
LEMMA QuietIndicator ==
  ASSUME PageStep, sends' = sends
  PROVE  SavedStays /\ IndicatorStep
BY SameWaiters DEF PageStep, IndicatorStep

\* A request that is answered, fails or is refused by the server for another
\* conversation is not one the open conversation waits for.
LEMMA OthersWaiters ==
  ASSUME NEW r \in sends, sends \ {r} \subseteq sends', ~IsCurrentConversation(r.session, r.name)
  PROVE  WaitersKept
BY DEF WaitersKept, IsCurrentConversation

\* A request that goes on, under another stage.
LEMMA RestagedWaiters ==
  ASSUME NEW r \in sends, sends \ {r} \subseteq sends',
         r.waits => \E o \in sends' : o.waits /\ o.session = r.session /\ o.name = r.name
  PROVE  WaitersKept
BY DEF WaitersKept

\* A message that is saved is waited for until it is answered.
LEMMA StageSavedWaiters ==
  ASSUME NEW r \in sends, r \in SendRecord, NEW n, StageSaved(r, n)
  PROVE  WaitersKept
<1> DEFINE a == [r EXCEPT !.stage = "saved", !.from = Len(log[r.session]) + 1,
                          !.upTo = Len(log[r.session]) + n]
<1>1. a.waits = r.waits /\ a.session = r.session /\ a.name = r.name
  BY DEF SendRecord
<1>2. sends \ {r} \subseteq sends' /\ (r.waits => a \in sends')
  BY DEF StageSaved
<1> HIDE DEF a
<1> QED
  BY <1>1, <1>2, RestagedWaiters

\* A message that is being answered, or refused, is waited for as well.
LEMMA StagedWaiters ==
  ASSUME NEW r \in sends, r \in SendRecord, NEW st, NEW a, a = [r EXCEPT !.stage = st],
         sends \ {r} \subseteq sends', r.waits => a \in sends'
  PROVE  WaitersKept
<1>1. a.waits = r.waits /\ a.session = r.session /\ a.name = r.name
  BY DEF SendRecord
<1> QED
  BY <1>1, RestagedWaiters

\* Every step of the system, for what it leaves on the screen and of the indicator.
LEMMA EveryStep ==
  ASSUME UserChatInv, [UserChatNext]_userChatVars
  PROVE  mode' = mode /\ SavedStays /\ (IndicatorStep \/ \E t \in Texts : HandleSendMessage(t))
<1>0. Ready /\ \A r \in sends : r \in SendRecord
  BY InvReady DEF UserChatInv, SendsSound
<1> DEFINE Goal == mode' = mode /\ SavedStays /\ IndicatorStep
<1>1. ASSUME NEW n \in Names, LoadPage(n) \/ Navigate(n) \/ HandleNameSubmit(n) PROVE Goal
  <2>1. CASE LoadPage(n)
    <3>1. mode' = mode
      BY <2>1 DEF LoadPage
    <3> QED
      BY <1>0, <2>1, <3>1, LoadPageStep DEF PageStep, IndicatorStep
  <2>2. CASE Navigate(n)
    <3>1. mode' = mode /\ sends' = sends
      BY <2>2 DEF Navigate
    <3> QED
      BY <1>0, <2>2, <3>1, NavigateStep, QuietIndicator
  <2>3. CASE HandleNameSubmit(n)
    <3>1. mode' = mode /\ sends' = sends
      BY <2>3 DEF HandleNameSubmit
    <3> QED
      BY <1>0, <2>3, <3>1, HandleNameSubmitStep, QuietIndicator
  <2> QED
    BY <1>1, <2>1, <2>2, <2>3
<1>2. CASE HandleStartNewSession
  <2>1. mode' = mode /\ sends' = sends
    BY <1>2 DEF HandleStartNewSession
  <2> QED
    BY <1>0, <1>2, <2>1, HandleStartNewSessionStep, QuietIndicator
<1>3. CASE HandleResetToNameForm
  <2>1. mode' = mode /\ sends' = sends
    BY <1>3 DEF HandleResetToNameForm
  <2> QED
    BY <1>0, <1>3, <2>1, HandleResetToNameFormStep, QuietIndicator
<1>4. ASSUME NEW r \in starts, SessionArrives(r) \/ StartFails(r) \/ CreateSession(r) PROVE Goal
  <2>1. mode' = mode /\ sends' = sends
    BY <1>4 DEF SessionArrives, StartFails, CreateSession
  <2>2. CASE SessionArrives(r)
    BY <1>0, <2>1, <2>2, SessionArrivesStep, QuietIndicator
  <2>3. CASE StartFails(r)
    BY <1>0, <2>1, <2>3, StartFailsStep, QuietIndicator
  <2>4. CASE CreateSession(r)
    <3>1. page' = page
      BY <2>4 DEF CreateSession, chatPage
    <3> QED
      BY <2>1, <3>1, SamePage, SameWaiters DEF IndicatorStep
  <2> QED
    BY <1>4, <2>2, <2>3, <2>4
<1>5. ASSUME NEW t \in Texts, HandleSendMessage(t) PROVE mode' = mode /\ SavedStays
  <2>1. mode' = mode
    BY <1>5 DEF HandleSendMessage
  <2> QED
    BY <1>5, <2>1, HandleSendMessageKeeps
<1>6. ASSUME NEW r \in sends, SendAnswered(r) \/ SendFails(r) PROVE Goal
  <2>1. mode' = mode /\ sends \ {r} \subseteq sends'
    BY <1>6 DEF SendAnswered, SendFails
  <2>2. /\ PageStep
        /\ IF IsCurrentConversation(r.session, r.name) THEN IndicatorEnded ELSE page' = page
    BY <1>0, <1>6, SendAnsweredStep, SendFailsStep
  <2> QED
    BY <2>1, <2>2, OthersWaiters, SamePage DEF PageStep, IndicatorStep
<1>7. ASSUME NEW r \in sends, AppendMessage(r) \/ AppendAnswer(r) \/ AppendRollsBack(r) PROVE Goal
  <2>1. mode' = mode /\ page' = page
    BY <1>7 DEF AppendMessage, AppendAnswer, AppendRollsBack, chatPage
  <2>2. \/ StageSaved(r, 1) \/ StageSaved(r, 2)
        \/ sends' = (sends \ {r}) \cup {[q EXCEPT !.stage = "refused"] : q \in {q \in {r} : q.waits}}
        \/ sends' = (sends \ {r}) \cup {[r EXCEPT !.stage = "generating"]}
    BY <1>7 DEF AppendMessage, AppendAnswer, AppendRollsBack
  <2>3. WaitersKept
    <3>1. CASE StageSaved(r, 1) \/ StageSaved(r, 2)
      BY <1>0, <3>1, StageSavedWaiters
    <3>2. CASE sends' = (sends \ {r}) \cup {[q EXCEPT !.stage = "refused"] : q \in {q \in {r} : q.waits}}
      <4>1. sends \ {r} \subseteq sends' /\ (r.waits => [r EXCEPT !.stage = "refused"] \in sends')
        BY <3>2
      <4> QED
        BY <1>0, <4>1, StagedWaiters
    <3>3. CASE sends' = (sends \ {r}) \cup {[r EXCEPT !.stage = "generating"]}
      BY <1>0, <3>3, StagedWaiters
    <3> QED
      BY <2>2, <3>1, <3>2, <3>3
  <2> QED
    BY <2>1, <2>3, SamePage DEF IndicatorStep
<1>8. ASSUME NEW r \in sends, HandleFrame(r) PROVE Goal
  <2>1. mode' = mode /\ mode # "demo" /\ page' = page
    BY <1>8 DEF HandleFrame, chatPage
  <2> QED
    BY <2>1, SamePage DEF IndicatorStep
<1>9. CASE TypingTimeout
  <2>1. mode' = mode /\ sends' = sends
    BY <1>9 DEF TypingTimeout, chatNet
  <2> QED
    BY <1>0, <1>9, <2>1, TypingTimeoutStep, QuietIndicator
<1>10. CASE SnapshotArrives
  <2>1. mode' = mode /\ sends' = sends
    BY <1>10 DEF SnapshotArrives
  <2> QED
    BY <1>0, <1>10, <2>1, SnapshotArrivesStep, QuietIndicator
<1>11. CASE SnapshotFails
  <2>1. mode' = mode /\ sends' = sends
    BY <1>11 DEF SnapshotFails
  <2> QED
    BY <1>0, <1>11, <2>1, SnapshotFailsStep, QuietIndicator
<1>12. ASSUME NEW i \in 1..MaxLog, Deliver(i) PROVE Goal
  <2>1. mode' = mode /\ sends' = sends
    BY <1>12 DEF Deliver
  <2> QED
    BY <1>0, <1>12, <2>1, DeliverStep, QuietIndicator
<1>13. CASE StompConnects \/ StompDisconnects
  <2>1. mode' = mode /\ (mode = "demo" => sends' = sends)
    BY <1>13 DEF StompConnects, StompDisconnects
  <2>2. page' = page
    BY <1>0, <1>13, StompStep
  <2> QED
    BY <2>1, <2>2, SamePage, SameWaiters DEF IndicatorStep
<1>14. ASSUME NEW s \in Sessions, GenerateAndSendResponse(s) \/ CounselorSpeaks(s) PROVE Goal
  <2>1. mode' = mode /\ sends' = sends /\ page' = page
    BY <1>14 DEF GenerateAndSendResponse, CounselorSpeaks, chatPage
  <2> QED
    BY <2>1, SamePage, SameWaiters DEF IndicatorStep
<1>15. CASE UNCHANGED userChatVars
  <2>1. mode' = mode /\ sends' = sends /\ page' = page
    BY <1>15 DEF userChatVars, chatPage, chatNet
  <2> QED
    BY <2>1, SamePage, SameWaiters DEF IndicatorStep
<1> QED
  BY <1>1, <1>2, <1>3, <1>4, <1>5, <1>6, <1>7, <1>8, <1>9, <1>10, <1>11, <1>12, <1>13, <1>14, <1>15
     DEF UserChatNext

\* The indicator has an end after every step.
LEMMA IndicatorKeeps ==
  ASSUME UserChatInv, TypingIndicatorEnds, [UserChatNext]_userChatVars
  PROVE  TypingIndicatorEnds'
<1>1. mode' = mode /\ (IndicatorStep \/ \E t \in Texts : HandleSendMessage(t))
  BY EveryStep
<1>2. CASE IndicatorStep
  BY <1>1, <1>2
     DEF IndicatorStep, IndicatorEnded, IndicatorKept, WaitersKept, TypingIndicatorEnds, IsCurrentConversation
<1>3. CASE \E t \in Texts : HandleSendMessage(t)
  <2>1. PICK t \in Texts : HandleSendMessage(t)
    BY <1>3
  <2> DEFINE a == [id |-> page.send + 1, session |-> page.session, name |-> page.name, text |-> t,
                   stage |-> "sent", from |-> 0, upTo |-> 0, waits |-> mode = "demo"]
  <2>2. a \in sends' /\ a.session = page.session /\ a.name = page.name /\ (mode = "demo" => a.waits)
    BY <2>1 DEF HandleSendMessage
  <2>3. page \in PageRecord
    BY PageFields DEF UserChatInv
  <2>4. page'.session = page.session /\ page'.name = page.name
    BY <2>1, <2>3 DEF HandleSendMessage, PageRecord
  <2> HIDE DEF a
  <2> QED
    BY <1>1, <2>2, <2>4 DEF TypingIndicatorEnds, IsCurrentConversation
<1> QED
  BY <1>1, <1>2, <1>3

-----------------------------------------------------------------------------
(* What the invariant says of the screen.                                    *)

\* The forms of the variables.
LEMMA InvTypes ==
  ASSUME UserChatInv
  PROVE  ChatTypeOK
<1>1. /\ ServerTyped /\ SoundNow /\ SendsSound(sends, page.send) /\ TypedTyped /\ linked \in BOOLEAN
      /\ mishaps \in 0..MaxMishaps
  BY DEF UserChatInv
<1>2. /\ mode \in {"demo", "authenticated"}
      /\ log \in [Sessions -> Seq([from : Senders, text : Texts])]
      /\ owner \in [Sessions -> Names \cup {NoName}]
      /\ human \in [Sessions -> BOOLEAN]
      /\ generating \in [Sessions -> BOOLEAN]
  BY <1>1 DEF ServerTyped, LogEntry
<1>3. page \in PageRecord
  BY <1>1, PageFields
<1>4. \A r \in starts : r.name \in Names /\ r.session \in {NoSession} \cup Created
  BY <1>1 DEF SoundNow, Sound, StartsSound, StartRecord
<1>5. sync.session \in {NoSession, page.session}
  BY <1>1 DEF SoundNow, Sound, NetSound, NoSync
<1>6. \A r \in sends :
        /\ r.id \in 1..MaxTyped /\ r.session \in Created /\ r.text \in Texts
        /\ r.stage = "saved" =>
             /\ 1 <= r.from /\ r.from <= r.upTo /\ r.upTo <= Len(log[r.session])
             /\ log[r.session][r.from] = [from |-> "USER", text |-> r.text]
  <2> TAKE r \in sends
  <2>1. r.id \in 1..page.send /\ page.send \in 0..MaxTyped /\ MaxTyped \in Nat
    BY <1>1, PageFields, BoundsAreNumbers DEF SendsSound
  <2>2. r.id \in 1..MaxTyped
    BY <2>1
  <2> QED
    BY <1>1, <2>2 DEF SendsSound, SendRecord
<1>7. page.session # NoSession => wire \subseteq 1..Len(log[page.session])
  BY <1>1 DEF SoundNow, Sound, NetSound
<1>8. \A n \in Names : ToSet(storage[n].messages) \subseteq ScreenMessage
  <2> TAKE n \in Names
  <2>1. storage[n].messages \in Seq(ScreenMessage)
    BY <1>1 DEF SoundNow, Sound, StorageSound, KeptSound, KeptRecord
  <2> QED
    BY <2>1, Lists
<1>9. typed \in [Sessions -> Seq(Texts)]
  BY <1>1 DEF TypedTyped
<1> QED
  BY <1>1, <1>2, <1>3, <1>4, <1>5, <1>6, <1>7, <1>8, <1>9 DEF ChatTypeOK, PageRecord

\* Without a conversation the page shows nothing.
LEMMA NothingShown ==
  ASSUME UserChatInv, page.session = NoSession
  PROVE  page.screen = <<>> /\ ToSet(page.screen) = {} /\ ToSet(page.held) = {} /\ Len(page.screen) = 0
<1>1. page.screen = <<>> /\ page.held = <<>>
  BY DEF UserChatInv, SoundNow, Sound, PageSound
<1> QED
  BY <1>1, EmptyScreen

\* What an open conversation shows.
LEMMA ConversationShown ==
  ASSUME UserChatInv, page.session # NoSession
  PROVE  /\ OpenPage(page) /\ ServerTyped /\ TypedTyped
         /\ page.session \in Sessions /\ page.send \in Nat
         /\ page.screen \in Seq(ScreenMessage) /\ page.held \in Seq(ScreenMessage)
         /\ ScreenOf(page.screen, page.session, page.send) /\ Fits(page.screen, page.session)
         /\ \A m \in ToSet(page.held) : IsSaved(page.session, m)
         /\ mode = "demo" => owner[page.session] = page.name
<1>1. OpenPage(page) /\ ServerTyped /\ TypedTyped
  BY PageFields DEF UserChatInv
<1> QED
  BY <1>1, OpenPageFacts

\* Its messages are its own.
LEMMA InvOwnConversation ==
  ASSUME UserChatInv
  PROVE  OwnConversationOnly
<1>1. CASE page.session = NoSession
  BY <1>1, NothingShown DEF OwnConversationOnly
<1>2. CASE page.session # NoSession
  <2> SUFFICES ASSUME NEW s, s = page.session PROVE OwnConversationOnly
    OBVIOUS
  <2>1. /\ s \in Sessions /\ ServerTyped /\ page.send \in Nat
        /\ \A m \in ToSet(page.held) : IsSaved(s, m)
        /\ \A m \in ToSet(page.screen) : IsSaved(s, m) \/ IsOwn(s, page.send, m)
        /\ mode = "demo" => owner[page.session] = page.name
    BY <1>2, ConversationShown DEF ScreenOf
  <2>2. ASSUME NEW m \in ToSet(page.screen) \cup ToSet(page.held)
        PROVE  m.session = s
    <3>1. IsSaved(s, m) \/ IsOwn(s, page.send, m)
      BY <2>1
    <3> QED
      BY <2>1, <3>1, SavedMessage, OwnMessage
  <2> QED
    BY <2>1, <2>2 DEF OwnConversationOnly
<1> QED
  BY <1>1, <1>2

\* They are in order.
LEMMA InvInOrder ==
  ASSUME UserChatInv
  PROVE  ScreenInOrder
<1>1. CASE page.session = NoSession
  BY <1>1, NothingShown DEF ScreenInOrder
<1>2. CASE page.session # NoSession
  BY <1>2, ConversationShown DEF ScreenInOrder, ScreenOf, Ascending
<1> QED
  BY <1>1, <1>2

\* A list in order has no message twice.
LEMMA InOrderOnce ==
  ASSUME NEW q \in Seq(ScreenMessage), Ascending(q), NEW i \in 1..Len(q), NEW j \in 1..Len(q), q[i] = q[j]
  PROVE  i = j
<1>1. q[i] \in ScreenMessage
  OBVIOUS
<1>2. ~Before(q[i], q[i])
  <2>1. q[i].seq \in Nat /\ q[i].send \in Nat
    BY <1>1, BoundsAreNumbers DEF ScreenMessage
  <2> QED
    BY <2>1 DEF Before, IsLocal
<1>3. ~(i < j) /\ ~(j < i)
  BY <1>2 DEF Ascending
<1> QED
  BY <1>3

\* The positions of a text on the screen are as many as its copies, and those fit.
LEMMA InvShownOnce ==
  ASSUME UserChatInv
  PROVE  TypedShownOnce
<1> SUFFICES ASSUME NEW t \in Texts
             PROVE  Cardinality({i \in 1..Len(page.screen) :
                                   page.screen[i].from = "USER" /\ page.screen[i].text = t})
                      <= IF page.session = NoSession THEN 0 ELSE TypedTimes(page.session, t)
  BY DEF TypedShownOnce, TypedTimes
<1> DEFINE q == page.screen
           D == {i \in 1..Len(q) : q[i].from = "USER" /\ q[i].text = t}
<1>1. CASE page.session = NoSession
  <2>1. D = {}
    BY <1>1, NothingShown
  <2>2. Cardinality(D) = 0
    BY <2>1, FS_EmptySet
  <2> HIDE DEF D, q
  <2>3. Cardinality(D) <= 0
    BY <2>2
  <2> QED
    BY <1>1, <2>3 DEF D, q
<1>2. CASE page.session # NoSession
  <2> DEFINE E == Copies(ToSet(q), t)
             f == [i \in D |-> q[i]]
  <2>1. /\ q \in Seq(ScreenMessage) /\ Ascending(q) /\ Len(q) \in Nat
        /\ IsFiniteSet(E) /\ Cardinality(E) \in Nat /\ Cardinality(E) <= TypedTimes(page.session, t)
        /\ TypedTimes(page.session, t) \in Nat
    <3>1. /\ TypedTyped /\ page.session \in Sessions /\ q \in Seq(ScreenMessage)
          /\ ScreenOf(q, page.session, page.send) /\ Fits(q, page.session)
      BY <1>2, ConversationShown
    <3>2. IsFiniteSet(E) /\ Cardinality(E) \in Nat /\ TypedTimes(page.session, t) \in Nat
      BY <3>1, CopiesFinite, TypedNumber
    <3> HIDE DEF q
    <3>3. Cardinality(E) <= TypedTimes(page.session, t) /\ Ascending(q) /\ Len(q) \in Nat
      BY <3>1 DEF Fits, ScreenOf
    <3> QED
      BY <3>1, <3>2, <3>3
  <2>2. \A i \in D : q[i] \in E
    BY <2>1, Lists DEF Copies
  <2>3. \A i, j \in D : q[i] = q[j] => i = j
    BY <2>1, InOrderOnce
  <2> HIDE DEF q, D, E
  <2>4. f \in Injection(D, E)
    BY <2>2, <2>3 DEF Injection, IsInjective
  <2> HIDE DEF f
  <2>5. Cardinality(D) <= Cardinality(E) /\ IsFiniteSet(D) /\ Cardinality(D) \in Nat
    BY <2>1, <2>4, FS_Injection, FS_CardinalityType
  <2>6. Cardinality(D) <= TypedTimes(page.session, t)
    BY <2>1, <2>5
  <2> QED
    BY <1>2, <2>6 DEF D, q
<1> QED
  BY <1>1, <1>2

\* At the start the indicator is off.
LEMMA InitialIndicator == UserChatInit => TypingIndicatorEnds
  BY DEF UserChatInit, FreshPage, TypingIndicatorEnds

-----------------------------------------------------------------------------
(* Theorems.                                                                 *)

\* Type correctness, and with it that what the server saves as the answer to a
\* message begins with that message, however many others the session's log has
\* taken in since (SessionMessageService.appendMessage).
THEOREM ChatTypeCorrect == UserChatSpec => []ChatTypeOK
<1>1. UserChatInv => ChatTypeOK
  BY InvTypes
<1> QED
  BY <1>1, InvAlways, PTL

\* Whatever arrives late, the open conversation shows and holds back messages
\* of its own session only, and a demo conversation is the one of the name it is
\* shown under (isCurrentConversation, the generation of nameRequestIdRef).
THEOREM NothingOfAnotherConversation == UserChatSpec => []OwnConversationOnly
<1>1. UserChatInv => OwnConversationOnly
  BY InvOwnConversation
<1> QED
  BY <1>1, InvAlways, PTL

\* Answers, snapshots and broadcasts in any order, lost or late, leave the
\* screen in the order of the session's numbers, each message once
\* (chatMessageSync.ts compareMessageOrder).
THEOREM OrderOnScreen == UserChatSpec => []ScreenInOrder
<1>1. UserChatInv => ScreenInOrder
  BY InvInOrder
<1> QED
  BY <1>1, InvAlways, PTL

\* What the customer typed n times is on the screen n times at most: an echo,
\* or the snapshot's copy, takes the place of a local message
\* (mergeRealtimeMessage, mergePersistedMessagesWithPending).
THEOREM NeverShownTwice == UserChatSpec => []TypedShownOnce
<1>1. UserChatInv => TypedShownOnce
  BY InvShownOnce
<1> QED
  BY <1>1, InvAlways, PTL

\* In the demo a typing indicator is never left behind: while it is on, an
\* answer is under way to this conversation or its timer runs
\* (queueBotMessage, stopBotTyping in every way a request can end).
THEOREM IndicatorHasAnEnd == UserChatSpec => []TypingIndicatorEnds
<1>1. UserChatInit => UserChatInv /\ TypingIndicatorEnds
  BY InvInitial, InitialIndicator
<1>2. UserChatInv /\ TypingIndicatorEnds /\ [UserChatNext]_userChatVars
        => (UserChatInv /\ TypingIndicatorEnds)'
  BY InvKept, IndicatorKeeps
<1> QED
  BY <1>1, <1>2, PTL DEF UserChatSpec

\* A step that is neither the snapshot nor a failure takes no saved message
\* from the screen of a conversation that stays open: an echo replaces a local
\* message only (mergeRealtimeMessage).
THEOREM SavedStayShown == UserChatSpec => SavedStaysOnScreen
<1>1. UserChatInv /\ [UserChatNext]_userChatVars => SavedStays
  BY EveryStep
<1>2. SavedStays =>
        [\A m \in ToSet(page.screen) :
           ~IsLocal(m) /\ page'.session = page.session /\ sync' = sync /\ mishaps' = mishaps
             => m \in ToSet(page'.screen)]_userChatVars
  BY DEF SavedStays
<1> QED
  BY <1>1, <1>2, InvAlways, PTL DEF UserChatSpec, SavedStaysOnScreen

=============================================================================
