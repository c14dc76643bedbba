---------------------------- MODULE HistoryProofs ----------------------------
(***************************************************************************)
(* The history on screen, for any page size, any ledger and any number of  *)
(* pages, read at any moments while rows are committed.                    *)
(*                                                                         *)
(* Everything follows from one idea.  An answer of the endpoint is a       *)
(* block: rows of the ledger with none between them left out.  An answer   *)
(* to the cursor of a block is the block right below it, and two adjacent  *)
(* blocks put together are one.  Rows committed later are newer than all   *)
(* others, so that a block stays one.  The pages a fetch has collected are *)
(* a chain of adjacent blocks, and so is what is loaded.                   *)
(*                                                                         *)
(* The first three parts are about sequences, one answer, and pages put    *)
(* together; the recursive functions of the model (Descending, FlattenSeq) *)
(* are unfolded there by induction over numbers.  Then come the invariant, *)
(* its preservation by each step, and what the operator sees.              *)
(***************************************************************************)
EXTENDS History, Induction, SequenceTheorems

-----------------------------------------------------------------------------
(* Descending sequences. *)

Desc(s) == \A i, j \in 1..Len(s) : i < j => s[i] > s[j]

\* The rows of a sequence are those of a set.
Lists(s, rows) == /\ \A i \in 1..Len(s) : s[i] \in rows
                  /\ \A id \in rows : \E i \in 1..Len(s) : s[i] = id

LEMMA DescAt ==
    ASSUME NEW s \in Seq(Nat), Desc(s), NEW i \in 1..Len(s), NEW j \in 1..Len(s)
    PROVE  /\ s[i] \in Nat /\ s[j] \in Nat
           /\ i < j <=> s[i] > s[j]
           /\ i = j <=> s[i] = s[j]
  <1>1. /\ i < j => s[i] > s[j]
        /\ j < i => s[j] > s[i]
    BY DEF Desc
  <1> QED BY <1>1

Within(s, t) == \A i \in 1..Len(s) : \E j \in 1..Len(t) : t[j] = s[i]

\* Of two descending sequences of the same rows, each is a prefix of the other.
LEMMA DescPrefix ==
    ASSUME NEW s \in Seq(Nat), NEW t \in Seq(Nat), Desc(s), Desc(t),
           Within(s, t), Within(t, s)
    PROVE  Len(s) <= Len(t) /\ \A i \in 1..Len(s) : s[i] = t[i]
  <1> DEFINE Good == {n \in Nat : n <= Len(s) => /\ n <= Len(t)
                                                 /\ \A i \in 1..n : s[i] = t[i]}
  <1>1. 0 \in Good
    OBVIOUS
  <1>2. ASSUME NEW n \in Nat, n \in Good PROVE n + 1 \in Good
    <2> SUFFICES ASSUME n + 1 <= Len(s)
                 PROVE  n + 1 <= Len(t) /\ s[n + 1] = t[n + 1]
      BY <1>2
    <2>1. n <= Len(t) /\ \A i \in 1..n : s[i] = t[i]
      BY <1>2
    <2>2. PICK j \in 1..Len(t) : t[j] = s[n + 1]
      BY DEF Within
    <2>3. j > n
      <3> SUFFICES ASSUME j <= n PROVE FALSE
        OBVIOUS
      <3>1. s[j] = s[n + 1] /\ j # n + 1 /\ j \in 1..Len(s) /\ n + 1 \in 1..Len(s)
        BY <2>1, <2>2
      <3> QED BY <3>1, DescAt
    <2>4. n + 1 \in 1..Len(t)
      BY <2>3
    <2>5. PICK k \in 1..Len(s) : s[k] = t[n + 1]
      BY <2>4 DEF Within
    <2>6. k > n
      <3> SUFFICES ASSUME k <= n PROVE FALSE
        OBVIOUS
      <3>1. t[k] = t[n + 1] /\ k # n + 1 /\ k \in 1..Len(t)
        BY <2>1, <2>4, <2>5
      <3> QED BY <3>1, <2>4, DescAt
    <2>7. t[j] <= t[n + 1]
      BY <2>3, <2>4, DescAt
    <2>8. s[k] <= s[n + 1]
      <3>1. n + 1 \in 1..Len(s)
        OBVIOUS
      <3> QED BY <2>6, <3>1, DescAt
    <2>9. s[n + 1] \in Nat /\ t[n + 1] \in Nat
      BY <2>4
    <2> QED BY <2>2, <2>4, <2>5, <2>7, <2>8, <2>9
  <1>3. \A n \in Nat : n \in Good
    <2> HIDE DEF Good
    <2> QED BY <1>1, <1>2, NatSetInduction
  <1> QED BY <1>3

LEMMA DescUnique ==
    ASSUME NEW s \in Seq(Nat), NEW t \in Seq(Nat), Desc(s), Desc(t),
           NEW rows, Lists(s, rows), Lists(t, rows)
    PROVE  s = t
  <1>1. Within(s, t) /\ Within(t, s)
    BY DEF Lists, Within
  <1>2. Len(s) <= Len(t) /\ \A i \in 1..Len(s) : s[i] = t[i]
    BY <1>1, DescPrefix
  <1>3. Len(t) <= Len(s)
    BY <1>1, DescPrefix
  <1>4. Len(s) = Len(t)
    BY <1>2, <1>3
  <1> QED BY <1>2, <1>4, SeqEqual

\* One descending sequence after another that is all below it.
LEMMA ConcatDesc ==
    ASSUME NEW s \in Seq(Nat), NEW t \in Seq(Nat), Desc(s), Desc(t),
           NEW A \in SUBSET Nat, NEW B \in SUBSET Nat, Lists(s, A), Lists(t, B),
           \A a \in A, b \in B : a > b
    PROVE  s \o t \in Seq(Nat) /\ Desc(s \o t) /\ Lists(s \o t, A \cup B)
  <1> DEFINE m == Len(s)
             n == Len(t)
             u == s \o t
  <1>1. m \in Nat /\ n \in Nat /\ u \in Seq(Nat) /\ Len(u) = m + n
    OBVIOUS
  <1>2. \A i \in 1..m : i \in 1..(m + n) /\ u[i] = s[i]
    OBVIOUS
  <1>3. \A i \in 1..(m + n) : i > m => i - m \in 1..n /\ u[i] = t[i - m]
    OBVIOUS
  <1>4. \A i \in 1..n : i + m \in 1..(m + n) /\ u[i + m] = t[i]
    OBVIOUS
  <1> HIDE DEF u
  <1>5. /\ \A i \in 1..m : s[i] \in A
        /\ \A i \in 1..n : t[i] \in B
    BY DEF Lists
  <1>6. Desc(u)
    <2> SUFFICES ASSUME NEW i \in 1..(m + n), NEW j \in 1..(m + n), i < j
                 PROVE  u[i] > u[j]
      BY <1>1 DEF Desc
    <2>1. CASE j <= m
      <3>1. i \in 1..m /\ j \in 1..m
        BY <1>1, <2>1
      <3> QED BY <1>2, <3>1, DescAt
    <2>2. CASE i <= m /\ j > m
      <3>1. i \in 1..m /\ j - m \in 1..n
        BY <1>1, <2>2
      <3>2. u[i] = s[i] /\ u[j] = t[j - m]
        BY <1>2, <1>3, <2>2, <3>1
      <3> QED BY <1>5, <3>1, <3>2
    <2>3. CASE i > m
      <3>1. i - m \in 1..n /\ j - m \in 1..n /\ i - m < j - m
        BY <1>1, <2>3
      <3>2. t[i - m] > t[j - m]
        BY <3>1, DescAt
      <3>3. j > m
        BY <1>1, <2>3
      <3>4. u[i] = t[i - m]
        BY <1>3, <2>3
      <3>5. u[j] = t[j - m]
        BY <1>3, <3>3
      <3> QED BY <3>2, <3>4, <3>5
    <2> QED BY <1>1, <2>1, <2>2, <2>3
  <1>7. ASSUME NEW i \in 1..(m + n) PROVE u[i] \in A \cup B
    <2>1. CASE i <= m
      <3>1. i \in 1..m
        BY <1>1, <2>1
      <3> QED BY <1>2, <1>5, <3>1
    <2>2. CASE i > m
      BY <1>3, <1>5, <2>2
    <2> QED BY <1>1, <2>1, <2>2
  <1>8. ASSUME NEW id \in A \cup B PROVE \E i \in 1..(m + n) : u[i] = id
    <2>1. CASE id \in A
      <3>1. PICK i \in 1..m : s[i] = id
        BY <2>1 DEF Lists
      <3> QED BY <1>2, <3>1
    <2>2. CASE id \in B
      <3>1. PICK i \in 1..n : t[i] = id
        BY <2>2 DEF Lists
      <3> QED BY <1>4, <3>1
    <2> QED BY <2>1, <2>2
  <1> QED BY <1>1, <1>6, <1>7, <1>8 DEF Lists, u

\* The recursion that Descending is defined by.
Step(rows, n, below) == (IF n \in rows THEN <<n>> ELSE <<>>) \o below

IsDown(g, rows, N) ==
    g = [n \in 0..N |-> IF n = 0 THEN <<>> ELSE Step(rows, n, g[n - 1])]

LEMMA DownExists ==
    ASSUME NEW rows PROVE \A N \in Nat : \E g : IsDown(g, rows, N)
  <1> DEFINE Good == {N \in Nat : \E g : IsDown(g, rows, N)}
  <1>1. 0 \in Good
    <2> DEFINE g == [n \in 0..0 |-> <<>>]
    <2>1. g = [n \in 0..0 |-> IF n = 0 THEN <<>> ELSE Step(rows, n, g[n - 1])]
      OBVIOUS
    <2> QED BY <2>1 DEF IsDown
  <1>2. ASSUME NEW N \in Nat, N \in Good PROVE N + 1 \in Good
    <2>1. PICK g : IsDown(g, rows, N)
      BY <1>2
    <2> DEFINE h == [n \in 0..(N + 1) |-> IF n = N + 1 THEN Step(rows, N + 1, g[N]) ELSE g[n]]
    <2>2. ASSUME NEW n \in 0..(N + 1)
          PROVE  h[n] = IF n = 0 THEN <<>> ELSE Step(rows, n, h[n - 1])
      <3>1. CASE n = N + 1
        <4>1. h[n] = Step(rows, n, g[n - 1]) /\ h[n - 1] = g[n - 1]
          BY <3>1
        <4> QED BY <3>1, <4>1
      <3>2. CASE n \in 0..N
        <4>1. g[n] = IF n = 0 THEN <<>> ELSE Step(rows, n, g[n - 1])
          BY <2>1, <3>2 DEF IsDown
        <4>2. h[n] = g[n] /\ (n # 0 => h[n - 1] = g[n - 1])
          BY <3>2
        <4> QED BY <4>1, <4>2
      <3> QED BY <3>1, <3>2
    <2>3. IsDown(h, rows, N + 1)
      <3> DEFINE k == [n \in 0..(N + 1) |-> IF n = 0 THEN <<>> ELSE Step(rows, n, h[n - 1])]
      <3>1. \A n \in 0..(N + 1) : h[n] = k[n]
        BY <2>2
      <3> QED BY <3>1 DEF IsDown
    <2> QED BY <2>3
  <1> HIDE DEF Good
  <1>3. \A N \in Nat : N \in Good
    BY <1>1, <1>2, NatSetInduction
  <1> QED BY <1>3 DEF Good

UpTo(rows, n) == {id \in rows : id <= n}

LEMMA UpToRecurs ==
    ASSUME NEW rows, \A id \in rows : id \in Nat /\ id > 0
    PROVE  /\ UpTo(rows, 0) = {}
           /\ \A n \in Nat :
                 /\ UpTo(rows, n) \in SUBSET Nat
                 /\ \A id \in UpTo(rows, n) : id < n + 1
                 /\ n + 1 \in rows => {n + 1} \cup UpTo(rows, n) = UpTo(rows, n + 1)
                 /\ n + 1 \notin rows => UpTo(rows, n) = UpTo(rows, n + 1)
  BY DEF UpTo

\* What the recursion has collected at n.
Below(g, rows, n) == /\ g[n] \in Seq(Nat)
                     /\ Desc(g[n])
                     /\ Lists(g[n], UpTo(rows, n))

LEMMA DownLists ==
    ASSUME NEW N \in Nat, NEW g, NEW rows, IsDown(g, rows, N),
           \A id \in rows : id \in Nat /\ id > 0
    PROVE  \A n \in 0..N : Below(g, rows, n)
  <1> DEFINE Good == {n \in Nat : n <= N => Below(g, rows, n)}
  <1>1. 0 \in Good
    <2>1. g[0] = <<>>
      BY DEF IsDown
    <2>2. UpTo(rows, 0) = {}
      BY UpToRecurs
    <2>3. <<>> \in Seq(Nat) /\ Desc(<<>>) /\ Lists(<<>>, {})
      BY DEF Desc, Lists
    <2> QED BY <2>1, <2>2, <2>3 DEF Below
  <1>2. ASSUME NEW n \in Nat, n \in Good PROVE n + 1 \in Good
    <2> SUFFICES ASSUME n + 1 <= N PROVE Below(g, rows, n + 1)
      OBVIOUS
    <2>1. g[n + 1] = Step(rows, n + 1, g[n])
      BY DEF IsDown
    <2>2. Below(g, rows, n)
      BY <1>2
    <2>3. CASE n + 1 \notin rows
      <3>1. g[n + 1] = g[n]
        BY <2>1, <2>2, <2>3 DEF Step, Below
      <3>2. UpTo(rows, n + 1) = UpTo(rows, n)
        BY <2>3, UpToRecurs
      <3> QED BY <2>2, <3>1, <3>2 DEF Below
    <2>4. CASE n + 1 \in rows
      <3> DEFINE A == {n + 1}
                 B == UpTo(rows, n)
      <3>1. g[n] \in Seq(Nat) /\ Desc(g[n]) /\ Lists(g[n], B)
        BY <2>2 DEF Below
      <3>2. <<n + 1>> \in Seq(Nat) /\ Desc(<<n + 1>>) /\ Lists(<<n + 1>>, A)
        BY DEF Desc, Lists
      <3>3. B \in SUBSET Nat /\ \A b \in B : b < n + 1
        BY UpToRecurs
      <3>4. A \cup B = UpTo(rows, n + 1)
        BY <2>4, UpToRecurs
      <3>5. A \in SUBSET Nat /\ \A a \in A, b \in B : a > b
        BY <3>3
      <3>6. g[n + 1] = <<n + 1>> \o g[n]
        BY <2>1, <2>4 DEF Step
      <3> HIDE DEF A, B
      <3>7. <<n + 1>> \o g[n] \in Seq(Nat) /\ Desc(<<n + 1>> \o g[n])
               /\ Lists(<<n + 1>> \o g[n], A \cup B)
        BY <3>1, <3>2, <3>3, <3>5, ConcatDesc
      <3> QED BY <3>6, <3>4, <3>7 DEF Below
    <2> QED BY <2>3, <2>4
  <1> HIDE DEF Good
  <1>4. \A n \in Nat : n \in Good
    BY <1>1, <1>2, NatSetInduction
  <1> QED BY <1>4 DEF Good

\* orderBy: { id: "desc" }: every row once, newest first.
LEMMA DescendingLists ==
    ASSUME lastId \in Nat, NEW rows \in SUBSET (1..lastId)
    PROVE  /\ Descending(rows) \in Seq(Nat)
           /\ Desc(Descending(rows))
           /\ Lists(Descending(rows), rows)
  <1> DEFINE g == CHOOSE g : IsDown(g, rows, lastId)
  <1>1. IsDown(g, rows, lastId)
    BY DownExists
  <1>2. Descending(rows) = g[lastId]
    BY DEF Descending, IsDown, Step
  <1>3. Below(g, rows, lastId)
    <2>1. \A id \in rows : id \in Nat /\ id > 0
      OBVIOUS
    <2>2. lastId \in 0..lastId
      OBVIOUS
    <2>3. \A n \in 0..lastId : Below(g, rows, n)
      BY <1>1, <2>1, DownLists
    <2> QED BY <2>2, <2>3
  <1>4. UpTo(rows, lastId) = rows
    <2>1. \A id \in rows : id <= lastId
      OBVIOUS
    <2> QED BY <2>1 DEF UpTo
  <1> QED BY <1>2, <1>3, <1>4 DEF Below

-----------------------------------------------------------------------------
(* What one answer of the endpoint holds. *)

LEMMA LimitIsPositive == Limit \in Nat \ {0}
  <1>1. PageSize \in Nat \ {0} /\ MaxLimit \in Nat \ {0}
    BY HistoryAssumption
  <1>2. Limit \in {PageSize, MaxLimit}
    <2>1. \E x \in {PageSize, MaxLimit} : \A y \in {PageSize, MaxLimit} : x <= y
      BY <1>1
    <2> QED BY <2>1 DEF Limit, Min
  <1> QED BY <1>1, <1>2

LEMMA TakeIs ==
    ASSUME NEW s \in Seq(Nat), NEW n \in Nat
    PROVE  LET k == IF n < Len(s) THEN n ELSE Len(s)
           IN  /\ Take(s, n) = SubSeq(s, 1, k)
               /\ Take(s, n) \in Seq(Nat)
               /\ Len(Take(s, n)) = k
               /\ \A i \in 1..k : Take(s, n)[i] = s[i]
  <1> DEFINE k == IF n < Len(s) THEN n ELSE Len(s)
  <1>1. Len(s) \in Nat /\ k \in 0..Len(s)
    OBVIOUS
  <1>2. Min({n, Len(s)}) = k
    BY <1>1 DEF Min
  <1> HIDE DEF k
  <1>3. Take(s, n) = SubSeq(s, 1, k)
    BY <1>2 DEF Take
  <1>4. /\ SubSeq(s, 1, k) \in Seq(Nat)
        /\ Len(SubSeq(s, 1, k)) = k
        /\ \A i \in 1..k : SubSeq(s, 1, k)[i] = s[i]
    BY <1>1
  <1> QED BY <1>3, <1>4 DEF k

\* The rows the endpoint pages through after a cursor.
Older(cursor) == {id \in mine : cursor = Null \/ id < cursor}

Ledger == lastId \in Nat /\ mine \in SUBSET (1..lastId)

LEMMA LedgerIds == Ledger => mine \in SUBSET Nat /\ Null \notin mine
  BY DEF Ledger, Null

LEMMA SeekLists ==
    ASSUME Ledger, NEW c \in mine \cup {Null}
    PROVE  /\ Seek(c) \in Seq(Nat)
           /\ Desc(Seek(c))
           /\ Lists(Seek(c), Older(c))
  <1>1. lastId \in Nat /\ mine \in SUBSET (1..lastId)
    BY DEF Ledger
  <1>2. CASE c = Null
    <2>1. Older(c) = mine /\ Seek(c) = Descending(mine)
      BY <1>2 DEF Older, Seek
    <2> QED BY <1>1, <2>1, DescendingLists
  <1>3. CASE c \in mine /\ c # Null
    <2> DEFINE upTo == {id \in mine : id <= c}
               s == Descending(upTo)
               t == Tail(s)
    <2>1. upTo \in SUBSET (1..lastId) /\ c \in upTo
      <3>1. c \in 1..lastId
        BY <1>1, <1>3
      <3>2. c <= c
        BY <3>1
      <3> QED BY <1>1, <1>3, <3>2
    <2> HIDE DEF upTo
    <2>2. s \in Seq(Nat) /\ Desc(s) /\ Lists(s, upTo)
      BY <1>1, <2>1, DescendingLists
    <2> HIDE DEF s
    <2>3. Seek(c) = t
      BY <1>3 DEF Seek, s, upTo
    <2>4. PICK k \in 1..Len(s) : s[k] = c
      BY <2>1, <2>2 DEF Lists
    <2>5. k = 1
      <3>1. 1 \in 1..Len(s)
        BY <2>2
      <3>2. s[1] \in upTo
        BY <2>2, <3>1 DEF Lists
      <3>3. s[1] <= c
        BY <3>2 DEF upTo
      <3> QED BY <2>2, <2>4, <3>1, <3>3, DescAt
    <2>6. /\ Len(s) \in Nat \ {0}
          /\ t \in Seq(Nat) /\ Len(t) = Len(s) - 1
          /\ \A i \in 1..(Len(s) - 1) : t[i] = s[i + 1]
      BY <2>2, <2>4
    <2> HIDE DEF t
    <2>7. Desc(t)
      <3> SUFFICES ASSUME NEW i \in 1..Len(t), NEW j \in 1..Len(t), i < j
                   PROVE  t[i] > t[j]
        BY DEF Desc
      <3>1. i + 1 \in 1..Len(s) /\ j + 1 \in 1..Len(s) /\ t[i] = s[i + 1] /\ t[j] = s[j + 1]
        BY <2>6
      <3> QED BY <2>2, <3>1, DescAt
    <2>8. ASSUME NEW i \in 1..Len(t) PROVE t[i] \in Older(c)
      <3>1. i + 1 \in 1..Len(s) /\ t[i] = s[i + 1] /\ i + 1 # 1
        BY <2>6
      <3>2. s[i + 1] \in upTo
        BY <2>2, <3>1 DEF Lists
      <3>3. s[i + 1] # c
        BY <2>2, <2>4, <2>5, <3>1, DescAt
      <3>4. s[i + 1] \in mine /\ s[i + 1] <= c
        BY <3>2 DEF upTo
      <3>5. mine \in SUBSET Nat
        BY LedgerIds
      <3>6. s[i + 1] \in Nat /\ c \in Nat
        BY <1>3, <3>4, <3>5
      <3>7. s[i + 1] < c
        BY <3>3, <3>4, <3>6
      <3> QED BY <3>1, <3>4, <3>7 DEF Older
    <2>9. ASSUME NEW id \in Older(c) PROVE \E i \in 1..Len(t) : t[i] = id
      <3>1. id \in mine /\ id < c
        BY <1>3 DEF Older
      <3>2. id \in upTo /\ id # c
        BY <1>1, <1>3, <3>1 DEF upTo
      <3>3. PICK i \in 1..Len(s) : s[i] = id
        BY <2>2, <3>2 DEF Lists
      <3>4. i # 1
        BY <2>4, <2>5, <3>2, <3>3
      <3>5. i - 1 \in 1..Len(t) /\ t[i - 1] = s[i]
        BY <2>6, <3>4
      <3> QED BY <3>3, <3>5
    <2> QED BY <2>3, <2>6, <2>7, <2>8, <2>9 DEF Lists
  <1> QED BY <1>2, <1>3

\* Consecutive rows of a ledger M, newest first.
Block(s, M) == /\ s \in Seq(Nat) /\ s # <<>>
               /\ Desc(s)
               /\ Lists(s, {id \in M : Last(s) <= id /\ id <= Head(s)})

NoRows == [data |-> <<>>, nextCursor |-> Null]

\* A page with rows: it is full and has a cursor if an older row exists, and
\* is the last one if not.
GoodPage(p, M) ==
    /\ p \in [data : Seq(Nat), nextCursor : Nat]
    /\ Block(p.data, M)
    /\ Len(p.data) <= Limit
    /\ \/ /\ p.nextCursor = Null
          /\ \A id \in M : Last(p.data) <= id
       \/ /\ p.nextCursor = Last(p.data)
          /\ Len(p.data) = Limit
          /\ \E id \in M : id < Last(p.data)

\* A page that leaves out no row after the cursor.
FromTop(p, rows) == Head(p.data) \in rows /\ \A id \in rows : id <= Head(p.data)

LEMMA Ends == \A s \in Seq(Nat) : s # <<>> =>
                 /\ Len(s) \in Nat \ {0}
                 /\ Head(s) = s[1] /\ Last(s) = s[Len(s)]
                 /\ 1 \in 1..Len(s) /\ Len(s) \in 1..Len(s)
                 /\ Head(s) \in Nat /\ Last(s) \in Nat
  BY DEF Last

LEMMA AnswerIs ==
    ASSUME Ledger, NEW c \in mine \cup {Null}
    PROVE  \/ Older(c) = {} /\ ListUsageEvents(c) = NoRows
           \/ /\ Older(c) # {}
              /\ GoodPage(ListUsageEvents(c), mine)
              /\ FromTop(ListUsageEvents(c), Older(c))
  <1> DEFINE s == Seek(c)
             p == ListUsageEvents(c)
             d == p.data
             n == IF Limit < Len(s) THEN Limit ELSE Len(s)
  <1>1. s \in Seq(Nat) /\ Desc(s) /\ Lists(s, Older(c))
    BY SeekLists
  <1>2. Limit \in Nat \ {0} /\ Len(s) \in Nat
    BY <1>1, LimitIsPositive
  <1> HIDE DEF s
  <1>3. /\ p = [data |-> d,
                nextCursor |-> IF Len(s) > Limit THEN Last(d) ELSE Null]
        /\ d \in Seq(Nat) /\ Len(d) = n
        /\ \A i \in 1..n : d[i] = s[i]
    <2> DEFINE r == Take(s, Limit + 1)
               m == IF Limit + 1 < Len(s) THEN Limit + 1 ELSE Len(s)
    <2>1. r \in Seq(Nat) /\ Len(r) = m /\ \A i \in 1..m : r[i] = s[i]
      BY <1>1, <1>2, TakeIs
    <2> HIDE DEF r
    <2>2. /\ Take(r, Limit) \in Seq(Nat)
          /\ Len(Take(r, Limit)) = IF Limit < Len(r) THEN Limit ELSE Len(r)
          /\ \A i \in 1..(IF Limit < Len(r) THEN Limit ELSE Len(r)) : Take(r, Limit)[i] = r[i]
      BY <1>2, <2>1, TakeIs
    <2>3. p = [data |-> Take(r, Limit),
               nextCursor |-> IF Len(r) > Limit THEN Last(Take(r, Limit)) ELSE Null]
      BY DEF ListUsageEvents, r, s
    <2>4. d = Take(r, Limit)
      BY <2>3
    <2>5. (Len(r) > Limit <=> Len(s) > Limit) /\ (IF Limit < Len(r) THEN Limit ELSE Len(r)) = n
      BY <1>2, <2>1
    <2>6. n <= m
      BY <1>2
    <2> HIDE DEF p, m, n
    <2>7. \A i \in 1..n : d[i] = s[i]
      <3>1. \A i \in 1..n : d[i] = r[i]
        BY <2>2, <2>4, <2>5
      <3> QED BY <3>1, <2>1, <2>6, <1>2 DEF n, m
    <2> QED BY <2>2, <2>3, <2>4, <2>5, <2>7
  <1> HIDE DEF p
  <1>4. CASE Older(c) = {}
    <2>1. Len(s) = 0
      <3>1. Len(s) > 0 => 1 \in 1..Len(s)
        BY <1>2
      <3> QED BY <1>1, <1>2, <1>4, <3>1 DEF Lists
    <2>2. d = <<>>
      BY <1>2, <1>3, <2>1
    <2>3. p = NoRows
      BY <1>2, <1>3, <2>1, <2>2 DEF NoRows
    <2> QED BY <1>4, <2>3 DEF p
  <1>5. CASE Older(c) # {}
    <2>1. Len(s) > 0
      BY <1>1, <1>2, <1>5 DEF Lists
    <2>2. n \in 1..Len(s) /\ n <= Limit
      BY <1>2, <2>1
    <2>3. d # <<>> /\ Head(d) = s[1] /\ Last(d) = s[n] /\ Len(d) = n
      <3>1. d # <<>>
        BY <1>3, <2>2
      <3> QED BY <1>3, <2>2, <3>1, Ends
    <2>4. (Len(s) > Limit => n = Limit) /\ (~(Len(s) > Limit) => n = Len(s))
      BY <1>2
    <2>5. p = [data |-> d, nextCursor |-> IF Len(s) > Limit THEN s[n] ELSE Null]
      BY <1>3, <2>3
    <2>6. \A i \in 1..n : d[i] = s[i] /\ i \in 1..Len(s)
      BY <1>2, <1>3, <2>2
    <2>7. mine \in SUBSET Nat
      BY LedgerIds
    <2> HIDE DEF n, d
    <2>8. \A i \in 1..Len(s) : /\ s[i] \in Older(c) /\ s[i] \in mine /\ s[i] \in Nat
                               /\ s[i] <= s[1]
      <3> TAKE i \in 1..Len(s)
      <3>1. s[i] \in Older(c)
        BY <1>1 DEF Lists
      <3>2. 1 \in 1..Len(s)
        BY <1>2, <2>1
      <3>3. s[i] <= s[1]
        <4>1. i = 1 \/ 1 < i
          BY <1>2
        <4> QED BY <1>1, <3>2, <4>1, DescAt
      <3> QED BY <2>7, <3>1, <3>3 DEF Older
    <2>9. \A id \in Older(c) : \E j \in 1..Len(s) : s[j] = id
      BY <1>1 DEF Lists
    <2>10. Desc(d)
      <3> SUFFICES ASSUME NEW i \in 1..n, NEW j \in 1..n, i < j PROVE d[i] > d[j]
        BY <2>3 DEF Desc
      <3> QED BY <1>1, <2>6, DescAt
    <2>11. ASSUME NEW i \in 1..n
           PROVE  d[i] \in mine /\ s[n] <= d[i] /\ d[i] <= s[1]
      <3>1. i = n \/ i < n
        BY <2>2
      <3>2. s[n] <= s[i]
        BY <1>1, <2>2, <2>6, <3>1, DescAt
      <3> QED BY <2>6, <2>8, <3>2
    <2>12. ASSUME NEW id \in mine, s[n] <= id, id <= s[1]
           PROVE  \E i \in 1..n : d[i] = id
      <3>1. id \in Older(c)
        <4>1. s[1] \in Older(c) /\ s[1] \in Nat
          BY <1>2, <2>1, <2>8
        <4>2. id \in Nat /\ (c = Null \/ c \in Nat)
          BY <2>7
        <4> QED BY <2>12, <4>1, <4>2 DEF Older
      <3>2. PICK j \in 1..Len(s) : s[j] = id
        BY <2>9, <3>1
      <3>3. j <= n
        <4>1. ~(n < j)
          BY <1>1, <2>2, <2>12, <3>2, DescAt
        <4> QED BY <2>2, <4>1
      <3> QED BY <2>6, <3>2, <3>3
    <2>13. Block(d, mine)
      BY <1>3, <2>3, <2>10, <2>11, <2>12 DEF Block, Lists
    <2>14. \/ /\ p.nextCursor = Null
              /\ \A id \in mine : s[n] <= id
           \/ /\ p.nextCursor = s[n]
              /\ n = Limit
              /\ \E id \in mine : id < s[n]
      <3>1. CASE Len(s) > Limit
        <4>1. n + 1 \in 1..Len(s) /\ s[n + 1] < s[n]
          <5>1. n + 1 \in 1..Len(s) /\ n < n + 1
            BY <1>2, <2>2, <2>4, <3>1
          <5> QED BY <1>1, <2>2, <5>1, DescAt
        <4>2. s[n + 1] \in mine
          BY <2>8, <4>1
        <4> QED BY <2>4, <2>5, <3>1, <4>1, <4>2
      <3>2. CASE ~(Len(s) > Limit)
        <4>1. ASSUME NEW id \in mine PROVE s[n] <= id
          <5> SUFFICES ASSUME id < s[n] PROVE FALSE
            BY <2>2, <2>7, <2>8
          <5>1. id \in Older(c)
            <6>1. s[n] \in Older(c) /\ s[n] \in Nat /\ id \in Nat /\ (c = Null \/ c \in Nat)
              BY <2>2, <2>7, <2>8
            <6> QED BY <6>1 DEF Older
          <5>2. PICK j \in 1..Len(s) : s[j] = id
            BY <2>9, <5>1
          <5>3. n < j
            BY <1>1, <2>2, <5>2, DescAt
          <5> QED BY <2>4, <3>2, <5>3
        <4> QED BY <2>5, <3>2, <4>1
      <3> QED BY <3>1, <3>2
    <2>15. p \in [data : Seq(Nat), nextCursor : Nat]
      BY <1>3, <2>2, <2>5, <2>8 DEF Null
    <2>16. GoodPage(p, mine)
      BY <2>2, <2>3, <2>13, <2>14, <2>15 DEF GoodPage, d
    <2>17. FromTop(p, Older(c))
      <3>1. Head(p.data) = s[1] /\ 1 \in 1..Len(s)
        BY <1>2, <2>1, <2>3 DEF d
      <3>2. \A id \in Older(c) : id <= s[1]
        BY <2>8, <2>9
      <3> QED BY <2>8, <3>1, <3>2 DEF FromTop
    <2> QED BY <1>5, <2>16, <2>17 DEF p
  <1> QED BY <1>4, <1>5

-----------------------------------------------------------------------------
(* Pages put together. *)

LEMMA BlockEnds ==
    ASSUME NEW M \in SUBSET Nat, NEW s, Block(s, M)
    PROVE  /\ Head(s) \in M /\ Last(s) \in M /\ Last(s) <= Head(s)
           /\ Head(s) \in Nat /\ Last(s) \in Nat
  <1>1. s \in Seq(Nat) /\ s # <<>> /\ Desc(s)
    BY DEF Block
  <1>2. /\ 1 \in 1..Len(s) /\ Len(s) \in 1..Len(s)
        /\ Head(s) = s[1] /\ Last(s) = s[Len(s)]
        /\ Head(s) \in Nat /\ Last(s) \in Nat
    BY <1>1, Ends
  <1>3. s[1] \in M /\ s[Len(s)] \in M
    BY <1>2 DEF Block, Lists
  <1>4. Last(s) <= Head(s)
    <2>1. Len(s) \in Nat /\ (1 = Len(s) \/ 1 < Len(s))
      BY <1>1, Ends
    <2> QED BY <1>1, <1>2, <2>1, DescAt
  <1> QED BY <1>2, <1>3, <1>4

\* A block comes right below another: no row is between them.
RightBelow(t, s, M) == /\ Head(t) < Last(s)
                       /\ \A id \in M : id < Last(s) => id <= Head(t)

\* Two blocks with no row between them are one.
LEMMA ConcatBlock ==
    ASSUME NEW M \in SUBSET Nat, NEW s, NEW t,
           Block(s, M), Block(t, M), RightBelow(t, s, M)
    PROVE  /\ Block(s \o t, M)
           /\ Head(s \o t) = Head(s) /\ Last(s \o t) = Last(t)
           /\ Len(s \o t) = Len(s) + Len(t)
  <1> DEFINE u == s \o t
             A == {id \in M : Last(s) <= id /\ id <= Head(s)}
             B == {id \in M : Last(t) <= id /\ id <= Head(t)}
  <1>1. /\ s \in Seq(Nat) /\ s # <<>> /\ Desc(s) /\ Lists(s, A)
        /\ t \in Seq(Nat) /\ t # <<>> /\ Desc(t) /\ Lists(t, B)
    BY DEF Block
  <1>2. Head(t) < Last(s) /\ \A id \in M : id < Last(s) => id <= Head(t)
    BY DEF RightBelow
  <1>3. /\ Last(s) <= Head(s) /\ Head(s) \in Nat /\ Last(s) \in Nat
        /\ Last(t) <= Head(t) /\ Head(t) \in Nat /\ Last(t) \in Nat
    BY BlockEnds
  <1>4. /\ u \in Seq(Nat) /\ Len(u) = Len(s) + Len(t) /\ u # <<>>
        /\ Head(u) = Head(s) /\ Last(u) = Last(t)
    <2>1. /\ Len(s) \in Nat \ {0} /\ Head(s) = s[1] /\ Last(s) = s[Len(s)]
          /\ Len(t) \in Nat \ {0} /\ Head(t) = t[1] /\ Last(t) = t[Len(t)]
      BY <1>1, Ends
    <2>2. /\ u \in Seq(Nat) /\ Len(u) = Len(s) + Len(t)
          /\ u[1] = s[1] /\ u[Len(u)] = t[Len(t)]
      BY <1>1, <2>1
    <2>3. u # <<>>
      BY <2>1, <2>2
    <2> QED BY <2>1, <2>2, <2>3, Ends
  <1>5. /\ A \in SUBSET Nat /\ B \in SUBSET Nat
        /\ \A a \in A, b \in B : a > b
    <2>1. ASSUME NEW a \in A, NEW b \in B PROVE a > b
      <3>1. a \in Nat /\ b \in Nat /\ Last(s) <= a /\ b <= Head(t)
        OBVIOUS
      <3> QED BY <1>3, <1>2, <3>1
    <2> QED BY <2>1
  <1>6. A \cup B = {id \in M : Last(t) <= id /\ id <= Head(s)}
    <2>1. ASSUME NEW id \in M
          PROVE  id \in A \cup B <=> Last(t) <= id /\ id <= Head(s)
      <3>1. id \in Nat /\ (id < Last(s) => id <= Head(t))
        BY <1>2
      <3>2. id \in A \cup B <=> \/ Last(s) <= id /\ id <= Head(s)
                                \/ Last(t) <= id /\ id <= Head(t)
        OBVIOUS
      <3> HIDE DEF A, B
      <3> QED BY <1>3, <1>2, <3>1, <3>2
    <2> QED BY <2>1
  <1> HIDE DEF A, B
  <1>7. Desc(u) /\ Lists(u, A \cup B)
    BY <1>1, <1>5, ConcatDesc
  <1> QED BY <1>4, <1>6, <1>7 DEF Block

\* A page that goes on right after another one.
Joined(p, q, M) ==
    p.nextCursor # Null /\ FromTop(q, {id \in M : id < Last(p.data)})

PageRecords == [data : Seq(Nat), nextCursor : Nat]

\* Pages as one fetch collects them: none but the last is the end.
Chain(ps, M) == /\ ps \in Seq(PageRecords) /\ ps # <<>>
                /\ \A i \in 1..Len(ps) : GoodPage(ps[i], M)
                /\ \A i \in 1..(Len(ps) - 1) : Joined(ps[i], ps[i + 1], M)

\* FlattenSeq's recursion.
IsFlat(f, ds, N) ==
    f = [i \in 1..N |-> IF i = 1 THEN ds[i] ELSE f[i - 1] \o ds[i]]

LEMMA FlatExists ==
    ASSUME NEW ds PROVE \A N \in Nat : \E f : IsFlat(f, ds, N)
  <1> DEFINE Good == {N \in Nat : \E f : IsFlat(f, ds, N)}
  <1>1. 0 \in Good
    <2> DEFINE f == [i \in 1..0 |-> ds[i]]
    <2>1. f = [i \in 1..0 |-> IF i = 1 THEN ds[i] ELSE f[i - 1] \o ds[i]]
      OBVIOUS
    <2> QED BY <2>1 DEF IsFlat
  <1>2. ASSUME NEW N \in Nat, N \in Good PROVE N + 1 \in Good
    <2>1. PICK f : IsFlat(f, ds, N)
      BY <1>2
    <2> DEFINE h == [i \in 1..(N + 1) |->
                        IF i = 1 THEN ds[i]
                        ELSE IF i = N + 1 THEN f[N] \o ds[i] ELSE f[i]]
    <2>2. ASSUME NEW i \in 1..(N + 1)
          PROVE  h[i] = IF i = 1 THEN ds[i] ELSE h[i - 1] \o ds[i]
      <3>1. CASE i = 1
        BY <3>1
      <3>2. CASE i # 1
        <4>1. i - 1 \in 1..N /\ i - 1 \in 1..(N + 1) /\ i - 1 # N + 1
          BY <3>2
        <4>2. h[i - 1] = f[i - 1]
          <5>1. i - 1 = 1 => f[i - 1] = ds[i - 1]
            BY <2>1, <4>1 DEF IsFlat
          <5> QED BY <4>1, <5>1
        <4>3. CASE i = N + 1
          <5>1. h[i] = f[N] \o ds[i]
            BY <3>2, <4>3
          <5>2. i - 1 = N
            BY <4>3
          <5> QED BY <3>2, <4>2, <5>1, <5>2
        <4>4. CASE i \in 1..N
          <5>1. f[i] = f[i - 1] \o ds[i]
            BY <2>1, <3>2, <4>4 DEF IsFlat
          <5>2. h[i] = f[i]
            BY <3>2, <4>4
          <5> QED BY <3>2, <4>2, <5>1, <5>2
        <4> QED BY <4>3, <4>4
      <3> QED BY <3>1, <3>2
    <2>3. IsFlat(h, ds, N + 1)
      <3> DEFINE k == [i \in 1..(N + 1) |-> IF i = 1 THEN ds[i] ELSE h[i - 1] \o ds[i]]
      <3>1. \A i \in 1..(N + 1) : h[i] = k[i]
        BY <2>2
      <3> QED BY <3>1 DEF IsFlat
    <2> QED BY <2>3
  <1> HIDE DEF Good
  <1>3. \A N \in Nat : N \in Good
    BY <1>1, <1>2, NatSetInduction
  <1> QED BY <1>3 DEF Good

\* The rows of a number of pages.
Rows(ps) == FlattenSeq([i \in DOMAIN ps |-> ps[i].data])

LEMMA ShownIsRows == Shown = Rows(pages)
  BY DEF Shown, Rows

LEMMA RowsAre ==
    ASSUME NEW ps \in Seq(PageRecords)
    PROVE  /\ ps = <<>> => Rows(ps) = <<>>
           /\ ps # <<>> => \E f : /\ Rows(ps) = f[Len(ps)]
                                  /\ f[1] = ps[1].data
                                  /\ \A k \in 1..(Len(ps) - 1) : f[k + 1] = f[k] \o ps[k + 1].data
  <1> DEFINE ds == [i \in DOMAIN ps |-> ps[i].data]
             n == Len(ps)
  <1>1. n \in Nat /\ DOMAIN ps = 1..n
    OBVIOUS
  <1>2. ds \in Seq(Seq(Nat)) /\ Len(ds) = n /\ \A i \in 1..n : ds[i] = ps[i].data
    <2>1. ASSUME NEW i \in 1..n PROVE ps[i].data \in Seq(Nat)
      <3>1. ps[i] \in PageRecords
        OBVIOUS
      <3> QED BY <3>1 DEF PageRecords
    <2>2. ds = [i \in 1..n |-> ps[i].data]
      BY <1>1
    <2> HIDE DEF n
    <2> QED BY <1>1, <2>1, <2>2
  <1>3. Rows(ps) = FlattenSeq(ds)
    BY DEF Rows
  <1> HIDE DEF ds, n
  <1>4. CASE ps = <<>>
    <2>1. n = 0 /\ ds = <<>>
      BY <1>2, <1>4 DEF n
    <2> QED BY <1>2, <1>3, <1>4, <2>1 DEF FlattenSeq
  <1>5. CASE ps # <<>>
    <2> DEFINE f == CHOOSE f : IsFlat(f, ds, n)
    <2>1. IsFlat(f, ds, n)
      BY <1>1, FlatExists
    <2>2. n # 0
      BY <1>5, <1>1 DEF n
    <2>3. FlattenSeq(ds) = f[n]
      BY <1>2, <2>2 DEF FlattenSeq, IsFlat
    <2> HIDE DEF f
    <2>4. f[1] = ps[1].data
      BY <1>1, <1>2, <2>1, <2>2 DEF IsFlat
    <2>5. ASSUME NEW k \in 1..(n - 1) PROVE f[k + 1] = f[k] \o ps[k + 1].data
      <3>1. k + 1 \in 1..n /\ k + 1 # 1 /\ (k + 1) - 1 = k
        BY <1>1
      <3> QED BY <1>2, <2>1, <3>1 DEF IsFlat
    <2> QED BY <1>3, <1>5, <2>3, <2>4, <2>5 DEF n
  <1> QED BY <1>4, <1>5

\* Every page before the last is full.
Filled(p, k) == (k - 1) * Limit + Len(p.data)

\* The rows of a chain are one block: no row between the newest and the oldest
\* is skipped, and none is there twice.
LEMMA ChainRows ==
    ASSUME NEW M \in SUBSET Nat, NEW ps, Chain(ps, M)
    PROVE  /\ Block(Rows(ps), M)
           /\ Head(Rows(ps)) = Head(ps[1].data)
           /\ Last(Rows(ps)) = Last(Last(ps).data)
           /\ Len(Rows(ps)) = Filled(Last(ps), Len(ps))
  <1> DEFINE n == Len(ps)
  <1>1. ps \in Seq(PageRecords) /\ ps # <<>> /\ n \in Nat \ {0} /\ Last(ps) = ps[n]
    BY DEF Chain, Last
  <1>2. PICK f : /\ Rows(ps) = f[n]
                 /\ f[1] = ps[1].data
                 /\ \A k \in 1..(n - 1) : f[k + 1] = f[k] \o ps[k + 1].data
    BY <1>1, RowsAre
  <1> DEFINE Built(k) == /\ Block(f[k], M)
                         /\ Head(f[k]) = Head(ps[1].data)
                         /\ Last(f[k]) = Last(ps[k].data)
                         /\ Len(f[k]) = Filled(ps[k], k)
             Good == {k \in Nat : k \in 1..n => Built(k)}
  <1> HIDE DEF n
  <1>3. \A k \in 1..n : GoodPage(ps[k], M)
    BY DEF Chain, n
  <1>4. ASSUME NEW k \in 1..n PROVE Block(ps[k].data, M) /\ Len(ps[k].data) \in Nat
    <2>1. Block(ps[k].data, M)
      BY <1>3 DEF GoodPage
    <2>2. ps[k].data \in Seq(Nat)
      BY <2>1 DEF Block
    <2> QED BY <2>1, <2>2
  <1>5. Limit \in Nat
    BY LimitIsPositive
  <1>6. Built(1)
    <2>1. 1 \in 1..n
      BY <1>1
    <2>2. Filled(ps[1], 1) = Len(ps[1].data)
      <3>1. (1 - 1) * Limit = 0 /\ Len(ps[1].data) \in Nat
        BY <1>4, <1>5, <2>1
      <3> QED BY <3>1 DEF Filled
    <2> QED BY <1>2, <1>4, <2>1, <2>2
  <1>7. ASSUME NEW k \in Nat, k \in Good PROVE k + 1 \in Good
    <2> SUFFICES ASSUME k + 1 \in 1..n, k # 0 PROVE Built(k + 1)
      BY <1>6
    <2>1. k \in 1..n /\ k \in 1..(n - 1)
      BY <1>1
    <2>2. Built(k)
      BY <1>7, <2>1
    <2> DEFINE p == ps[k]
               q == ps[k + 1]
    <2>3. f[k + 1] = f[k] \o q.data
      BY <1>2, <2>1
    <2>4. Joined(p, q, M)
      BY <2>1 DEF Chain, n
    <2>5. GoodPage(p, M) /\ Block(p.data, M) /\ Block(q.data, M) /\ Len(q.data) \in Nat
      BY <1>3, <1>4, <2>1
    <2> HIDE DEF p, q
    <2>6. p.nextCursor # Null /\ Len(p.data) = Limit
      BY <2>4, <2>5 DEF Joined, GoodPage
    <2>7. /\ Head(q.data) < Last(p.data)
          /\ \A id \in M : id < Last(p.data) => id <= Head(q.data)
      BY <2>4 DEF Joined, FromTop
    <2>8. /\ Block(f[k], M) /\ Head(f[k]) = Head(ps[1].data)
          /\ Last(f[k]) = Last(p.data) /\ Len(f[k]) = Filled(p, k)
      BY <2>2 DEF p
    <2> HIDE DEF Built
    <2>9. /\ Block(f[k] \o q.data, M)
          /\ Head(f[k] \o q.data) = Head(f[k])
          /\ Last(f[k] \o q.data) = Last(q.data)
          /\ Len(f[k] \o q.data) = Len(f[k]) + Len(q.data)
      <3>1. /\ Head(q.data) < Last(f[k])
            /\ \A id \in M : id < Last(f[k]) => id <= Head(q.data)
        BY <2>7, <2>8
      <3>2. RightBelow(q.data, f[k], M)
        BY <3>1 DEF RightBelow
      <3>3. \A s, t : Block(s, M) /\ Block(t, M) /\ RightBelow(t, s, M)
               => /\ Block(s \o t, M)
                  /\ Head(s \o t) = Head(s) /\ Last(s \o t) = Last(t)
                  /\ Len(s \o t) = Len(s) + Len(t)
        BY ConcatBlock
      <3>4. Block(f[k], M) /\ Block(q.data, M)
        BY <2>5, <2>8
      <3> HIDE <2>5, <2>8
      <3> QED BY <3>2, <3>3, <3>4, Zenon
    <2>10. Filled(p, k) + Len(q.data) = Filled(q, k + 1)
      <3>1. (k - 1) * Limit + Limit = k * Limit
        BY <1>5
      <3>2. (k + 1) - 1 = k
        OBVIOUS
      <3>3. (k - 1) * Limit + Len(p.data) = k * Limit
        BY <2>6, <3>1
      <3> QED BY <3>2, <3>3 DEF Filled
    <2> QED BY <2>3, <2>8, <2>9, <2>10 DEF Built, q
  <1>8. 0 \in Good
    OBVIOUS
  <1>9. n \in Good
    <2> HIDE DEF Good
    <2>1. \A k \in Nat : k \in Good
      BY <1>7, <1>8, NatSetInduction
    <2> QED BY <1>1, <2>1
  <1>10. Built(n)
    BY <1>1, <1>9
  <1> QED BY <1>1, <1>2, <1>10 DEF n

\* A further page joins a chain that has a cursor.
LEMMA ChainGrows ==
    ASSUME NEW M, NEW ps, NEW p, Chain(ps, M), GoodPage(p, M), Joined(Last(ps), p, M)
    PROVE  /\ Chain(ps \o <<p>>, M)
           /\ (ps \o <<p>>)[1] = ps[1]
           /\ Last(ps \o <<p>>) = p
           /\ Len(ps \o <<p>>) = Len(ps) + 1
  <1> DEFINE qs == ps \o <<p>>
             n == Len(ps)
  <1>1. ps \in Seq(PageRecords) /\ ps # <<>> /\ n \in Nat \ {0} /\ Last(ps) = ps[n]
    BY DEF Chain, Last
  <1>2. p \in PageRecords
    BY DEF GoodPage, PageRecords
  <1>3. /\ qs \in Seq(PageRecords) /\ qs # <<>> /\ Len(qs) = n + 1
        /\ \A i \in 1..n : qs[i] = ps[i]
        /\ qs[n + 1] = p
    BY <1>1, <1>2
  <1> HIDE DEF qs
  <1>4. \A i \in 1..(n + 1) : GoodPage(qs[i], M)
    <2>1. \A i \in 1..n : GoodPage(ps[i], M)
      BY DEF Chain
    <2>2. \A i \in 1..(n + 1) : i \in 1..n \/ i = n + 1
      BY <1>1
    <2> QED BY <1>3, <2>1, <2>2
  <1>5. ASSUME NEW i \in 1..n PROVE Joined(qs[i], qs[i + 1], M)
    <2>1. CASE i = n
      <3>1. qs[i] = Last(ps) /\ qs[i + 1] = p
        BY <1>1, <1>3, <2>1
      <3> QED BY <3>1
    <2>2. CASE i # n
      <3>1. i \in 1..(n - 1) /\ i + 1 \in 1..n
        BY <1>1, <2>2
      <3>2. Joined(ps[i], ps[i + 1], M)
        BY <3>1 DEF Chain
      <3> QED BY <1>3, <3>1, <3>2
    <2> QED BY <2>1, <2>2
  <1>6. Chain(qs, M)
    <2>1. (n + 1) - 1 = n
      BY <1>1
    <2> QED BY <1>3, <1>4, <1>5, <2>1 DEF Chain
  <1>7. qs[1] = ps[1] /\ Last(qs) = p
    BY <1>1, <1>3 DEF Last
  <1> QED BY <1>3, <1>6, <1>7 DEF qs

LEMMA ChainOfOne ==
    ASSUME NEW M, NEW p, GoodPage(p, M) PROVE Chain(<<p>>, M)
  <1>1. p \in PageRecords
    BY DEF GoodPage, PageRecords
  <1>2. /\ <<p>> \in Seq(PageRecords) /\ <<p>> # <<>> /\ Len(<<p>>) = 1 /\ <<p>>[1] = p
    BY <1>1
  <1> QED BY <1>2 DEF Chain

\* A row committed later is newer than all there were: what was read stays true.
Grows(M, N) == \E new \in Nat : (\A id \in M : id < new) /\ (N = M \/ N = M \cup {new})

LEMMA BlockStays ==
    ASSUME NEW M \in SUBSET Nat, NEW N, Grows(M, N), NEW s, Block(s, M)
    PROVE  Block(s, N)
  <1>1. PICK new \in Nat : (\A id \in M : id < new) /\ (N = M \/ N = M \cup {new})
    BY DEF Grows
  <1>2. Head(s) < new /\ Head(s) \in Nat
    BY <1>1, BlockEnds
  <1>3. {id \in N : Last(s) <= id /\ id <= Head(s)} = {id \in M : Last(s) <= id /\ id <= Head(s)}
    BY <1>1, <1>2
  <1> QED BY <1>3 DEF Block

LEMMA GoodPageStays ==
    ASSUME NEW M \in SUBSET Nat, NEW N, Grows(M, N), NEW p, GoodPage(p, M)
    PROVE  GoodPage(p, N)
  <1>1. PICK new \in Nat : (\A id \in M : id < new) /\ (N = M \/ N = M \cup {new})
    BY DEF Grows
  <1>2. Block(p.data, M) /\ Block(p.data, N)
    BY BlockStays DEF GoodPage
  <1>3. Last(p.data) \in Nat /\ Last(p.data) < new
    BY <1>1, <1>2, BlockEnds
  <1>4. (\A id \in M : Last(p.data) <= id) => (\A id \in N : Last(p.data) <= id)
    <2>1. Last(p.data) <= new
      BY <1>3
    <2> QED BY <1>1, <2>1
  <1>5. (\E id \in M : id < Last(p.data)) => (\E id \in N : id < Last(p.data))
    BY <1>1
  <1> QED BY <1>2, <1>4, <1>5 DEF GoodPage

LEMMA ChainStays ==
    ASSUME NEW M \in SUBSET Nat, NEW N, Grows(M, N), NEW ps, Chain(ps, M)
    PROVE  Chain(ps, N)
  <1>1. PICK new \in Nat : (\A id \in M : id < new) /\ (N = M \/ N = M \cup {new})
    BY DEF Grows
  <1>2. \A i \in 1..Len(ps) : GoodPage(ps[i], M) /\ GoodPage(ps[i], N)
    BY GoodPageStays DEF Chain
  <1>3. ASSUME NEW i \in 1..(Len(ps) - 1) PROVE Joined(ps[i], ps[i + 1], N)
    <2>1. Joined(ps[i], ps[i + 1], M)
      BY DEF Chain
    <2>2. i \in 1..Len(ps)
      BY DEF Chain
    <2>3. Last(ps[i].data) \in Nat /\ Last(ps[i].data) < new
      BY <1>1, <1>2, <2>2, BlockEnds DEF GoodPage
    <2>4. {id \in N : id < Last(ps[i].data)} = {id \in M : id < Last(ps[i].data)}
      BY <1>1, <2>3
    <2> QED BY <2>1, <2>4 DEF Joined
  <1> QED BY <1>2, <1>3 DEF Chain

-----------------------------------------------------------------------------
(***************************************************************************)
(* The invariant: what is loaded is a chain of the ledger, and so is what  *)
(* the fetch in flight has collected, which in a "load more" continues     *)
(* what is loaded.                                                         *)
(***************************************************************************)

Held(ps) == ps = <<NoRows>> \/ Chain(ps, mine)

\* What the fetch has collected, an answer under way included.
Asked == flight.got \o flight.answer

\* The operator's own top-up: an answer is only heard to a row that is there.
Pressed == /\ creditForm \in {"none", "mounted", "left"}
           /\ named \in BOOLEAN
           /\ heard \in {"no", "unseen", "followed", "astray"}
           /\ late \in BOOLEAN
           /\ heard # "no" => own # Null

Types == /\ TypeOK
         /\ flight \in [kind : {"idle", "refresh", "more"},
                        got : Seq(Pages), answer : Seq(Pages)]
         /\ Pressed

Loaded == pages = <<>> \/ Held(pages)

Refreshing == /\ Asked = <<>> \/ Held(Asked)
              /\ flight.got # <<>> => /\ Len(flight.got) < Len(pages)
                                      /\ Last(flight.got).nextCursor # Null

LoadingMore == /\ flight.got = <<>>
               /\ HasNextPage
               /\ flight.answer # <<>> => Chain(pages \o flight.answer, mine)

Fetched == /\ flight.kind = "idle" => flight.got = <<>> /\ flight.answer = <<>>
           /\ flight.kind = "refresh" => Refreshing
           /\ flight.kind = "more" => LoadingMore

\* The operator's own top-up was heard of, and no fetch from before that is
\* in flight any more.
Heeded == heard # "no" /\ ~late

\* The rows no refresh may fall behind: the newest on screen, and the
\* operator's own top-up once it is heeded.
Known == {id \in mine :
            \/ pages # <<>> /\ pages[1].data # <<>> /\ id = Head(pages[1].data)
            \/ Heeded /\ id = own}

NotBehind(ps, rows) ==
    \A id \in rows : ps[1].data # <<>> /\ id <= Head(ps[1].data)

Fresh == flight.kind = "refresh" /\ Asked # <<>> => NotBehind(Asked, Known)

HistoryInv == Types /\ Loaded /\ Fetched /\ Fresh

\* The types that the proofs compute with.
LEMMA TypeFacts ==
    ASSUME Types
    PROVE  /\ Ledger /\ mine \in SUBSET Nat /\ mine \in SUBSET (1..MaxId)
           /\ Null \notin mine /\ lastId \in 0..MaxId
           /\ pages \in Seq(Pages) /\ own \in mine \cup {Null}
           /\ flight \in [kind : {"idle", "refresh", "more"},
                          got : Seq(Pages), answer : Seq(Pages)]
           /\ flight.got \in Seq(Pages) /\ flight.answer \in Seq(Pages)
           /\ flight.kind \in {"idle", "refresh", "more"}
           /\ Len(flight.answer) \in 0..1 /\ Len(flight.got) \in Nat
           /\ Asked \in Seq(Pages)
  <1>1. lastId \in 0..MaxId /\ mine \subseteq 1..lastId /\ MaxId \in Nat
    BY HistoryAssumption DEF Types, TypeOK
  <1>2. Ledger /\ mine \in SUBSET (1..MaxId)
    BY <1>1 DEF Ledger
  <1>3. mine \in SUBSET Nat /\ Null \notin mine
    BY <1>2, LedgerIds
  <1>4. /\ pages \in Seq(Pages) /\ own \in mine \cup {Null}
        /\ flight \in [kind : {"idle", "refresh", "more"},
                       got : Seq(Pages), answer : Seq(Pages)]
        /\ Len(flight.answer) <= 1
    BY DEF Types, TypeOK
  <1>5. flight.got \in Seq(Pages) /\ flight.answer \in Seq(Pages)
    BY <1>4
  <1>6. Len(flight.answer) \in 0..1 /\ Len(flight.got) \in Nat
    <2>1. Len(flight.answer) \in Nat /\ Len(flight.got) \in Nat
      BY <1>5, LenProperties
    <2>2. Len(flight.answer) <= 1
      BY <1>4
    <2>3. \A n \in Nat : n <= 1 => n \in 0..1
      OBVIOUS
    <2> QED BY <2>1, <2>2, <2>3
  <1>7. Asked \in Seq(Pages)
    BY <1>5, ConcatProperties DEF Asked
  <1> QED BY <1>1, <1>2, <1>3, <1>4, <1>5, <1>6, <1>7

LEMMA HistoryStarts == Init => HistoryInv
  <1>. SUFFICES ASSUME Init PROVE HistoryInv
    OBVIOUS
  <1>1. flight = [kind |-> "idle", got |-> <<>>, answer |-> <<>>]
    BY DEF Init, Idle
  <1>2. TypeOK
    <2>1. lastId \in 0..MaxId /\ mine \subseteq 1..lastId /\ failures \in 0..MaxFailures
      BY HistoryAssumption DEF Init
    <2>2. <<>> \in Seq(Pages) /\ Len(<<>>) <= 1
      OBVIOUS
    <2>3. /\ pages = <<>> /\ open = FALSE /\ isError = FALSE /\ own = Null
          /\ creditForm = "none" /\ named = TRUE /\ heard = "no" /\ late = FALSE
      BY DEF Init
    <2> QED BY <1>1, <2>1, <2>2, <2>3 DEF TypeOK
  <1>3. Types
    <2>1. <<>> \in Seq(Pages)
      OBVIOUS
    <2>2. Pressed
      BY DEF Init, Pressed
    <2> QED BY <1>1, <1>2, <2>1, <2>2 DEF Types
  <1> QED BY <1>1, <1>3 DEF HistoryInv, Loaded, Fetched, Fresh, Init

LEMMA EmptyNext ==
    /\ [Idle EXCEPT !.kind = "refresh"] = [kind |-> "refresh", got |-> <<>>, answer |-> <<>>]
    /\ [Idle EXCEPT !.kind = "more"] = [kind |-> "more", got |-> <<>>, answer |-> <<>>]
  BY DEF Idle

\* A good page's data and cursor are ids of the ledger.
LEMMA GoodPageTyped ==
    ASSUME Types, NEW p, GoodPage(p, mine) PROVE p \in Pages
  <1>1. p \in [data : Seq(Nat), nextCursor : Nat] /\ Block(p.data, mine)
    BY DEF GoodPage
  <1>2. mine \in SUBSET (1..MaxId) /\ mine \in SUBSET Nat
    BY TypeFacts
  <1>3. p.data \in Seq(Nat) /\ \A i \in 1..Len(p.data) : p.data[i] \in 1..MaxId
    BY <1>2, <1>1 DEF Block, Lists
  <1>4. p.data \in Seq(1..MaxId)
    <2> DEFINE S == 1..MaxId
    <2>1. \A i \in 1..Len(p.data) : p.data[i] \in S
      BY <1>3
    <2> HIDE DEF S
    <2>2. p.data \in Seq(S)
      BY <1>3, <2>1
    <2> QED BY <2>2 DEF S
  <1>5. p.nextCursor = Null \/ p.nextCursor \in mine
    BY <1>1, <1>2, BlockEnds DEF GoodPage
  <1>6. p.nextCursor \in 0..MaxId
    <2>1. MaxId \in Nat
      BY HistoryAssumption
    <2>2. 1..MaxId \subseteq 0..MaxId /\ 0 \in 0..MaxId
      BY <2>1
    <2> QED BY <1>2, <1>5, <2>2 DEF Null
  <1>7. p = [data |-> p.data, nextCursor |-> p.nextCursor]
    BY <1>1
  <1> HIDE DEF Null
  <1> QED BY <1>4, <1>6, <1>7 DEF Pages

\* The cursor of a chain that has one.
LEMMA ChainCursor ==
    ASSUME Types, NEW ps, Held(ps), Last(ps).nextCursor # Null
    PROVE  LET c == Last(ps).nextCursor
           IN  /\ Chain(ps, mine)
               /\ c \in mine
               /\ Older(c) = {id \in mine : id < Last(Last(ps).data)}
               /\ Older(c) # {}
  <1>1. Chain(ps, mine)
    <2>1. Last(<<NoRows>>).nextCursor = Null
      BY DEF NoRows, Last
    <2> QED BY <2>1 DEF Held
  <1>2. ps # <<>> /\ ps \in Seq(PageRecords) /\ Last(ps) = ps[Len(ps)] /\ Len(ps) \in 1..Len(ps)
    BY <1>1 DEF Chain, Last
  <1>3. GoodPage(Last(ps), mine)
    BY <1>1, <1>2 DEF Chain
  <1>4. mine \in SUBSET Nat /\ Null \notin mine
    BY TypeFacts
  <1>5. /\ Last(ps).nextCursor = Last(Last(ps).data)
        /\ \E id \in mine : id < Last(Last(ps).data)
    BY <1>3 DEF GoodPage
  <1>6. Last(Last(ps).data) \in mine
    BY <1>3, <1>4, BlockEnds DEF GoodPage
  <1> QED BY <1>1, <1>4, <1>5, <1>6 DEF Older

\* An answer to the cursor of a chain continues it.
LEMMA AnswerContinues ==
    ASSUME Types, NEW ps, Held(ps), Last(ps).nextCursor # Null
    PROVE  LET p == ListUsageEvents(Last(ps).nextCursor)
           IN  /\ p \in Pages
               /\ Chain(ps \o <<p>>, mine)
               /\ (ps \o <<p>>)[1] = ps[1]
  <1> DEFINE c == Last(ps).nextCursor
             p == ListUsageEvents(c)
  <1>1. /\ Chain(ps, mine) /\ c \in mine /\ Older(c) # {}
        /\ Older(c) = {id \in mine : id < Last(Last(ps).data)}
    BY ChainCursor
  <1>2. GoodPage(p, mine) /\ FromTop(p, Older(c))
    BY <1>1, AnswerIs, TypeFacts
  <1>3. p \in Pages
    BY <1>2, GoodPageTyped
  <1>4. Joined(Last(ps), p, mine)
    BY <1>1, <1>2 DEF Joined
  <1> HIDE DEF p, c
  <1>5. Chain(ps \o <<p>>, mine) /\ (ps \o <<p>>)[1] = ps[1]
    BY <1>1, <1>2, <1>4, ChainGrows
  <1> QED BY <1>3, <1>5 DEF p, c

\* The first answer starts from the newest row there is.
LEMMA FirstAnswer ==
    ASSUME Types
    PROVE  LET p == ListUsageEvents(Null)
           IN  /\ p \in Pages
               /\ Held(<<p>>)
               /\ NotBehind(<<p>>, mine)
  <1> DEFINE p == ListUsageEvents(Null)
  <1>1. Older(Null) = mine
    BY DEF Older
  <1>2. \/ mine = {} /\ p = NoRows
        \/ GoodPage(p, mine) /\ FromTop(p, mine)
    BY <1>1, AnswerIs, TypeFacts
  <1> HIDE DEF p
  <1>3. CASE mine = {} /\ p = NoRows
    <2>1. <<>> \in Seq(1..MaxId) /\ 0 \in 0..MaxId
      BY HistoryAssumption
    <2>2. NoRows \in Pages
      BY <2>1 DEF NoRows, Pages, Null
    <2> QED BY <1>3, <2>2 DEF p, Held, NotBehind
  <1>4. CASE GoodPage(p, mine) /\ FromTop(p, mine)
    <2>1. p \in Pages
      BY <1>4, GoodPageTyped
    <2>2. Chain(<<p>>, mine)
      BY <1>4, ChainOfOne
    <2>3. p.data # <<>> /\ <<p>>[1] = p
      BY <1>4 DEF GoodPage, Block
    <2>4. NotBehind(<<p>>, mine)
      BY <1>4, <2>3 DEF NotBehind, FromTop
    <2> QED BY <2>1, <2>2, <2>4 DEF p, Held
  <1> QED BY <1>2, <1>3, <1>4

-----------------------------------------------------------------------------
(* Each step. *)

\* A commit of anybody's: what was read stays a chain of the grown ledger.
LEMMA CommitSteps ==
    ASSUME HistoryInv, AppendEntry \/ CommitTopUp
    PROVE  HistoryInv'
  <1>1. /\ Types /\ lastId \in Nat /\ lastId < MaxId /\ lastId' = lastId + 1
        /\ mine \in SUBSET Nat /\ mine \in SUBSET (1..lastId)
        /\ mine' = mine \/ mine' = mine \cup {lastId + 1}
        /\ UNCHANGED <<open, pages, flight, isError, failures, creditForm, named, heard, late>>
        /\ \/ own' = own
           \/ heard = "no" /\ own' = lastId + 1 /\ own' \in mine'
    <2>1. /\ Types /\ lastId \in Nat /\ mine \in SUBSET Nat /\ mine \in SUBSET (1..lastId)
          /\ heard # "no" => own # Null
      BY TypeFacts DEF HistoryInv, Types, Ledger, Pressed
    <2>2. CASE AppendEntry
      BY <2>1, <2>2 DEF AppendEntry, view, topUp, press
    <2>3. CASE CommitTopUp
      BY <2>1, <2>3 DEF CommitTopUp, view
    <2> QED BY <2>2, <2>3
  <1>2. Grows(mine, mine')
    <2>1. lastId + 1 \in Nat /\ \A id \in mine : id < lastId + 1
      BY <1>1
    <2> QED BY <1>1, <2>1 DEF Grows
  <1>3. Types'
    <2>1. lastId' \in 0..MaxId /\ mine' \in SUBSET (1..lastId') /\ lastId' # Null
      <3>1. MaxId \in Nat
        BY HistoryAssumption
      <3>2. lastId' \in 0..MaxId /\ lastId' # Null
        BY <1>1, <3>1 DEF Null
      <3>3. mine' \in SUBSET (1..(lastId + 1))
        <4>1. 1..lastId \subseteq 1..(lastId + 1) /\ lastId + 1 \in 1..(lastId + 1)
          BY <1>1
        <4>2. mine \cup {lastId + 1} \subseteq 1..(lastId + 1)
          BY <1>1, <4>1
        <4> QED BY <1>1, <4>2
      <3> QED BY <1>1, <3>2, <3>3
    <2>2. own' \in mine' \cup {Null} /\ (heard' # "no" => own' # Null)
      BY <1>1 DEF Types, TypeOK, Pressed
    <2>3. Pressed'
      BY <1>1, <2>2 DEF Types, Pressed
    <2> QED BY <1>1, <2>1, <2>2, <2>3 DEF Types, TypeOK
  <1>4. \A ps : Chain(ps, mine) => Chain(ps, mine')
    BY <1>1, <1>2, ChainStays
  <1>5. Loaded'
    BY <1>1, <1>4 DEF HistoryInv, Loaded, Held
  <1>6. Fetched'
    BY <1>1, <1>4 DEF HistoryInv, Fetched, Refreshing, LoadingMore, Held, Asked, HasNextPage
  <1>7. Known' \subseteq Known
    <2> SUFFICES ASSUME NEW id \in Known' PROVE id \in Known
      OBVIOUS
    <2>1. id \in mine'
      BY <1>1 DEF Known
    <2>2. CASE pages # <<>> /\ pages[1].data # <<>> /\ id = Head(pages[1].data)
      <3>1. Chain(pages, mine)
        <4>1. pages # <<NoRows>>
          BY <2>2 DEF NoRows
        <4> QED BY <2>2, <4>1 DEF HistoryInv, Loaded, Held
      <3>2. Block(pages[1].data, mine)
        BY <3>1 DEF Chain, GoodPage
      <3>3. id \in mine
        BY <1>1, <2>2, <3>2, BlockEnds
      <3> QED BY <2>1, <2>2, <3>3 DEF Known
    <2>3. CASE Heeded /\ id = own
      <3>1. id \in mine
        BY <1>1, <2>1, <2>3, TypeFacts DEF Types, Pressed, Heeded
      <3> QED BY <2>3, <3>1 DEF Known
    <2>4. \/ pages # <<>> /\ pages[1].data # <<>> /\ id = Head(pages[1].data)
          \/ Heeded /\ id = own
      <3>1. Heeded' = Heeded
        BY <1>1 DEF Heeded
      <3>2. Heeded => own' = own
        BY <1>1 DEF Heeded
      <3> QED BY <1>1, <3>1, <3>2 DEF Known
    <2> QED BY <2>2, <2>3, <2>4
  <1>8. Fresh'
    BY <1>1, <1>7 DEF HistoryInv, Fresh, NotBehind, Asked
  <1> QED BY <1>3, <1>5, <1>6, <1>8 DEF HistoryInv

\* Steps that leave the query and its fetch as they are.
LEMMA QuietSteps ==
    ASSUME HistoryInv, UNCHANGED <<lastId, mine, pages, own, flight>>,
           open' \in BOOLEAN, isError' \in BOOLEAN, Pressed',
           failures' \in 0..MaxFailures,
           flight.kind = "refresh" /\ Heeded' => Heeded
    PROVE  HistoryInv'
  <1>1. Types'
    BY DEF HistoryInv, Types, TypeOK, Pressed
  <1>2. Loaded' /\ Fetched'
    BY DEF HistoryInv, Loaded, Fetched, Refreshing, LoadingMore, Held, Asked, HasNextPage
  <1>3. flight.kind = "refresh" => Known' \subseteq Known
    BY DEF Known
  <1>4. Fresh'
    BY <1>3 DEF HistoryInv, Fresh, Asked, NotBehind
  <1> QED BY <1>1, <1>2, <1>4 DEF HistoryInv

\* Steps that end or abandon the fetch in flight, or start one.
LEMMA StartSteps ==
    ASSUME HistoryInv, UNCHANGED <<lastId, mine, own>>,
           open' \in BOOLEAN, isError' \in BOOLEAN, Pressed',
           failures' \in 0..MaxFailures,
           pages' \in Seq(Pages), Loaded',
           \/ flight' = Idle
           \/ flight' = Start("refresh")
           \/ flight' = Start("more") /\ HasNextPage'
    PROVE  HistoryInv'
  <1>1. \/ flight' = [kind |-> "idle", got |-> <<>>, answer |-> <<>>]
        \/ flight' = [kind |-> "refresh", got |-> <<>>, answer |-> <<>>]
        \/ flight' = [kind |-> "more", got |-> <<>>, answer |-> <<>>] /\ HasNextPage'
    BY EmptyNext DEF Start, Idle
  <1>2. flight'.got = <<>> /\ flight'.answer = <<>>
    BY <1>1
  <1>3. Types'
    <2>1. <<>> \in Seq(Pages) /\ Len(<<>>) <= 1
      OBVIOUS
    <2>2. flight' \in [kind : {"idle", "refresh", "more"},
                       got : Seq(Pages), answer : Seq(Pages)]
      <3>1. \A k \in {"idle", "refresh", "more"}, s \in Seq(Pages) :
               [kind |-> k, got |-> s, answer |-> s]
                  \in [kind : {"idle", "refresh", "more"},
                       got : Seq(Pages), answer : Seq(Pages)]
        OBVIOUS
      <3> QED BY <1>1, <2>1, <3>1
    <2>3. flight'.kind \in {"idle", "refresh", "more"}
      BY <1>1
    <2> QED BY <1>2, <2>1, <2>2, <2>3 DEF HistoryInv, Types, TypeOK, Pressed
  <1>4. Asked' = <<>>
    BY <1>2 DEF Asked
  <1>5. Fetched'
    <2>1. flight'.kind = "more" => HasNextPage'
      BY <1>1
    <2> QED BY <1>2, <1>4, <2>1 DEF Fetched, Refreshing, LoadingMore
  <1> QED BY <1>3, <1>4, <1>5 DEF HistoryInv, Fresh

\* Steps of the operator and the timer, and a fetch that fails.
LEMMA ViewSteps ==
    ASSUME HistoryInv,
           \/ PressTopUp \/ SwitchRow \/ TopUpSucceeds \/ OpenDetails \/ CloseDetails
           \/ Forget \/ Poll \/ LoadMore \/ FetchFails
    PROVE  HistoryInv'
  <1>1. /\ open \in BOOLEAN /\ isError \in BOOLEAN /\ Pressed
        /\ failures \in 0..MaxFailures /\ pages \in Seq(Pages) /\ Loaded
    BY DEF HistoryInv, Types, TypeOK
  <1>2. UNCHANGED <<pages, mine>> => Loaded'
    BY <1>1 DEF Loaded, Held
  <1>3. CASE PressTopUp \/ SwitchRow
    <2>1. UNCHANGED <<lastId, mine, view, own, heard, late>>
      BY <1>3 DEF PressTopUp, SwitchRow
    <2>2. Pressed'
      <3>1. creditForm' \in {"none", "mounted", "left"}
        BY <1>1, <1>3 DEF PressTopUp, SwitchRow, Pressed
      <3>2. named' \in BOOLEAN
        <4>1. CASE PressTopUp
          BY <1>1, <4>1 DEF PressTopUp, Pressed
        <4>2. CASE SwitchRow
          BY <4>2, Zenon DEF SwitchRow
        <4> QED BY <1>3, <4>1, <4>2
      <3> QED BY <1>1, <2>1, <3>1, <3>2 DEF Pressed
    <2>3. Heeded' => Heeded
      BY <2>1 DEF Heeded
    <2> QED BY <1>1, <2>1, <2>2, <2>3, QuietSteps DEF view
  <1>4. CASE TopUpSucceeds
    <2>1. /\ UNCHANGED <<lastId, mine, open, pages, failures, own, creditForm, named>>
          /\ own # Null
          /\ \/ flight' = Start("refresh")
             \/ flight' = flight
      BY <1>4 DEF TopUpSucceeds, Invalidate
    <2>2. isError' \in BOOLEAN /\ late' \in BOOLEAN
      BY <1>4, Zenon DEF TopUpSucceeds
    <2>3. heard' \in {"unseen", "followed", "astray"}
      BY <1>4 DEF TopUpSucceeds
    <2>4. Pressed'
      BY <1>1, <2>1, <2>2, <2>3 DEF Pressed
    <2>5. open' \in BOOLEAN /\ failures' \in 0..MaxFailures /\ Loaded' /\ pages' \in Seq(Pages)
      BY <1>1, <1>2, <2>1
    <2>6. CASE flight' = Start("refresh")
      BY <2>1, <2>2, <2>4, <2>5, <2>6, StartSteps
    <2>7. CASE flight' = flight /\ flight' # Start("refresh")
      <3>1. heard' # "followed"
        <4> SUFFICES ASSUME heard' = "followed" PROVE FALSE
          OBVIOUS
        <4>1. open /\ named /\ pages # <<>>
          BY <1>4 DEF TopUpSucceeds
        <4> QED BY <1>4, <2>7, <4>1 DEF TopUpSucceeds, Invalidate
      <3>2. flight.kind = "refresh" => late'
        BY <1>4, <3>1, Zenon DEF TopUpSucceeds
      <3>3. flight.kind = "refresh" /\ Heeded' => Heeded
        BY <3>2, Zenon DEF Heeded
      <3> QED BY <2>1, <2>2, <2>4, <2>5, <2>7, <3>3, QuietSteps
    <2> QED BY <2>1, <2>6, <2>7
  <1>5. CASE OpenDetails \/ Poll
    <2>1. /\ UNCHANGED <<lastId, mine, pages, failures, own, named, heard, late>>
          /\ creditForm' \in {"none", "mounted", "left"}
          /\ \/ flight' = Start("refresh")
             \/ flight' = flight
      BY <1>1, <1>5 DEF OpenDetails, Poll, Refetch, topUp, press, Pressed
    <2>2. isError' \in BOOLEAN /\ open' \in BOOLEAN
      <3>1. isError' \in BOOLEAN
        BY <1>5, Zenon DEF OpenDetails, Poll, Refetch
      <3>2. open' \in BOOLEAN
        BY <1>1, <1>5 DEF OpenDetails, Poll
      <3> QED BY <3>1, <3>2
    <2>3. failures' \in 0..MaxFailures /\ Loaded' /\ pages' \in Seq(Pages)
      BY <1>1, <1>2, <2>1
    <2>4. Pressed' /\ (Heeded' => Heeded)
      BY <1>1, <2>1 DEF Pressed, Heeded
    <2>5. CASE flight' = Start("refresh")
      BY <2>1, <2>2, <2>3, <2>4, <2>5, StartSteps
    <2>6. CASE flight' = flight
      BY <2>1, <2>2, <2>3, <2>4, <2>6, QuietSteps
    <2> QED BY <2>1, <2>5, <2>6
  <1>6. CASE CloseDetails
    <2>1. /\ UNCHANGED <<lastId, mine, pages, own, flight, isError, failures>>
          /\ UNCHANGED <<creditForm, named, heard, late>>
          /\ open' = FALSE
      BY <1>6 DEF CloseDetails, topUp, press
    <2>2. Pressed' /\ (Heeded' => Heeded)
      BY <1>1, <2>1 DEF Pressed, Heeded
    <2> QED BY <1>1, <2>1, <2>2, QuietSteps
  <1>7. CASE Forget
    <2>1. /\ UNCHANGED <<lastId, mine, open, flight, failures, own>>
          /\ UNCHANGED <<creditForm, named, heard, late>>
          /\ pages' = <<>> /\ isError' = FALSE /\ flight.kind = "idle"
      BY <1>7 DEF Forget, topUp, press
    <2>2. flight' = Idle
      <3>1. flight.got = <<>> /\ flight.answer = <<>>
        BY <2>1 DEF HistoryInv, Fetched
      <3>2. flight = [kind |-> "idle", got |-> <<>>, answer |-> <<>>]
        BY <2>1, <3>1, TypeFacts DEF HistoryInv
      <3> QED BY <2>1, <3>2 DEF Idle
    <2>3. Loaded' /\ pages' \in Seq(Pages)
      BY <2>1 DEF Loaded
    <2>4. Pressed'
      BY <1>1, <2>1 DEF Pressed
    <2> QED BY <1>1, <2>1, <2>2, <2>3, <2>4, StartSteps
  <1>8. CASE LoadMore
    <2>1. /\ UNCHANGED <<lastId, mine, open, pages, isError, failures, own>>
          /\ UNCHANGED <<creditForm, named, heard>> /\ late' = FALSE
          /\ flight' = Start("more") /\ HasNextPage
      BY <1>8 DEF LoadMore, press
    <2>2. HasNextPage' /\ Loaded'
      BY <1>2, <2>1 DEF HasNextPage
    <2>3. Pressed'
      BY <1>1, <2>1 DEF Pressed
    <2> QED BY <1>1, <2>1, <2>2, <2>3, StartSteps
  <1>9. CASE FetchFails
    <2>1. /\ UNCHANGED <<lastId, mine, open, pages, own>>
          /\ UNCHANGED <<creditForm, named, heard>> /\ late' = FALSE
          /\ flight' = Idle /\ isError' = TRUE /\ failures' = failures + 1
          /\ failures < MaxFailures
      BY <1>9 DEF FetchFails, press
    <2>2. failures' \in 0..MaxFailures /\ Loaded'
      BY <1>1, <1>2, <2>1, HistoryAssumption
    <2>3. Pressed'
      BY <1>1, <2>1 DEF Pressed
    <2> QED BY <1>1, <2>1, <2>2, <2>3, StartSteps
  <1> QED BY <1>3, <1>4, <1>5, <1>6, <1>7, <1>8, <1>9

\* An answer of type Pages keeps the types.
LEMMA ServedTypes ==
    ASSUME Types, NEW p \in Pages, flight' = [flight EXCEPT !.answer = <<p>>],
           UNCHANGED <<lastId, mine, open, pages, isError, failures>>,
           UNCHANGED <<own, creditForm, named, heard, late>>
    PROVE  Types'
  <1>1. <<p>> \in Seq(Pages) /\ Len(<<p>>) <= 1
    OBVIOUS
  <1>2. flight \in [kind : {"idle", "refresh", "more"},
                    got : Seq(Pages), answer : Seq(Pages)]
    BY TypeFacts
  <1>3. /\ flight' \in [kind : {"idle", "refresh", "more"},
                        got : Seq(Pages), answer : Seq(Pages)]
        /\ flight'.kind = flight.kind /\ flight'.got = flight.got
        /\ flight'.answer = <<p>>
    BY <1>1, <1>2
  <1>4. Pressed'
    BY DEF Types, Pressed
  <1> QED BY <1>1, <1>3, <1>4 DEF Types, TypeOK

\* A backend's answer continues what the fetch has collected, or begins it
\* with the newest row there is.
LEMMA ServeStep ==
    ASSUME HistoryInv, ServePage
    PROVE  HistoryInv'
  <1> DEFINE p == ListUsageEvents(PageParam)
  <1>1. Types /\ Loaded /\ Fetched /\ Fresh
    BY DEF HistoryInv
  <1>2. /\ flight.kind \in {"refresh", "more"}
        /\ flight.answer = <<>>
        /\ flight' = [flight EXCEPT !.answer = <<p>>]
        /\ UNCHANGED <<lastId, mine, open, pages, isError, failures>>
        /\ UNCHANGED <<own, creditForm, named, heard, late>>
    BY <1>1, TypeFacts DEF ServePage, topUp, press
  <1>3. flight.got \in Seq(Pages) /\ pages \in Seq(Pages)
    BY <1>1, TypeFacts
  <1>4. flight'.kind = flight.kind /\ flight'.got = flight.got /\ flight'.answer = <<p>>
    BY <1>1, <1>2, TypeFacts
  <1>5. CASE flight.kind = "more"
    <2>1. flight.got = <<>> /\ HasNextPage
      BY <1>1, <1>5 DEF Fetched, LoadingMore
    <2>2. Held(pages) /\ Last(pages).nextCursor # Null
        /\ p = ListUsageEvents(Last(pages).nextCursor)
      BY <1>1, <1>5, <2>1 DEF Loaded, HasNextPage, PageParam
    <2> HIDE DEF p
    <2>3. p \in Pages /\ Chain(pages \o <<p>>, mine)
      BY <1>1, <2>2, AnswerContinues
    <2>4. Fetched' /\ Fresh'
      BY <1>2, <1>4, <1>5, <2>1, <2>3 DEF Fetched, LoadingMore, HasNextPage, Fresh
    <2> QED BY <1>1, <1>2, <2>3, <2>4, ServedTypes DEF HistoryInv, Loaded, Held
  <1>6. CASE flight.kind = "refresh" /\ flight.got = <<>>
    <2>1. p = ListUsageEvents(Null)
      BY <1>6 DEF PageParam
    <2> HIDE DEF p
    <2>2. p \in Pages /\ Held(<<p>>) /\ NotBehind(<<p>>, mine)
      BY <1>1, <2>1, FirstAnswer
    <2>3. Asked' = <<p>>
      BY <1>4, <1>6, <2>2 DEF Asked
    <2>4. Fetched'
      BY <1>2, <1>4, <1>6, <2>2, <2>3 DEF Fetched, Refreshing, Held
    <2>5. Fresh'
      BY <1>2, <2>2, <2>3 DEF Fresh, NotBehind, Known
    <2> QED BY <1>1, <1>2, <2>2, <2>4, <2>5, ServedTypes DEF HistoryInv, Loaded, Held
  <1>7. CASE flight.kind = "refresh" /\ flight.got # <<>>
    <2>1. Asked = flight.got
      BY <1>2, <1>3 DEF Asked
    <2>2. /\ Held(flight.got) /\ Last(flight.got).nextCursor # Null
          /\ Len(flight.got) < Len(pages)
          /\ p = ListUsageEvents(Last(flight.got).nextCursor)
      BY <1>1, <1>7, <2>1 DEF Fetched, Refreshing, PageParam
    <2> HIDE DEF p
    <2>3. /\ p \in Pages
          /\ Chain(flight.got \o <<p>>, mine)
          /\ (flight.got \o <<p>>)[1] = flight.got[1]
      BY <1>1, <2>2, AnswerContinues
    <2>4. Asked' = flight.got \o <<p>>
      BY <1>4 DEF Asked
    <2>5. Fetched'
      BY <1>2, <1>4, <1>7, <2>2, <2>3, <2>4 DEF Fetched, Refreshing, Held
    <2>6. Fresh'
      <3>1. NotBehind(flight.got, Known)
        BY <1>1, <1>7, <2>1 DEF Fresh
      <3>2. Known' = Known
        BY <1>2 DEF Known, Heeded
      <3> QED BY <2>3, <2>4, <3>1, <3>2 DEF Fresh, NotBehind
    <2> QED BY <1>1, <1>2, <2>3, <2>5, <2>6, ServedTypes DEF HistoryInv, Loaded, Held
  <1> QED BY <1>2, <1>5, <1>6, <1>7

\* The answer's arrival: it is kept for the next request of the chain, or the
\* whole of it becomes what is loaded.
LEMMA ArriveStep ==
    ASSUME HistoryInv, PageArrives
    PROVE  HistoryInv'
  <1>1. Types /\ Loaded /\ Fetched /\ Fresh
    BY DEF HistoryInv
  <1>2. /\ flight.answer # <<>>
        /\ pages' = Visible(Asked)
        /\ flight' = IF Complete(Asked) THEN Idle
                     ELSE [flight EXCEPT !.got = Asked, !.answer = <<>>]
        /\ UNCHANGED <<lastId, mine, open, failures, own>>
        /\ UNCHANGED <<creditForm, named, heard>>
    BY DEF PageArrives, Asked, press
  <1>3. /\ isError' \in BOOLEAN /\ late' \in BOOLEAN
        /\ late /\ ~Complete(Asked) => late'
    BY Zenon DEF PageArrives, Asked
  <1>4. /\ flight.got \in Seq(Pages) /\ flight.answer \in Seq(Pages)
        /\ pages \in Seq(Pages) /\ Asked \in Seq(Pages)
        /\ flight \in [kind : {"idle", "refresh", "more"},
                       got : Seq(Pages), answer : Seq(Pages)]
    BY <1>1, TypeFacts
  <1>5. open \in BOOLEAN /\ failures \in 0..MaxFailures /\ Pressed'
    <2>1. Pressed'
      BY <1>1, <1>2, <1>3 DEF Types, Pressed
    <2> QED BY <1>1, <2>1 DEF Types, TypeOK
  <1>6. Asked # <<>>
    BY <1>2, <1>4 DEF Asked
  <1>7. CASE flight.kind = "more"
    <2>1. flight.got = <<>> /\ Chain(pages \o flight.answer, mine)
      BY <1>1, <1>2, <1>7 DEF Fetched, LoadingMore
    <2>2. Asked = flight.answer
      BY <1>4, <2>1 DEF Asked
    <2>3. pages' = pages \o flight.answer /\ flight' = Idle
      BY <1>2, <1>7, <2>2 DEF Visible, Complete
    <2>4. pages' \in Seq(Pages)
      BY <1>4, <2>3, ConcatProperties
    <2>5. Loaded'
      BY <1>2, <2>1, <2>3 DEF Loaded, Held
    <2> QED BY <1>2, <1>3, <1>5, <2>3, <2>4, <2>5, StartSteps
  <1>8. CASE flight.kind = "refresh"
    <2>1. Held(Asked)
      BY <1>1, <1>6, <1>8 DEF Fetched, Refreshing
    <2>2. CASE Complete(Asked)
      <3>1. pages' = Asked /\ flight' = Idle
        BY <1>2, <1>8, <2>2 DEF Visible
      <3>2. Loaded'
        BY <1>2, <2>1, <3>1 DEF Loaded, Held
      <3> QED BY <1>2, <1>3, <1>4, <1>5, <3>1, <3>2, StartSteps
    <2>3. CASE ~Complete(Asked)
      <3>1. /\ pages' = pages
            /\ flight' = [flight EXCEPT !.got = Asked, !.answer = <<>>]
        BY <1>2, <1>8, <2>3 DEF Visible
      <3>2. flight' = [kind |-> "refresh", got |-> Asked, answer |-> <<>>]
        BY <1>4, <1>8, <3>1
      <3>3. flight'.kind = "refresh" /\ flight'.got = Asked /\ flight'.answer = <<>>
        BY <3>2
      <3>4. Asked' = Asked
        BY <1>4, <3>3, ConcatEmptySeq DEF Asked
      <3>5. Len(Asked) < Len(pages) /\ Last(Asked).nextCursor # Null
        BY <1>4, <2>3 DEF Complete
      <3>6. Types'
        <4>1. <<>> \in Seq(Pages) /\ Len(<<>>) <= 1
          OBVIOUS
        <4>2. flight' \in [kind : {"idle", "refresh", "more"},
                           got : Seq(Pages), answer : Seq(Pages)]
          BY <1>4, <3>1, <4>1
        <4> QED BY <1>1, <1>2, <1>3, <1>4, <1>5, <3>1, <3>3, <4>1, <4>2
              DEF Types, TypeOK, Pressed
      <3>7. Loaded' /\ Fetched'
        BY <1>1, <1>2, <2>1, <3>1, <3>3, <3>4, <3>5
           DEF Loaded, Fetched, Refreshing, Held
      <3>8. Fresh'
        <4>1. Heeded' => Heeded
          BY <1>2, <1>3, <2>3, Zenon DEF Heeded
        <4>2. Known' \subseteq Known
          BY <1>2, <3>1, <4>1 DEF Known
        <4> QED BY <1>1, <1>8, <3>3, <3>4, <4>2 DEF Fresh, NotBehind
      <3> QED BY <3>6, <3>7, <3>8 DEF HistoryInv
    <2> QED BY <2>2, <2>3
  <1>9. flight.kind # "idle"
    BY <1>1, <1>2 DEF Fetched
  <1> QED BY <1>1, <1>7, <1>8, <1>9, TypeFacts

LEMMA HistorySteps == HistoryInv /\ [Next]_vars => HistoryInv'
  <1>. SUFFICES ASSUME HistoryInv, [Next]_vars PROVE HistoryInv'
    OBVIOUS
  <1>1. CASE UNCHANGED vars
    <2>1. /\ UNCHANGED <<lastId, mine, open, pages, flight, isError, failures, own>>
          /\ UNCHANGED <<creditForm, named, heard, late>>
      BY <1>1 DEF vars, view, topUp, press
    <2>2. /\ open \in BOOLEAN /\ isError \in BOOLEAN /\ Pressed
          /\ failures \in 0..MaxFailures
      BY DEF HistoryInv, Types, TypeOK
    <2>3. Pressed' /\ (Heeded' => Heeded)
      BY <2>1, <2>2 DEF Pressed, Heeded
    <2> QED BY <2>1, <2>2, <2>3, QuietSteps
  <1>2. CASE Next
    BY <1>2, CommitSteps, ViewSteps, ServeStep, ArriveStep DEF Next
  <1> QED BY <1>1, <1>2

\* What is loaded, and what a fetch has collected, is a chain of the ledger.
THEOREM HistoryIsAChain == Spec => []HistoryInv
  BY HistoryStarts, HistorySteps, PTL DEF Spec

\* Rows, cursors and flights are what the client's types say.
THEOREM HistoryIsTyped == Spec => []TypeOK
  <1>1. HistoryInv => TypeOK
    BY DEF HistoryInv, Types
  <1> QED BY <1>1, HistoryIsAChain, PTL

-----------------------------------------------------------------------------
(* What the operator sees. *)

LEMMA RowsOfNone == Rows(<<NoRows>>) = <<>>
  <1>1. <<NoRows>> \in Seq(PageRecords) /\ <<NoRows>> # <<>> /\ Len(<<NoRows>>) = 1
    <2>1. NoRows \in PageRecords
      BY DEF NoRows, PageRecords, Null
    <2> QED BY <2>1
  <1>2. <<NoRows>>[1].data = <<>>
    BY DEF NoRows
  <1> QED BY <1>1, <1>2, RowsAre

\* What is shown, from what is loaded.
LEMMA ShownIs ==
    ASSUME Types, Loaded
    PROVE  \/ /\ Shown = <<>>
              /\ pages = <<>> \/ pages = <<NoRows>>
           \/ /\ Chain(pages, mine) /\ Block(Shown, mine) /\ Shown # <<>>
              /\ Head(Shown) = Head(pages[1].data)
              /\ Last(Shown) = Last(Last(pages).data)
  <1>1. mine \in SUBSET Nat
    BY TypeFacts
  <1>2. Shown = Rows(pages)
    BY ShownIsRows
  <1>3. CASE pages = <<>>
    <2>1. <<>> \in Seq(PageRecords)
      OBVIOUS
    <2> QED BY <1>2, <1>3, <2>1, RowsAre
  <1>4. CASE pages = <<NoRows>>
    BY <1>2, <1>4, RowsOfNone
  <1>5. CASE Chain(pages, mine)
    BY <1>1, <1>2, <1>5, ChainRows DEF Block
  <1> QED BY <1>3, <1>4, <1>5 DEF Loaded, Held

\* No row is skipped and none is repeated, whatever was committed between the
\* answers that were put together.
THEOREM HistoryHasNoGaps == Spec => []NoGapsNoRepeats
  <1>1. HistoryInv => NoGapsNoRepeats
    <2> DEFINE rows == {id \in mine : Last(Shown) <= id /\ id <= Head(Shown)}
    <2> SUFFICES ASSUME HistoryInv, Shown # <<>> PROVE Shown = Descending(rows)
      BY DEF NoGapsNoRepeats
    <2>1. Block(Shown, mine) /\ Ledger
      BY ShownIs, TypeFacts DEF HistoryInv
    <2>2. lastId \in Nat /\ rows \in SUBSET (1..lastId)
      BY <2>1 DEF Ledger
    <2>3. Shown \in Seq(Nat) /\ Desc(Shown) /\ Lists(Shown, rows)
      BY <2>1 DEF Block
    <2> HIDE DEF rows
    <2>4. /\ Descending(rows) \in Seq(Nat) /\ Desc(Descending(rows))
          /\ Lists(Descending(rows), rows)
      BY <2>2, DescendingLists
    <2> QED BY <2>3, <2>4, DescUnique
  <1> QED BY <1>1, HistoryIsAChain, PTL

\* "Load more" is offered exactly when there is more to load.
THEOREM LoadMoreIsOffered == Spec => []MoreMeansMore
  <1>1. HistoryInv => MoreMeansMore
    <2> SUFFICES ASSUME HistoryInv, Shown # <<>>
                 PROVE  HasNextPage <=> \E id \in mine : id < Last(Shown)
      BY DEF MoreMeansMore
    <2>1. /\ Chain(pages, mine) /\ Last(Shown) = Last(Last(pages).data)
          /\ mine \in SUBSET Nat /\ Null \notin mine
      BY ShownIs, TypeFacts DEF HistoryInv
    <2>2. pages # <<>> /\ GoodPage(Last(pages), mine)
      BY <2>1 DEF Chain, Last
    <2>3. Block(Last(pages).data, mine)
      BY <2>2 DEF GoodPage
    <2>4. Last(Last(pages).data) \in mine /\ Last(Last(pages).data) \in Nat
      BY <2>1, <2>3, BlockEnds
    <2>5. Last(Last(pages).data) # Null
      BY <2>1, <2>4
    <2>6. (\A id \in mine : Last(Last(pages).data) <= id)
             <=> ~ \E id \in mine : id < Last(Last(pages).data)
      BY <2>1, <2>4
    <2> QED BY <2>1, <2>2, <2>5, <2>6 DEF GoodPage, HasNextPage
  <1> QED BY <1>1, HistoryIsAChain, PTL

\* Only an answer that completes its fetch changes what is loaded, or forgetting
\* it all.
LEMMA LoadedBy ==
    ASSUME HistoryInv, [Next]_vars, pages' # pages, pages' # <<>>
    PROVE  /\ PageArrives /\ mine' = mine
           /\ \/ /\ flight.kind = "more"
                 /\ pages' = pages \o flight.answer /\ Len(flight.answer) = 1
                 /\ Chain(pages', mine) /\ Held(pages) /\ HasNextPage
              \/ /\ flight.kind = "refresh" /\ Complete(Asked)
                 /\ pages' = Asked /\ Asked # <<>>
                 /\ Held(Asked) /\ NotBehind(Asked, Known)
  <1>1. PageArrives
    BY DEF Next, AppendEntry, PressTopUp, SwitchRow, CommitTopUp, TopUpSucceeds, OpenDetails,
           CloseDetails, Forget, Poll, LoadMore, ServePage, FetchFails, vars, view
  <1>2. /\ flight.answer # <<>> /\ pages' = Visible(Asked) /\ mine' = mine
    BY <1>1 DEF PageArrives, Asked
  <1>3. Types /\ Loaded /\ Fetched /\ Fresh
    BY DEF HistoryInv
  <1>4. flight.got \in Seq(Pages) /\ flight.answer \in Seq(Pages) /\ Len(flight.answer) \in 0..1
    BY <1>3, TypeFacts
  <1>5. CASE flight.kind = "more"
    <2>1. flight.got = <<>> /\ HasNextPage /\ Chain(pages \o flight.answer, mine)
      BY <1>2, <1>3, <1>5 DEF Fetched, LoadingMore
    <2>2. Asked = flight.answer
      BY <1>4, <2>1 DEF Asked
    <2>3. pages' = pages \o flight.answer
      BY <1>2, <1>5, <2>2 DEF Visible
    <2>4. Held(pages)
      BY <1>3, <2>1 DEF Loaded, HasNextPage
    <2>5. Len(flight.answer) = 1
      BY <1>2, <1>4
    <2> QED BY <1>1, <1>2, <1>5, <2>1, <2>3, <2>4, <2>5
  <1>6. CASE flight.kind = "refresh"
    <2>1. Complete(Asked) /\ pages' = Asked
      BY <1>2, <1>6 DEF Visible
    <2> QED BY <1>1, <1>2, <1>3, <1>6, <2>1 DEF Fetched, Refreshing, Fresh
  <1> QED BY <1>2, <1>3, <1>5, <1>6, TypeFacts DEF Fetched

\* A refresh that shows rows shows the newest it knew of.
LEMMA RefreshIsAhead ==
    ASSUME HistoryInv, [Next]_vars, pages' # pages, pages' # <<>>,
           flight.kind = "refresh", NEW id \in Known
    PROVE  /\ Chain(pages', mine)
           /\ Shown' # <<>>
           /\ Head(Shown') >= id
  <1>1. pages' = Asked /\ Held(Asked) /\ NotBehind(Asked, Known) /\ mine' = mine
    BY LoadedBy
  <1>2. Asked[1].data # <<>> /\ id <= Head(Asked[1].data)
    BY <1>1 DEF NotBehind
  <1>3. Chain(Asked, mine)
    BY <1>1, <1>2 DEF Held, NoRows
  <1>4. Head(Rows(Asked)) = Head(Asked[1].data) /\ Rows(Asked) # <<>>
    BY <1>3, ChainRows, TypeFacts DEF HistoryInv, Block
  <1>5. Shown' = Rows(Asked)
    <2>1. Shown' = Rows(pages')
      BY DEF Shown, Rows
    <2> QED BY <1>1, <2>1
  <1>6. Head(Asked[1].data) \in Nat /\ id \in Nat
    <2>1. Block(Asked[1].data, mine)
      BY <1>3 DEF Chain, GoodPage
    <2> QED BY <2>1, BlockEnds, TypeFacts DEF HistoryInv, Known
  <1> QED BY <1>1, <1>2, <1>3, <1>4, <1>5, <1>6

\* Once the operator's own top-up was heard of, and the refresh it may have
\* found in flight is over, no refresh shows a state from before it.
THEOREM HistoryShowsOwnTopUp == Spec => ReadsOwnTopUp
  <1>1. HistoryInv /\ [Next]_vars
          => [heard # "no" /\ ~late /\ flight.kind = "refresh" /\ pages' # pages =>
                 Shown' # <<>> /\ Head(Shown') >= own]_vars
    <2>1. SUFFICES ASSUME HistoryInv, [Next]_vars, heard # "no", ~late,
                          flight.kind = "refresh", pages' # pages
                   PROVE  Shown' # <<>> /\ Head(Shown') >= own
      OBVIOUS
    <2>2. own \in Known
      BY <2>1 DEF HistoryInv, Types, TypeOK, Pressed, Known, Heeded
    <2>3. pages' # <<>>
      <3>1. CASE PageArrives
        <4>1. pages' = Visible(Asked) /\ flight.answer # <<>>
          BY <3>1 DEF PageArrives, Asked
        <4>2. Asked # <<>>
          BY <2>1, <4>1, TypeFacts DEF HistoryInv, Asked
        <4>3. pages' = Asked
          BY <2>1, <4>1 DEF Visible
        <4> QED BY <4>2, <4>3
      <3>2. CASE ~PageArrives
        BY <2>1, <3>2
           DEF Next, AppendEntry, PressTopUp, SwitchRow, CommitTopUp, TopUpSucceeds,
               OpenDetails, CloseDetails, Forget, Poll, LoadMore, ServePage, FetchFails,
               vars, view
      <3> QED BY <3>1, <3>2
    <2> QED BY <2>1, <2>2, <2>3, RefreshIsAhead
  <1> QED BY <1>1, HistoryIsAChain, PTL DEF Spec, ReadsOwnTopUp

\* A press of "Load more" ends with one more page, an error, or the refresh
\* that the operator's own top-up asks for.
THEOREM LoadMoreIsKept == Spec => LoadMoreIsNotLost
  <1>1. HistoryInv /\ [Next]_vars
          => [flight.kind = "more" /\ flight'.kind # "more" =>
                 Len(pages') = Len(pages) + 1 \/ isError'
                   \/ (heard = "no" /\ heard' = "followed")]_vars
    <2>1. SUFFICES ASSUME HistoryInv, [Next]_vars, flight.kind = "more", flight'.kind # "more"
                   PROVE  \/ Len(pages') = Len(pages) + 1 \/ isError'
                          \/ heard = "no" /\ heard' = "followed"
      OBVIOUS
    <2>0. Types
      BY <2>1 DEF HistoryInv
    <2>2. /\ pages \in Seq(Pages) /\ flight.answer \in Seq(Pages)
          /\ flight.got \in Seq(Pages) /\ Len(flight.answer) \in 0..1
      BY <2>0, TypeFacts
    <2>3. CASE FetchFails
      BY <2>3 DEF FetchFails
    <2>4. CASE TopUpSucceeds
      <3>1. open /\ named
        BY <2>1, <2>4 DEF TopUpSucceeds
      <3>2. pages # <<>>
        BY <2>1 DEF HistoryInv, Fetched, LoadingMore, HasNextPage
      <3> QED BY <2>4, <3>1, <3>2 DEF TopUpSucceeds
    <2>5. CASE PageArrives
      <3>1. flight.got = <<>>
        BY <2>1 DEF HistoryInv, Fetched, LoadingMore
      <3>2. pages' = pages \o flight.answer /\ flight.answer # <<>>
        <4>1. flight.got \o flight.answer = flight.answer
          BY <2>2, <3>1
        <4> QED BY <2>1, <2>5, <4>1 DEF PageArrives, Visible
      <3>3. Len(flight.answer) = 1 /\ Len(pages) \in Nat
        BY <2>2, <3>2
      <3>4. Len(pages') = Len(pages) + Len(flight.answer)
        BY <2>2, <3>2
      <3> QED BY <3>3, <3>4
    <2>6. CASE ServePage
      <3>1. flight'.kind = flight.kind
        BY <2>0, <2>6, TypeFacts DEF ServePage
      <3> QED BY <2>1, <3>1
    <2>7. CASE \/ AppendEntry \/ PressTopUp \/ SwitchRow \/ CommitTopUp \/ OpenDetails
               \/ CloseDetails \/ Forget \/ Poll \/ LoadMore \/ UNCHANGED vars
      BY <2>1, <2>7, EmptyNext
         DEF AppendEntry, PressTopUp, SwitchRow, CommitTopUp, OpenDetails, CloseDetails, Forget, Poll, Refetch,
             LoadMore, vars, view, Start
    <2> QED BY <2>1, <2>3, <2>4, <2>5, <2>6, <2>7 DEF Next
  <1> QED BY <1>1, HistoryIsAChain, PTL DEF Spec, LoadMoreIsNotLost

\* A descending sequence with all the rows of another is not shorter.
LEMMA NotShorter ==
    ASSUME NEW s \in Seq(Nat), NEW t \in Seq(Nat), Desc(s), Desc(t), Within(s, t)
    PROVE  Len(s) <= Len(t)
  <1> DEFINE Late(n) == \A j \in 1..Len(t) : t[j] = s[n] => n <= j
             Good == {n \in Nat : n \in 1..Len(s) => Late(n)}
  <1>1. 0 \in Good
    OBVIOUS
  <1>2. ASSUME NEW n \in Nat, n \in Good PROVE n + 1 \in Good
    <2> SUFFICES ASSUME n + 1 \in 1..Len(s), NEW j \in 1..Len(t), t[j] = s[n + 1]
                 PROVE  n + 1 <= j
      OBVIOUS
    <2>1. CASE n = 0
      BY <2>1
    <2>2. CASE n # 0
      <3>1. n \in 1..Len(s) /\ n < n + 1
        BY <2>2
      <3>2. PICK i \in 1..Len(t) : t[i] = s[n]
        BY <3>1 DEF Within
      <3>3. n <= i
        BY <1>2, <3>1, <3>2
      <3>4. s[n] > s[n + 1]
        BY <3>1, DescAt
      <3>5. i < j
        BY <3>2, <3>4, DescAt
      <3> QED BY <3>3, <3>5
    <2> QED BY <2>1, <2>2
  <1>3. \A n \in Nat : n \in Good
    <2> HIDE DEF Good
    <2> QED BY <1>1, <1>2, NatSetInduction
  <1>4. CASE Len(s) = 0
    BY <1>4
  <1>5. CASE Len(s) # 0
    <2>1. Len(s) \in 1..Len(s)
      BY <1>5
    <2>2. PICK j \in 1..Len(t) : t[j] = s[Len(s)]
      BY <2>1 DEF Within
    <2>3. Late(Len(s))
      <3>1. Len(s) \in Nat
        OBVIOUS
      <3>2. Len(s) \in Good
        BY <1>3, <3>1
      <3> QED BY <2>1, <3>2
    <2>4. Len(s) <= j
      BY <2>2, <2>3
    <2> QED BY <2>4
  <1> QED BY <1>4, <1>5

\* Pages are full: with a cursor for the next one they hold as many rows as
\* that many pages can.
LEMMA ChainLength ==
    ASSUME NEW M \in SUBSET Nat, NEW ps, Chain(ps, M)
    PROVE  /\ Len(ps) \in Nat \ {0} /\ Len(Rows(ps)) \in Nat
           /\ Len(Rows(ps)) <= Len(ps) * Limit
           /\ Last(ps).nextCursor # Null => Len(Rows(ps)) = Len(ps) * Limit
  <1>1. ps \in Seq(PageRecords) /\ ps # <<>> /\ Len(ps) \in Nat \ {0} /\ Last(ps) = ps[Len(ps)]
    BY DEF Chain, Last
  <1>2. GoodPage(Last(ps), M)
    BY <1>1 DEF Chain
  <1>3. Last(ps).data \in Seq(Nat) /\ Len(Last(ps).data) <= Limit
    BY <1>2 DEF GoodPage, Block
  <1>4. Last(ps).nextCursor # Null => Len(Last(ps).data) = Limit
    BY <1>2 DEF GoodPage
  <1>5. Limit \in Nat /\ Len(Last(ps).data) \in Nat
    BY <1>3, LimitIsPositive
  <1>6. Len(Rows(ps)) = (Len(ps) - 1) * Limit + Len(Last(ps).data) /\ Rows(ps) \in Seq(Nat)
    BY ChainRows DEF Filled, Block
  <1>7. (Len(ps) - 1) * Limit + Limit = Len(ps) * Limit /\ (Len(ps) - 1) * Limit \in Nat
    BY <1>1, <1>5
  <1> DEFINE before == (Len(ps) - 1) * Limit
             all == Len(ps) * Limit
             last == Len(Last(ps).data)
             len == Len(Rows(ps))
  <1>8. /\ before \in Nat /\ last \in Nat /\ Limit \in Nat /\ last <= Limit
        /\ before + Limit = all /\ len = before + last
        /\ Last(ps).nextCursor # Null => last = Limit
    BY <1>3, <1>4, <1>5, <1>6, <1>7
  <1> HIDE DEF before, all, last, len
  <1>9. len \in Nat /\ len <= all /\ (Last(ps).nextCursor # Null => len = all)
    BY <1>8
  <1> QED BY <1>1, <1>9 DEF len, all

LEMMA TimesGrows == \A a, b, c \in Nat : a <= b => a * c <= b * c
  <1>. SUFFICES ASSUME NEW a \in Nat, NEW b \in Nat, NEW c \in Nat, a <= b
                PROVE  a * c <= b * c
    OBVIOUS
  <1>1. PICK d \in Nat : b = a + d
    <2>1. b - a \in Nat /\ b = a + (b - a)
      OBVIOUS
    <2> QED BY <2>1
  <1>2. b * c = a * c + d * c
    BY <1>1
  <1>3. d * c \in Nat /\ a * c \in Nat
    OBVIOUS
  <1> QED BY <1>2, <1>3

\* A refresh that starts no later and reads on to the end, or reads as many
\* pages, has as many rows.
LEMMA RefreshIsAsLong ==
    ASSUME NEW M \in SUBSET Nat, NEW ps, NEW qs, Chain(ps, M), Chain(qs, M),
           Head(Rows(ps)) <= Head(Rows(qs)),
           Len(ps) <= Len(qs) \/ Last(qs).nextCursor = Null
    PROVE  Len(Rows(ps)) <= Len(Rows(qs))
  <1>1. /\ Len(ps) \in Nat /\ Len(qs) \in Nat /\ Limit \in Nat
        /\ Len(Rows(ps)) \in Nat /\ Len(Rows(qs)) \in Nat
    BY ChainLength, LimitIsPositive
  <1>2. CASE Last(qs).nextCursor # Null
    <2>1. Len(qs) * Limit = Len(Rows(qs)) /\ Len(Rows(ps)) <= Len(ps) * Limit
      BY <1>2, ChainLength
    <2>2. Len(ps) * Limit <= Len(qs) * Limit
      BY <1>1, <1>2, TimesGrows
    <2>3. Len(ps) * Limit \in Nat /\ Len(qs) * Limit \in Nat
      BY <1>1
    <2> QED BY <1>1, <2>1, <2>2, <2>3
  <1>3. CASE Last(qs).nextCursor = Null
    <2> DEFINE s == Rows(ps)
               t == Rows(qs)
    <2>1. Block(s, M) /\ Block(t, M) /\ Last(t) = Last(Last(qs).data)
      BY ChainRows
    <2>2. qs # <<>> /\ GoodPage(Last(qs), M)
      BY DEF Chain, Last
    <2>3. Last(t) \in M /\ Last(t) \in Nat
      BY <2>1, BlockEnds
    <2>4. \A id \in M : Last(t) <= id
      <3>1. Last(qs).nextCursor = Last(Last(qs).data) => Last(t) = 0
        BY <1>3, <2>1 DEF Null
      <3>2. Last(t) = 0 => \A id \in M : Last(t) <= id
        OBVIOUS
      <3> QED BY <1>3, <2>1, <2>2, <3>1, <3>2 DEF GoodPage
    <2> HIDE DEF s, t
    <2>5. /\ s \in Seq(Nat) /\ Desc(s) /\ Lists(s, {id \in M : Last(s) <= id /\ id <= Head(s)})
          /\ t \in Seq(Nat) /\ Desc(t) /\ Lists(t, {id \in M : Last(t) <= id /\ id <= Head(t)})
      BY <2>1 DEF Block
    <2>6. Head(s) <= Head(t) /\ Head(s) \in Nat /\ Head(t) \in Nat
      BY <2>1, BlockEnds DEF s, t
    <2>7. Within(s, t)
      <3> SUFFICES ASSUME NEW i \in 1..Len(s) PROVE \E j \in 1..Len(t) : t[j] = s[i]
        BY DEF Within
      <3>1. s[i] \in M /\ s[i] <= Head(s)
        BY <2>5 DEF Lists
      <3>2. s[i] \in Nat /\ Last(t) <= s[i] /\ s[i] <= Head(t)
        <4>1. s[i] \in Nat
          BY <3>1
        <4> QED BY <2>4, <2>6, <3>1, <4>1
      <3> QED BY <2>5, <3>1, <3>2 DEF Lists
    <2>8. Len(s) <= Len(t)
      BY <2>5, <2>7, NotShorter
    <2> QED BY <2>8 DEF s, t
  <1> QED BY <1>2, <1>3

\* A refresh or a further page never takes the history back: it starts no
\* earlier and has no fewer rows.
THEOREM HistoryNeverGoesBack == Spec => NeverGoesBack
  <1> DEFINE Onward == /\ Len(Shown') >= Len(Shown)
                       /\ Shown # <<>> => Head(Shown') >= Head(Shown)
  <1>1. HistoryInv /\ [Next]_vars => [pages' # pages /\ pages' # <<>> => Onward]_vars
    <2>1. SUFFICES ASSUME HistoryInv, [Next]_vars, pages' # pages, pages' # <<>>
                   PROVE  Onward
      OBVIOUS
    <2>2. Types /\ Loaded
      BY <2>1 DEF HistoryInv
    <2>3. mine \in SUBSET Nat /\ pages \in Seq(Pages)
      BY <2>2, TypeFacts
    <2>4. Shown = Rows(pages) /\ Shown' = Rows(pages')
      BY DEF Shown, Rows
    <2>5. \/ flight.kind = "more" /\ Chain(pages', mine) /\ Held(pages) /\ HasNextPage
             /\ pages' = pages \o flight.answer /\ Len(flight.answer) = 1
          \/ flight.kind = "refresh" /\ Complete(Asked) /\ pages' = Asked /\ Held(Asked)
      BY <2>1, LoadedBy
    <2>6. CASE Shown = <<>>
      <3>1. Held(pages')
        BY <2>1, <2>5, LoadedBy DEF Held
      <3>2. Rows(pages') = <<>> \/ Len(Rows(pages')) \in Nat
        <4>1. Held(pages') => pages' = <<NoRows>> \/ Chain(pages', mine)
          BY <2>1, LoadedBy DEF Held
        <4> QED BY <2>3, <3>1, <4>1, RowsOfNone, ChainLength
      <3>3. Len(<<>>) = 0 /\ 0 \in Nat
        OBVIOUS
      <3>4. Len(Shown') >= 0
        BY <2>4, <3>2, <3>3
      <3> QED BY <2>6, <3>3, <3>4
    <2>7. CASE Shown # <<>>
      <3>1. /\ Chain(pages, mine) /\ Head(Shown) = Head(pages[1].data)
            /\ Block(Shown, mine) /\ Block(pages[1].data, mine)
        BY <2>2, <2>7, ShownIs DEF Chain, GoodPage
      <3>2. Head(Shown) \in Nat /\ Head(Shown) \in mine
        BY <2>3, <3>1, BlockEnds
      <3>3. CASE flight.kind = "more"
        <4>1. /\ Chain(pages', mine) /\ HasNextPage
              /\ pages' = pages \o flight.answer /\ Len(flight.answer) = 1
          BY <2>5, <3>3
        <4>2. flight.answer \in Seq(Pages)
          BY <2>2, TypeFacts
        <4>3. pages # <<>> /\ Len(pages) \in Nat
          BY <2>3, <3>1 DEF Chain
        <4>4. pages'[1] = pages[1] /\ Len(pages') = Len(pages) + 1
          <5>1. Len(pages) > 0
            BY <2>3, <4>3
          <5>2. Len(pages \o flight.answer) = Len(pages) + Len(flight.answer)
            BY <2>3, <4>2
          <5>3. (pages \o flight.answer)[1] = pages[1]
            BY <2>3, <4>1, <4>2, <5>1
          <5> QED BY <4>1, <5>2, <5>3
        <4>5. Head(Shown') = Head(Shown)
          BY <2>3, <2>4, <3>1, <4>1, <4>4, ChainRows
        <4>6. Last(pages).nextCursor # Null
          BY <4>1 DEF HasNextPage
        <4> DEFINE n == Len(pages)
                   full == n * Limit
                   q == Last(pages')
        <4>7. Len(Shown) = full
          BY <2>3, <2>4, <3>1, <4>6, ChainLength
        <4>8. Len(Shown') = Filled(q, n + 1)
          BY <2>3, <2>4, <4>1, <4>4, ChainRows
        <4>9. Len(q.data) \in Nat
          <5>1. GoodPage(q, mine)
            <6>1. q = pages'[Len(pages')] /\ Len(pages') \in 1..Len(pages')
              BY <4>3, <4>4 DEF Last
            <6> QED BY <4>1, <6>1 DEF Chain
          <5> QED BY <5>1 DEF GoodPage, Block
        <4>10. (n + 1) - 1 = n /\ full \in Nat
          BY <4>3, LimitIsPositive
        <4> HIDE DEF n, q
        <4>11. Len(Shown') = full + Len(q.data)
          BY <4>8, <4>10 DEF Filled
        <4> HIDE DEF full
        <4>12. Len(Shown') >= Len(Shown)
          BY <4>7, <4>9, <4>10, <4>11
        <4> QED BY <3>2, <4>5, <4>12
      <3>4. CASE flight.kind = "refresh"
        <4>1. Complete(Asked) /\ pages' = Asked
          BY <2>5, <3>4
        <4>2. Head(Shown) \in Known
          BY <3>1, <3>2 DEF Known, Chain, Block
        <4>3. Chain(pages', mine) /\ Head(Shown') >= Head(Shown)
          BY <2>1, <3>4, <4>2, RefreshIsAhead
        <4>4. Block(Shown', mine)
          BY <2>3, <2>4, <4>3, ChainRows
        <4>5. Head(Shown') \in Nat
          BY <2>3, <4>4, BlockEnds
        <4>6. Head(Rows(pages)) <= Head(Rows(pages'))
          BY <2>4, <3>2, <4>3, <4>5
        <4>7. Len(pages) <= Len(pages') \/ Last(pages').nextCursor = Null
          BY <3>4, <4>1, <4>3 DEF Complete, Chain
        <4>8. Len(Rows(pages)) <= Len(Rows(pages'))
          BY <2>3, <3>1, <4>3, <4>6, <4>7, RefreshIsAsLong
        <4>9. Len(Rows(pages)) \in Nat /\ Len(Rows(pages')) \in Nat
          BY <2>3, <3>1, <4>3, ChainLength
        <4> QED BY <2>4, <4>3, <4>8, <4>9
      <3> QED BY <2>5, <3>3, <3>4
    <2> QED BY <2>6, <2>7
  <1> QED BY <1>1, HistoryIsAChain, PTL DEF Spec, NeverGoesBack

=============================================================================
