------------------------- MODULE TriageBoardProofs -------------------------
(***************************************************************************)
(* Proofs about TriageBoard, for every finite set of bricks, all nanobars,  *)
(* columns and bindings, and any number of drops.  NoneLost finds each      *)
(* card's brick in some column, whatever index was used; Synced compares    *)
(* the three copies of the board, but for the cards of those columns in     *)
(* which moves overlapped.                                                  *)
(***************************************************************************)
EXTENDS TriageBoard, TLAPS, SequenceTheorems, FiniteSetTheorems

-----------------------------------------------------------------------------
(* Sequences without repetition.                                             *)

\* The elements of a finite set can be listed, each once.
LEMMA SetListed ==
    ASSUME NEW S, IsFiniteSet(S)
    PROVE  /\ SetToSeq(S) \in [1..Cardinality(S) -> S]
           /\ IsInjective(SetToSeq(S))
<1>1. \E f \in [1..Cardinality(S) -> S] : IsInjective(f)
  BY FS_CardinalityType DEF ExistsBijection, Bijection, Injection
<1>2. QED
  BY <1>1 DEF SetToSeq

\* New elements are appended to a list that has none of them.
LEMMA ListedTogether ==
    ASSUME NEW S, NEW s \in Seq(S), NEW t \in Seq(S), IsInjective(s), IsInjective(t),
           \A i \in 1..Len(s), j \in 1..Len(t) : s[i] # t[j]
    PROVE  s \o t \in Seq(S) /\ IsInjective(s \o t)
<1>1. Len(s) \in Nat /\ Len(t) \in Nat /\ DOMAIN s = 1..Len(s) /\ DOMAIN t = 1..Len(t)
  BY LenProperties
<1>2. /\ s \o t \in Seq(S)
      /\ Len(s \o t) = Len(s) + Len(t)
      /\ \A i \in 1..Len(s) + Len(t) :
            (s \o t)[i] = IF i <= Len(s) THEN s[i] ELSE t[i - Len(s)]
  BY ConcatProperties
<1>3. DOMAIN (s \o t) = 1..Len(s) + Len(t)
  BY <1>2, LenProperties
<1>4. ASSUME NEW i \in 1..Len(s) + Len(t), NEW j \in 1..Len(s) + Len(t),
             (s \o t)[i] = (s \o t)[j]
      PROVE  i = j
  <2>1. CASE i <= Len(s) /\ j <= Len(s)
    BY <1>1, <1>2, <1>4, <2>1 DEF IsInjective
  <2>2. CASE i <= Len(s) /\ ~(j <= Len(s))
    <3>1. i \in 1..Len(s) /\ j - Len(s) \in 1..Len(t)
      BY <1>1, <2>2
    <3>2. QED
      BY <1>2, <1>4, <2>2, <3>1
  <2>3. CASE ~(i <= Len(s)) /\ j <= Len(s)
    <3>1. j \in 1..Len(s) /\ i - Len(s) \in 1..Len(t)
      BY <1>1, <2>3
    <3>2. QED
      BY <1>2, <1>4, <2>3, <3>1
  <2>4. CASE ~(i <= Len(s)) /\ ~(j <= Len(s))
    <3>1. i - Len(s) \in 1..Len(t) /\ j - Len(s) \in 1..Len(t)
      BY <1>1, <2>4
    <3>2. i - Len(s) = j - Len(s)
      BY <1>1, <1>2, <1>4, <2>4, <3>1 DEF IsInjective
    <3>3. QED
      BY <1>1, <3>2
  <2>5. QED
    BY <2>1, <2>2, <2>3, <2>4
<1>5. QED
  BY <1>2, <1>3, <1>4 DEF IsInjective

\* What follows the removed element moves up by one.
LEMMA Removed ==
    ASSUME NEW S, NEW s \in Seq(S), NEW i \in 1..Len(s)
    PROVE  /\ RemoveAt(s, i) \in Seq(S)
           /\ Len(RemoveAt(s, i)) = Len(s) - 1
           /\ \A j \in 1..Len(s) - 1 : RemoveAt(s, i)[j] = IF j < i THEN s[j] ELSE s[j + 1]
<1> DEFINE before == SubSeq(s, 1, i - 1)
           after == SubSeq(s, i + 1, Len(s))
<1>1. Len(s) \in Nat /\ i \in Nat /\ 1 <= i /\ i <= Len(s)
  BY LenProperties
<1>2. \A j \in 1..Len(s) : s[j] \in S
  BY ElementOfSeq
<1>3. /\ before \in Seq(S) /\ Len(before) = i - 1
      /\ \A j \in 1..i - 1 : before[j] = s[j]
  <2>1. \A j \in 1..i - 1 : s[j] \in S
    BY <1>1, <1>2
  <2>2. /\ before \in Seq(S) /\ Len(before) = (IF 1 <= i - 1 THEN i - 1 - 1 + 1 ELSE 0)
        /\ \A j \in 1..i - 1 - 1 + 1 : before[j] = s[1 + j - 1]
    BY <1>1, <2>1, SubSeqProperties
  <2>3. QED
    BY <1>1, <2>2
<1>4. /\ after \in Seq(S) /\ Len(after) = Len(s) - i
      /\ \A j \in 1..Len(s) - i : after[j] = s[i + j]
  <2>1. \A j \in i + 1..Len(s) : s[j] \in S
    BY <1>1, <1>2
  <2>2. /\ after \in Seq(S)
        /\ Len(after) = (IF i + 1 <= Len(s) THEN Len(s) - (i + 1) + 1 ELSE 0)
        /\ \A j \in 1..Len(s) - (i + 1) + 1 : after[j] = s[i + 1 + j - 1]
    BY <1>1, <2>1, SubSeqProperties
  <2>3. QED
    BY <1>1, <2>2
<1> HIDE DEF before, after
<1>5. /\ before \o after \in Seq(S)
      /\ Len(before \o after) = Len(before) + Len(after)
      /\ \A j \in 1..Len(before) + Len(after) :
            (before \o after)[j] = IF j <= Len(before) THEN before[j] ELSE after[j - Len(before)]
  BY <1>3, <1>4, ConcatProperties
<1>6. ASSUME NEW j \in 1..Len(s) - 1
      PROVE  (before \o after)[j] = IF j < i THEN s[j] ELSE s[j + 1]
  <2>1. j \in 1..Len(before) + Len(after)
    BY <1>1, <1>3, <1>4, <1>6
  <2>2. CASE j < i
    BY <1>1, <1>3, <1>5, <2>1, <2>2
  <2>3. CASE ~(j < i)
    <3>1. j - (i - 1) \in 1..Len(s) - i /\ i + (j - (i - 1)) = j + 1
      BY <1>1, <1>6, <2>3
    <3>2. (before \o after)[j] = after[j - (i - 1)]
      BY <1>1, <1>3, <1>5, <2>1, <2>3
    <3>3. after[j - (i - 1)] = s[i + (j - (i - 1))]
      BY <1>4, <3>1
    <3>4. QED
      BY <2>3, <3>1, <3>2, <3>3
  <2>4. QED
    BY <2>2, <2>3
<1>7. RemoveAt(s, i) = before \o after
  BY DEF RemoveAt, before, after
<1>8. Len(before \o after) = Len(s) - 1
  BY <1>1, <1>3, <1>4, <1>5
<1>9. QED
  BY <1>5, <1>6, <1>7, <1>8

-----------------------------------------------------------------------------
(* Columns.                                                                  *)

Place(S, i) == Cardinality({j \in S : j <= i})
Nth(S, k) == CHOOSE i \in S : Place(S, i) = k

\* Of n places in a sequence, each has a position of its own between 1 and n.
LEMMA PlacesRanked ==
    ASSUME NEW n \in Nat, NEW S \in SUBSET (1..n)
    PROVE  /\ Cardinality(S) \in Nat
           /\ \A i \in S : Place(S, i) \in 1..Cardinality(S)
           /\ \A i, j \in S : Place(S, i) = Place(S, j) => i = j
           /\ \A k \in 1..Cardinality(S) : Nth(S, k) \in S /\ Place(S, Nth(S, k)) = k
<1>1. IsFiniteSet(S) /\ Cardinality(S) \in Nat
  <2>1. IsFiniteSet(1..n)
    BY FS_Interval
  <2>2. QED
    BY <2>1, FS_Subset, FS_CardinalityType
<1> DEFINE Upto(i) == {j \in S : j <= i}
<1>2. ASSUME NEW i \in S
      PROVE  /\ IsFiniteSet(Upto(i)) /\ Cardinality(Upto(i)) \in 1..Cardinality(S)
  <2>1. Upto(i) \in SUBSET S /\ i \in Upto(i)
    OBVIOUS
  <2>2. /\ IsFiniteSet(Upto(i)) /\ Cardinality(Upto(i)) <= Cardinality(S)
        /\ Cardinality(Upto(i)) \in Nat /\ Cardinality(Upto(i)) # 0
    BY <1>1, <2>1, FS_Subset, FS_CardinalityType, FS_EmptySet
  <2> HIDE DEF Upto
  <2>3. QED
    BY <1>1, <2>2
<1>3. ASSUME NEW i \in S, NEW j \in S, i < j
      PROVE  Cardinality(Upto(i)) # Cardinality(Upto(j))
  <2>1. Upto(i) \in SUBSET Upto(j) /\ j \in Upto(j) /\ j \notin Upto(i)
    <3>1. \A k \in S : k \in Nat
      OBVIOUS
    <3>2. \A k \in S : k <= i => k <= j
      BY <1>3, <3>1
    <3>3. j <= j /\ ~(j <= i)
      BY <1>3, <3>1
    <3>4. QED
      BY <3>2, <3>3
  <2>2. Cardinality(Upto(j)) = Cardinality(Upto(i)) => Upto(j) = Upto(i)
    BY <1>2, <2>1, FS_Subset
  <2>3. QED
    BY <2>1, <2>2
<1>4. \A i \in S : Place(S, i) = Cardinality(Upto(i))
  BY DEF Place
<1> HIDE DEF Upto
<1>5. \A i \in S : Place(S, i) \in 1..Cardinality(S)
  BY <1>2, <1>4
<1>6. ASSUME NEW i \in S, NEW j \in S, Place(S, i) = Place(S, j)
      PROVE  i = j
  <2>1. ~(i < j) /\ ~(j < i)
    BY <1>3, <1>4, <1>6
  <2>2. QED
    BY <2>1
<1> DEFINE N == 1..Cardinality(S)
           place == [i \in S |-> Place(S, i)]
<1>7. IsFiniteSet(N) /\ Cardinality(N) = Cardinality(S)
  BY <1>1, FS_Interval
<1>8. place \in Injection(S, N)
  BY <1>5, <1>6 DEF Injection, IsInjective
<1>9. place \in Surjection(S, N)
  BY <1>7, <1>8, FS_Injection
<1>10. \A k \in N : \E i \in S : Place(S, i) = k
  BY <1>9 DEF Surjection
<1>11. \A k \in N : Nth(S, k) \in S /\ Place(S, Nth(S, k)) = k
  BY <1>10 DEF Nth
<1>12. QED
  BY <1>1, <1>5, <1>6, <1>11

\* A column lists the bricks that belong there, each once.
LEMMA ColumnListed ==
    ASSUME NEW bricks \in Seq(Bricks), IsInjective(bricks), NEW c
    PROVE  /\ OfColumn(bricks, c) \in Seq(Bricks)
           /\ IsInjective(OfColumn(bricks, c))
           /\ \A i \in DOMAIN OfColumn(bricks, c) : InColumn(OfColumn(bricks, c)[i], c)
           /\ \A b \in ToSet(bricks) : InColumn(b, c)
                 => \E i \in DOMAIN OfColumn(bricks, c) : OfColumn(bricks, c)[i] = b
<1> DEFINE S == {i \in DOMAIN bricks : InColumn(bricks[i], c)}
           n == Cardinality(S)
           col == [k \in 1..n |-> bricks[Nth(S, k)]]
<1>1. OfColumn(bricks, c) = col
  BY DEF OfColumn, Nth, Place
<1>2. Len(bricks) \in Nat /\ DOMAIN bricks = 1..Len(bricks)
  BY LenProperties
<1>3. S \in SUBSET (1..Len(bricks))
  BY <1>2
<1>4. \A i \in S : i \in DOMAIN bricks /\ bricks[i] \in Bricks /\ InColumn(bricks[i], c)
  BY <1>2, ElementOfSeq
<1>5. \A b \in ToSet(bricks) : InColumn(b, c) => \E i \in S : bricks[i] = b
  BY DEF ToSet
<1> HIDE DEF S
<1>6. /\ n \in Nat
      /\ \A i \in S : Place(S, i) \in 1..n
      /\ \A i, j \in S : Place(S, i) = Place(S, j) => i = j
      /\ \A k \in 1..n : Nth(S, k) \in S /\ Place(S, Nth(S, k)) = k
  BY <1>2, <1>3, PlacesRanked
<1> HIDE DEF n
<1>7. col \in [1..n -> Bricks] /\ DOMAIN col = 1..n
  BY <1>4, <1>6
<1>8. col \in Seq(Bricks)
  BY <1>6, <1>7, SeqDef
<1>9. ASSUME NEW k \in 1..n, NEW l \in 1..n, col[k] = col[l]
      PROVE  k = l
  <2>1. Nth(S, k) = Nth(S, l)
    BY <1>4, <1>6, <1>9 DEF IsInjective
  <2>2. QED
    BY <1>6, <2>1
<1>10. \A k \in 1..n : InColumn(col[k], c)
  BY <1>4, <1>6
<1>11. \A i \in S : col[Place(S, i)] = bricks[i] /\ Place(S, i) \in DOMAIN col
  BY <1>6, <1>7
<1>12. \A b \in ToSet(bricks) : InColumn(b, c) => \E k \in DOMAIN col : col[k] = b
  BY <1>5, <1>11
<1> HIDE DEF col
<1>13. IsInjective(col) /\ \A k \in DOMAIN col : InColumn(col[k], c)
  BY <1>7, <1>9, <1>10 DEF IsInjective
<1>14. QED
  BY <1>1, <1>8, <1>12, <1>13

-----------------------------------------------------------------------------
(* The board.                                                                *)

\* Nothing is on the board twice.
NothingTwice(B) ==
    \A c, d \in Columns : \A i \in DOMAIN B[c], j \in DOMAIN B[d] :
        B[c][i] = B[d][j] => c = d /\ i = j

IsBoard(B) == B \in [Columns -> Seq(Bricks)] /\ NothingTwice(B)

OnBoard(B, c, b) == \E i \in DOMAIN B[c] : B[c][i] = b

\* The board as it is rendered has each brick of the map in its column, and there its card.
LEMMA Rendered ==
    ASSUME NEW bricks \in Seq(Bricks), IsInjective(bricks), RenderBoard(bricks)
    PROVE  /\ IsBoard(board')
           /\ card' \in [Bricks -> Columns \cup {None}]
           /\ \A b \in Bricks : card'[b] # None => /\ InColumn(b, card'[b])
                                                   /\ OnBoard(board', card'[b], b)
<1>1. board' = [c \in Columns |-> OfColumn(bricks, c)]
  BY DEF RenderBoard
<1>2. \A c, d \in Columns, b \in Bricks : InColumn(b, c) /\ InColumn(b, d) => c = d
  BY DEF InColumn
<1>3. \A b \in Bricks : \E c \in Columns : InColumn(b, c)
  BY TriageBoardAssumption DEF InColumn
<1>4. \A c \in Columns :
         /\ board'[c] \in Seq(Bricks) /\ IsInjective(board'[c])
         /\ \A i \in DOMAIN board'[c] : InColumn(board'[c][i], c)
         /\ \A b \in ToSet(bricks) :
               InColumn(b, c) => \E i \in DOMAIN board'[c] : board'[c][i] = b
  BY <1>1, ColumnListed
<1>5. NothingTwice(board')
  <2> SUFFICES ASSUME NEW c \in Columns, NEW d \in Columns,
                      NEW i \in DOMAIN board'[c], NEW j \in DOMAIN board'[d],
                      board'[c][i] = board'[d][j]
               PROVE  c = d /\ i = j
    BY DEF NothingTwice
  <2>1. board'[c][i] \in Bricks
    BY <1>4, LenProperties, ElementOfSeq
  <2>2. c = d
    BY <1>2, <1>4, <2>1
  <2>3. QED
    BY <1>4, <2>2 DEF IsInjective
<1>6. board' \in [Columns -> Seq(Bricks)]
  BY <1>1, <1>4
<1> DEFINE column(b) == CHOOSE c \in Columns : InColumn(b, c)
<1>7. \A b \in Bricks : column(b) \in Columns /\ InColumn(b, column(b))
  BY <1>3
<1>8. card' = [b \in Bricks |-> IF b \in ToSet(bricks) THEN column(b) ELSE None]
  BY DEF RenderBoard
<1> HIDE DEF column
<1>9. card' \in [Bricks -> Columns \cup {None}]
  BY <1>7, <1>8
<1>10. ASSUME NEW b \in Bricks, card'[b] # None
       PROVE  InColumn(b, card'[b]) /\ OnBoard(board', card'[b], b)
  <2>1. b \in ToSet(bricks) /\ card'[b] = column(b)
    BY <1>8, <1>10
  <2>2. QED
    BY <1>4, <1>7, <2>1 DEF OnBoard
<1>11. QED
  BY <1>5, <1>6, <1>9, <1>10 DEF IsBoard

\* The change that the answer to a move makes to the board.
Shifts(from, to, idx) ==
    /\ idx \in DOMAIN board[from]
    /\ board' = [board EXCEPT ![from] = RemoveAt(board[from], idx),
                              ![to] = Append(board[to], board[from][idx])]

\* What it does to the board: the brick at the index goes to the end of
\* the other column, and every other one stays in its own.
LEMMA Moved ==
    ASSUME IsBoard(board), NEW from \in Columns, NEW to \in Columns, from # to,
           NEW idx, Shifts(from, to, idx)
    PROVE  /\ IsBoard(board')
           /\ OnBoard(board', to, board[from][idx])
           /\ \A c \in Columns, b \in Bricks :
                 OnBoard(board, c, b) /\ b # board[from][idx] => OnBoard(board', c, b)
           /\ \A c \in Columns \ {from} : \A j \in DOMAIN board[c] :
                 j \in DOMAIN board'[c] /\ board'[c][j] = board[c][j]
<1> USE DEF Shifts
<1> DEFINE B == board'
           x == board[from][idx]
           n == Len(board[from])
           o == Len(board[to])
<1>1. /\ board \in [Columns -> Seq(Bricks)]
      /\ \A c \in Columns : board[c] \in Seq(Bricks) /\ DOMAIN board[c] = 1..Len(board[c])
                            /\ Len(board[c]) \in Nat
  BY LenProperties DEF IsBoard
<1>2. n \in Nat /\ o \in Nat /\ idx \in 1..n /\ DOMAIN board[from] = 1..n
      /\ DOMAIN board[to] = 1..o
  BY <1>1
<1>3. x \in Bricks
  BY <1>1, <1>2, ElementOfSeq
<1>4. /\ B[from] = RemoveAt(board[from], idx) /\ B[to] = Append(board[to], x)
      /\ \A c \in Columns \ {from, to} : B[c] = board[c]
      /\ DOMAIN B = Columns /\ B \in [Columns -> {B[c] : c \in Columns}]
  BY <1>1
<1>5. /\ B[from] \in Seq(Bricks) /\ DOMAIN B[from] = 1..n - 1
      /\ \A j \in 1..n - 1 : B[from][j] = IF j < idx THEN board[from][j] ELSE board[from][j + 1]
  <2>1. /\ B[from] \in Seq(Bricks) /\ Len(B[from]) = n - 1
        /\ \A j \in 1..n - 1 : B[from][j] = IF j < idx THEN board[from][j]
                                                       ELSE board[from][j + 1]
    <3>1. board[from] \in Seq(Bricks) /\ idx \in 1..Len(board[from])
      BY <1>1
    <3>2. LET r == RemoveAt(board[from], idx)
          IN  /\ r \in Seq(Bricks) /\ Len(r) = n - 1
              /\ \A j \in 1..n - 1 : r[j] = IF j < idx THEN board[from][j]
                                                       ELSE board[from][j + 1]
      BY <3>1, Removed
    <3>3. QED
      BY <1>4, <3>2
  <2>2. QED
    BY <2>1, LenProperties
<1>6. /\ B[to] \in Seq(Bricks) /\ DOMAIN B[to] = 1..o + 1
      /\ \A j \in 1..o : B[to][j] = board[to][j]
      /\ B[to][o + 1] = x
  <2>1. /\ B[to] \in Seq(Bricks) /\ Len(B[to]) = o + 1
        /\ \A j \in 1..o : B[to][j] = board[to][j]
        /\ B[to][o + 1] = x
    BY <1>1, <1>3, <1>4, AppendProperties
  <2>2. QED
    BY <2>1, LenProperties
<1> HIDE DEF n, o, x, B
<1>7. B \in [Columns -> Seq(Bricks)]
  BY <1>1, <1>4, <1>5, <1>6
<1>8. OnBoard(B, to, x)
  BY <1>2, <1>6 DEF OnBoard
<1>9. ASSUME NEW c \in Columns \ {from}, NEW j \in DOMAIN board[c]
      PROVE  j \in DOMAIN B[c] /\ B[c][j] = board[c][j]
  <2>1. CASE c = to
    <3>1. j \in 1..o
      BY <1>2, <2>1
    <3>2. j \in 1..o + 1
      BY <1>2, <3>1
    <3>3. QED
      BY <1>6, <2>1, <3>1, <3>2
  <2>2. CASE c # to
    BY <1>4, <2>2
  <2>3. QED
    BY <2>1, <2>2
<1>10. ASSUME NEW j \in 1..n, j # idx
       PROVE  \E k \in DOMAIN B[from] : B[from][k] = board[from][j]
  <2>1. CASE j < idx
    BY <1>2, <1>5, <2>1
  <2>2. CASE ~(j < idx)
    <3>1. j - 1 \in 1..n - 1 /\ ~(j - 1 < idx) /\ j - 1 + 1 = j
      BY <1>2, <1>10, <2>2
    <3>2. B[from][j - 1] = board[from][j]
      BY <1>5, <3>1
    <3>3. QED
      BY <1>5, <3>1, <3>2
  <2>3. QED
    BY <2>1, <2>2
<1>11. ASSUME NEW c \in Columns, NEW b \in Bricks, OnBoard(board, c, b), b # x
       PROVE  OnBoard(B, c, b)
  <2>1. PICK j \in DOMAIN board[c] : board[c][j] = b
    BY <1>11 DEF OnBoard
  <2>2. CASE c = from
    <3>1. j \in 1..n /\ j # idx
      BY <1>2, <1>11, <2>1, <2>2 DEF x
    <3>2. QED
      BY <1>10, <2>1, <2>2, <3>1 DEF OnBoard
  <2>3. CASE c # from
    BY <1>9, <2>1, <2>3 DEF OnBoard
  <2>4. QED
    BY <2>2, <2>3
<1> DEFINE col(c, k) == IF c = to /\ k = o + 1 THEN from ELSE c
           pos(c, k) == IF c = from THEN (IF k < idx THEN k ELSE k + 1)
                        ELSE IF c = to /\ k = o + 1 THEN idx ELSE k
<1>12. ASSUME NEW c \in Columns, NEW k \in DOMAIN B[c]
       PROVE  /\ col(c, k) \in Columns /\ pos(c, k) \in DOMAIN board[col(c, k)]
              /\ B[c][k] = board[col(c, k)][pos(c, k)]
              /\ k \in Nat
  <2>1. CASE c = from
    <3>1. k \in 1..n - 1
      BY <1>5, <2>1, <1>12
    <3>2. pos(c, k) \in 1..n /\ col(c, k) = from /\ k \in Nat
      BY <1>2, <2>1, <3>1
    <3>3. B[c][k] = board[from][pos(c, k)]
      BY <1>5, <2>1, <3>1
    <3>4. QED
      BY <1>2, <3>2, <3>3
  <2>2. CASE c = to /\ k = o + 1
    BY <1>2, <1>6, <2>2 DEF x
  <2>3. CASE c = to /\ k # o + 1
    <3>1. k \in 1..o /\ k \in Nat
      BY <1>2, <1>6, <2>3
    <3>2. QED
      BY <1>2, <1>6, <2>3, <3>1
  <2>4. CASE c # from /\ c # to
    <3>1. B[c] = board[c] /\ k \in 1..Len(board[c]) /\ k \in Nat
      <4>1. B[c] = board[c]
        BY <1>4, <2>4
      <4>2. k \in DOMAIN board[c]
        BY <4>1
      <4>3. QED
        BY <1>1, <4>1, <4>2
    <3>2. QED
      BY <1>1, <2>4, <3>1
  <2>5. QED
    BY <2>1, <2>2, <2>3, <2>4
<1>13. ASSUME NEW c \in Columns, NEW d \in Columns, NEW k \in Nat, NEW l \in Nat,
              col(c, k) = col(d, l), pos(c, k) = pos(d, l)
       PROVE  c = d /\ k = l
  <2>1. idx \in Nat /\ o \in Nat
    BY <1>2
  <2>2. QED
    BY <1>13, <2>1
<1> HIDE DEF col, pos
<1>14. NothingTwice(B)
  <2> SUFFICES ASSUME NEW c \in Columns, NEW d \in Columns,
                      NEW i \in DOMAIN B[c], NEW j \in DOMAIN B[d], B[c][i] = B[d][j]
               PROVE  c = d /\ i = j
    BY DEF NothingTwice
  <2>1. /\ col(c, i) \in Columns /\ pos(c, i) \in DOMAIN board[col(c, i)]
        /\ B[c][i] = board[col(c, i)][pos(c, i)] /\ i \in Nat
    BY <1>12
  <2>2. /\ col(d, j) \in Columns /\ pos(d, j) \in DOMAIN board[col(d, j)]
        /\ B[d][j] = board[col(d, j)][pos(d, j)] /\ j \in Nat
    BY <1>12
  <2>3. board[col(c, i)][pos(c, i)] = board[col(d, j)][pos(d, j)]
    BY <2>1, <2>2
  <2>4. NothingTwice(board)
    BY DEF IsBoard
  <2>5. col(c, i) = col(d, j) /\ pos(c, i) = pos(d, j)
    BY <2>1, <2>2, <2>3, <2>4 DEF NothingTwice
  <2>6. QED
    BY <1>13, <2>1, <2>2, <2>5
<1>15. QED
  BY <1>7, <1>8, <1>9, <1>11, <1>14 DEF IsBoard, B, x

-----------------------------------------------------------------------------
(* The types, and that nothing is lost.                                      *)

Moves == [id : Nat, brick : Bricks, from : Columns, to : Columns, idx : Nat,
          at : {"sent", "handled"}]

\* Until the board is shown there is nothing on it to be moved.
TypeInv ==
    /\ review \in [Bricks -> Columns \cup {None}]
    /\ fetching \subseteq Nanobars
    /\ fetching # {} => status = "loading"
    /\ found \in Seq(Bricks) /\ IsInjective(found)
    /\ IsBoard(board)
    /\ card \in [Bricks -> Columns \cup {None}]
    /\ moves \subseteq Moves /\ \A m \in moves : m.from # m.to
    /\ drops \in Nat
    /\ status # "shown" => moves = {} /\ Cards = {} /\ pending = {} /\ errors = {}

\* Each card's brick is somewhere on the board.
NoneLost == \A b \in Cards : \E c \in Columns : OnBoard(board, c, b)

\* An index is one of the column, and there is one for each brick of it.
LEMMA Indexed ==
    ASSUME IsBoard(board), NEW c \in Columns, NEW b, OnBoard(board, c, b)
    PROVE  /\ IndexOf(b, c) \in DOMAIN board[c] /\ IndexOf(b, c) \in Nat
           /\ board[c][IndexOf(b, c)] = b
<1>1. board[c] \in Seq(Bricks) /\ DOMAIN board[c] = 1..Len(board[c]) /\ Len(board[c]) \in Nat
  BY LenProperties DEF IsBoard
<1>2. PICK i \in DOMAIN board[c] : board[c][i] = b
  BY DEF OnBoard
<1>3. \A j \in DOMAIN board[c] : board[c][j] = b => i <= j
  BY <1>1, <1>2 DEF IsBoard, NothingTwice
<1>4. \E k \in DOMAIN board[c] : /\ board[c][k] = b
                                 /\ \A j \in DOMAIN board[c] : board[c][j] = b => k <= j
  BY <1>2, <1>3
<1>5. IndexOf(b, c) \in DOMAIN board[c] /\ board[c][IndexOf(b, c)] = b
  BY <1>4 DEF IndexOf
<1>6. QED
  BY <1>1, <1>5

\* The answers to loadBoard() list each brick once.
LEMMA FoundListed ==
    ASSUME TypeInv, NEW n \in Nanobars, BricksAnswered(n)
    PROVE  found' \in Seq(Bricks) /\ IsInjective(found')
<1> DEFINE more == Bound[n] \ ToSet(found)
           s == SetToSeq(more)
<1>1. found \in Seq(Bricks) /\ IsInjective(found)
  BY DEF TypeInv
<1>2. found' = found \/ found' = found \o s
  BY DEF BricksAnswered
<1>3. IsFiniteSet(more) /\ more \subseteq Bricks
  BY TriageBoardAssumption, FS_Subset
<1> HIDE DEF more
<1>4. /\ Cardinality(more) \in Nat
      /\ s \in [1..Cardinality(more) -> more] /\ IsInjective(s)
  BY <1>3, SetListed, FS_CardinalityType
<1> HIDE DEF s
<1>5. s \in Seq(more)
  BY <1>4, SeqDef
<1>6. s \in Seq(Bricks)
  BY <1>3, <1>5, SeqMonotonic
<1>7. \A i \in 1..Len(found), j \in 1..Len(s) : found[i] # s[j]
  <2>1. \A j \in 1..Len(s) : s[j] \in more
    BY <1>5, ElementOfSeq
  <2>2. \A i \in 1..Len(found) : found[i] \in ToSet(found)
    BY <1>1, LenProperties DEF ToSet
  <2>3. QED
    BY <2>1, <2>2 DEF more
<1>8. QED
  BY <1>1, <1>2, <1>4, <1>6, <1>7, ListedTogether

\* After the board is rendered.
LEMMA RenderedWell ==
    ASSUME TypeInv, status = "loading", fetching' = {}, found' \in Seq(Bricks),
           IsInjective(found'), RenderBoard(found'),
           UNCHANGED <<review, pending, errors, moves, drops>>
    PROVE  TypeInv' /\ NoneLost'
<1>1. /\ IsBoard(board')
      /\ card' \in [Bricks -> Columns \cup {None}]
      /\ \A b \in Bricks : card'[b] # None => OnBoard(board', card'[b], b)
  BY Rendered
<1>2. status' = "shown"
  BY DEF RenderBoard
<1>3. TypeInv'
  BY <1>1, <1>2 DEF TypeInv
<1>4. NoneLost'
  BY <1>1 DEF NoneLost, Cards
<1>5. QED
  BY <1>3, <1>4

\* Every step keeps each brick in exactly one list.
LEMMA BoardStep == TypeInv /\ NoneLost /\ [Next]_vars => TypeInv' /\ NoneLost'
<1> SUFFICES ASSUME TypeInv, NoneLost, [Next]_vars
             PROVE  TypeInv' /\ NoneLost'
  OBVIOUS
<1>1. CASE UNCHANGED vars \/ Rest
  BY <1>1 DEF Rest, vars, load, dom, TypeInv, NoneLost, Cards
<1>2. CASE NanobarsAnswered
  <2>1. /\ status = "loading" /\ found = <<>>
        /\ UNCHANGED <<review, found, pending, errors, moves, drops>>
    BY <1>2 DEF NanobarsAnswered
  <2>2. CASE fetching' = {} /\ RenderBoard(found)
    BY <2>1, <2>2, RenderedWell DEF TypeInv
  <2>3. CASE /\ fetching' = Nanobars /\ Nanobars # {}
             /\ UNCHANGED <<status, board, card>>
    BY <2>1, <2>3 DEF TypeInv, NoneLost, Cards
  <2>4. CASE /\ status' = "unreached"
             /\ UNCHANGED <<fetching, board, card>> /\ fetching = {}
    BY <2>1, <2>4 DEF TypeInv, NoneLost, Cards
  <2>5. QED
    BY <1>2, <2>2, <2>3, <2>4 DEF NanobarsAnswered
<1>3. CASE NanobarsRefused \/ NanobarsLost
  BY <1>3 DEF NanobarsRefused, NanobarsLost, dom, TypeInv, NoneLost, Cards
<1>4. ASSUME NEW n \in Nanobars, BricksAnswered(n)
      PROVE  TypeInv' /\ NoneLost'
  <2>1. /\ fetching' = fetching \ {n} /\ fetching # {}
        /\ UNCHANGED <<review, pending, errors, moves, drops>>
    BY <1>4 DEF BricksAnswered
  <2>2. found' \in Seq(Bricks) /\ IsInjective(found')
    BY <1>4, FoundListed
  <2>3. CASE fetching = {n} /\ RenderBoard(found')
    BY <2>1, <2>2, <2>3, RenderedWell DEF TypeInv
  <2>4. CASE UNCHANGED <<status, board, card>>
    BY <2>1, <2>2, <2>4 DEF TypeInv, NoneLost, Cards
  <2>5. QED
    BY <1>4, <2>3, <2>4 DEF BricksAnswered
<1>5. ASSUME NEW b \in Bricks, NEW c \in Columns, Drop(b, c)
      PROVE  TypeInv' /\ NoneLost'
  <2>1. /\ status = "shown" /\ drops' = drops + 1 /\ drops \in Nat
        /\ UNCHANGED <<review, status, fetching, found, board, card>>
    BY <1>5 DEF Drop, load, TypeInv
  <2>2. CASE UNCHANGED moves
    BY <2>1, <2>2 DEF TypeInv, NoneLost, Cards
  <2>3. CASE /\ built[b] \in Located(b) /\ c # built[b]
             /\ moves' = moves \cup {[id |-> drops + 1, brick |-> b, from |-> built[b],
                                      to |-> c, idx |-> IndexOf(b, built[b]), at |-> "sent"]}
    <3>1. built[b] \in Columns /\ OnBoard(board, built[b], b)
      BY <2>3 DEF Located, OnBoard
    <3>2. IndexOf(b, built[b]) \in Nat
      BY <3>1, Indexed DEF TypeInv
    <3>3. drops + 1 \in Nat
      BY <2>1
    <3>4. moves' \subseteq Moves /\ \A m \in moves' : m.from # m.to
      BY <2>3, <3>1, <3>2, <3>3 DEF TypeInv, Moves
    <3>5. QED
      BY <2>1, <3>3, <3>4 DEF TypeInv, NoneLost, Cards
  <2>4. QED
    BY <1>5, <2>2, <2>3 DEF Drop
<1>6. ASSUME NEW m \in moves, Handle(m)
      PROVE  TypeInv' /\ NoneLost'
  <2>1. m \in Moves /\ m.from # m.to /\ status = "shown"
    BY DEF TypeInv
  <2>2. [m EXCEPT !.at = "handled"] \in Moves /\ [m EXCEPT !.at = "handled"].from = m.from
        /\ [m EXCEPT !.at = "handled"].to = m.to
    BY <2>1 DEF Moves
  <2>3. review' \in [Bricks -> Columns \cup {None}]
    BY <1>6, <2>1 DEF Handle, TypeInv, Moves
  <2>4. moves' \subseteq Moves /\ \A k \in moves' : k.from # k.to
    BY <1>6, <2>1, <2>2 DEF Handle, TypeInv
  <2>5. QED
    BY <1>6, <2>1, <2>3, <2>4 DEF Handle, load, dom, TypeInv, NoneLost, Cards
<1>7. ASSUME NEW m \in moves, MoveAnswered(m)
      PROVE  TypeInv' /\ NoneLost'
  <2>1. /\ m \in Moves /\ m.from # m.to /\ status = "shown" /\ moves' \subseteq moves
        /\ UNCHANGED <<review, status, fetching, found, drops>>
    BY <1>7 DEF TypeInv, MoveAnswered, load
  <2>2. card' \in [Bricks -> Columns \cup {None}] /\ Cards' = Cards
    <3>1. card' = card \/ card' = [card EXCEPT ![m.brick] = IF @ = m.from THEN m.to ELSE @]
      BY <1>7 DEF MoveAnswered, MoveCardToColumn, ShowCardError
    <3>2. m.brick \in Bricks /\ m.from \in Columns /\ m.to \in Columns
      BY <2>1 DEF Moves
    <3>3. \A b \in Bricks : card'[b] = card[b] \/ (card[b] = m.from /\ card'[b] = m.to)
      <4>1. CASE card' = card
        BY <4>1
      <4>2. CASE card' = [card EXCEPT ![m.brick] = IF @ = m.from THEN m.to ELSE @]
        <5>1. card \in [Bricks -> Columns \cup {None}]
          BY DEF TypeInv
        <5>2. card' = [card EXCEPT ![m.brick] = IF card[m.brick] = m.from
                                                THEN m.to ELSE card[m.brick]]
          BY <4>2
        <5>3. QED
          BY <5>1, <5>2
      <4>3. QED
        BY <3>1, <4>1, <4>2
    <3>4. QED
      BY <3>1, <3>2, <3>3, TriageBoardAssumption DEF TypeInv, Cards
  <2>3. CASE UNCHANGED board
    BY <2>1, <2>2, <2>3 DEF TypeInv, NoneLost
  <2>4. CASE /\ m.idx \in DOMAIN board[m.from]
             /\ board' = [board EXCEPT ![m.from] = RemoveAt(board[m.from], m.idx),
                                       ![m.to] = Append(board[m.to], board[m.from][m.idx])]
    <3>1. m.from \in Columns /\ m.to \in Columns
      BY <2>1 DEF Moves
    <3>2. /\ IsBoard(board')
          /\ OnBoard(board', m.to, board[m.from][m.idx])
          /\ \A c \in Columns, b \in Bricks :
                OnBoard(board, c, b) /\ b # board[m.from][m.idx] => OnBoard(board', c, b)
      <4>1. IsBoard(board) /\ Shifts(m.from, m.to, m.idx)
        BY <2>4 DEF TypeInv, Shifts
      <4>2. QED
        BY <2>1, <3>1, <4>1, Moved
    <3>3. NoneLost'
      BY <2>2, <3>1, <3>2 DEF NoneLost, Cards
    <3>4. QED
      BY <2>1, <2>2, <3>2, <3>3 DEF TypeInv
  <2>5. QED
    BY <1>7, <2>1, <2>3, <2>4 DEF MoveAnswered, Moves, TypeInv, IsBoard
<1>8. ASSUME NEW m \in moves, MoveFailed(m)
      PROVE  TypeInv' /\ NoneLost'
  <2>1. status = "shown" /\ moves' \subseteq moves
    BY <1>8 DEF TypeInv, MoveFailed
  <2>2. QED
    BY <1>8, <2>1 DEF MoveFailed, ShowCardError, load, TypeInv, NoneLost, Cards
<1>9. QED
  BY <1>1, <1>2, <1>3, <1>4, <1>5, <1>6, <1>7, <1>8 DEF Next, Network, TypeInv

\* The board starts empty, with no brick to lose.
LEMMA BoardInit == Init => TypeInv /\ NoneLost
<1> SUFFICES ASSUME Init PROVE TypeInv /\ NoneLost
  OBVIOUS
<1>1. found \in Seq(Bricks) /\ IsInjective(found)
  BY EmptySeq DEF Init, IsInjective
<1>2. IsBoard(board)
  BY EmptySeq DEF Init, IsBoard, NothingTwice
<1>3. Cards = {}
  BY DEF Init, Cards
<1>4. QED
  BY <1>1, <1>2, <1>3, TriageBoardAssumption DEF Init, TypeInv, NoneLost

\* Moves that overlap may take each other's bricks from one column to another, but the copy in
\* memory has every brick of the page exactly once, whatever index an answer is applied to.
THEOREM NoBrickLostOrTwice == Spec => []EachBrickOnce
<1>1. TypeInv /\ NoneLost => EachBrickOnce
  <2> SUFFICES ASSUME TypeInv, NEW b \in Cards, NEW c \in Columns, OnBoard(board, c, b)
               PROVE  /\ Located(b) = {c}
                      /\ Cardinality({i \in DOMAIN board[c] : board[c][i] = b}) = 1
    BY DEF NoneLost, EachBrickOnce
  <2>1. NothingTwice(board)
    BY DEF TypeInv, IsBoard
  <2>2. PICK i \in DOMAIN board[c] : board[c][i] = b
    BY DEF OnBoard
  <2>3. Located(b) = {c} /\ {j \in DOMAIN board[c] : board[c][j] = b} = {i}
    BY <2>1, <2>2 DEF NothingTwice, Located
  <2>4. QED
    BY <2>3, FS_Singleton
<1>2. QED
  BY <1>1, BoardInit, BoardStep, PTL DEF Spec

-----------------------------------------------------------------------------
(* The copy in memory and the cards.                                         *)

\* A card that neither comes from a column in which moves overlapped nor is in one.
Clean(b) == {built[b], card[b]} \cap hurried = {}

AtRight(b) ==
    /\ OnBoard(board, card[b], b)
    /\ InColumn(b, card[b]) \/ b \in pending \cup errors

\* A move still has the index of its brick; and its card, unless it was left behind elsewhere,
\* cannot be dragged, and is going where the server has it already.
InStep(m) ==
    /\ m.idx \in DOMAIN board[m.from] /\ board[m.from][m.idx] = m.brick
    /\ card[m.brick] = m.from => /\ m.brick \in pending
                                 /\ m.at = "handled" => review[m.brick] = m.to

\* Where no two moves of one column are on their way, each finds what it looked up, and the
\* cards follow the copy in memory and what the server has.
Synced ==
    /\ \A b \in Cards : Clean(b) => AtRight(b)
    /\ \A m \in moves : /\ m.from = built[m.brick]
                        /\ m.from \notin hurried => InStep(m)
    /\ \A m, n \in moves : m.from = n.from => m = n \/ m.from \in hurried

\* The card of a move, where moves do not overlap, is in the column it came from; of
\* two such moves the bricks differ.
LEMMA CardOfMove ==
    ASSUME TypeInv, Synced, NEW m \in moves, m.from \notin hurried
    PROVE  /\ m.brick \in Cards /\ Clean(m.brick) => card[m.brick] = m.from
           /\ \A n \in moves : n.brick = m.brick => n = m
<1>1. InStep(m) /\ m.from = built[m.brick] /\ m.from \in Columns /\ m.brick \in Bricks
  BY DEF Synced, TypeInv, Moves
<1>2. ASSUME m.brick \in Cards, Clean(m.brick)
      PROVE  card[m.brick] = m.from
  <2>1. card[m.brick] \in Columns /\ OnBoard(board, card[m.brick], m.brick)
    BY <1>2 DEF Synced, AtRight, TypeInv, Cards
  <2>2. QED
    BY <1>1, <2>1 DEF InStep, OnBoard, TypeInv, IsBoard, NothingTwice
<1>3. \A n \in moves : n.brick = m.brick => n.from = m.from
  BY <1>1 DEF Synced
<1>4. QED
  BY <1>2, <1>3 DEF Synced

\* A new move.
LEMMA DropSynced ==
    ASSUME TypeInv, Synced, NEW b \in Bricks, NEW c \in Columns, Drop(b, c)
    PROVE  Synced'
<1>1. /\ b \in Cards /\ c # built[b] /\ UNCHANGED <<review, board, card, built, errors>>
  BY DEF Drop, load, Cards
<1>2. CASE UNCHANGED <<moves, pending, hurried>>
  BY <1>1, <1>2 DEF Synced, Cards, Clean, AtRight, OnBoard, InColumn, InStep
<1>3. CASE built[b] \in Located(b)
  <2>0. PICK from : from = built[b]
    OBVIOUS
  <2>1. PICK new : /\ new = [id |-> drops + 1, brick |-> b, from |-> from, to |-> c,
                             idx |-> IndexOf(b, from), at |-> "sent"]
                   /\ moves' = moves \cup {new}
                   /\ SetCardPending(b, from, TRUE)
                   /\ hurried' = hurried \cup ({from} \cap {m.from : m \in moves})
    BY <1>3, <2>0 DEF Drop
  <2>2. from \in Columns /\ OnBoard(board, from, b)
    BY <1>3, <2>0 DEF Located, OnBoard
  <2>3. /\ pending \subseteq pending' /\ hurried \subseteq hurried'
        /\ card[b] = from => b \in pending'
    BY <2>1 DEF SetCardPending
  <2>4. /\ IndexOf(b, from) \in DOMAIN board[from] /\ board[from][IndexOf(b, from)] = b
    BY <2>2, Indexed DEF TypeInv
  <2>5. new.brick = b /\ new.from = from /\ new.idx = IndexOf(b, from) /\ new.at = "sent"
    BY <2>1
  <2>6. InStep(new)' /\ new.from = built'[new.brick]
    BY <1>1, <2>0, <2>3, <2>4, <2>5 DEF InStep
  <2>7. ASSUME NEW m \in moves
        PROVE  m.from = built'[m.brick] /\ (m.from \notin hurried' => InStep(m)')
    BY <1>1, <2>3 DEF Synced, InStep
  <2>8. ASSUME NEW m \in moves', NEW n \in moves', m.from = n.from
        PROVE  m = n \/ m.from \in hurried'
    BY <2>1, <2>3, <2>5, <2>8 DEF Synced
  <2>9. ASSUME NEW a \in Cards', Clean(a)'
        PROVE  AtRight(a)'
    <3>1. a \in Cards /\ Clean(a)
      BY <1>1, <2>3, <2>9 DEF Cards, Clean
    <3>2. AtRight(a)
      BY <3>1 DEF Synced
    <3>3. QED
      BY <1>1, <2>3, <3>2 DEF AtRight, OnBoard, InColumn
  <2>10. QED
    BY <2>1, <2>6, <2>7, <2>8, <2>9 DEF Synced
<1>4. QED
  BY <1>2, <1>3 DEF Drop

\* The server has handled the request.
LEMMA HandleSynced ==
    ASSUME TypeInv, Synced, NEW m \in moves, Handle(m)
    PROVE  Synced'
<1> DEFINE done == [m EXCEPT !.at = "handled"]
<1>1. /\ m \in Moves /\ m.brick \in Bricks
      /\ review \in [Bricks -> Columns \cup {None}]
  BY DEF TypeInv, Moves
<1>2. /\ done.brick = m.brick /\ done.from = m.from /\ done.to = m.to /\ done.idx = m.idx
  BY <1>1 DEF Moves
<1>3. /\ review' = [review EXCEPT ![m.brick] = m.to] /\ moves' = (moves \ {m}) \cup {done}
      /\ UNCHANGED <<board, card, built, pending, errors, hurried>>
  BY DEF Handle, load, dom
<1> HIDE DEF done
<1>4. review'[m.brick] = m.to /\ \A b \in Bricks : b # m.brick => review'[b] = review[b]
  BY <1>1, <1>3
<1>5. done.from = built'[done.brick] /\ (done.from \notin hurried' => InStep(done)')
  BY <1>2, <1>3, <1>4 DEF Synced, InStep
<1>6. ASSUME NEW n \in moves, n # m
      PROVE  n.from = built'[n.brick] /\ (n.from \notin hurried' => InStep(n)')
  <2>1. n.brick \in Bricks /\ n.from = built[n.brick]
    BY DEF Synced, TypeInv, Moves
  <2>2. ASSUME n.from \notin hurried
        PROVE  InStep(n) /\ n.brick # m.brick
    BY <1>6, <2>2, CardOfMove DEF Synced
  <2>3. QED
    BY <1>3, <1>4, <2>1, <2>2 DEF InStep
<1>7. \A k, n \in moves' : k.from = n.from => k = n \/ k.from \in hurried'
  BY <1>2, <1>3 DEF Synced
<1>8. ASSUME NEW b \in Cards', Clean(b)'
      PROVE  AtRight(b)'
  <2>1. b \in Cards /\ Clean(b) /\ AtRight(b) /\ b \in Bricks
    BY <1>3, <1>8 DEF Cards, Clean, Synced
  <2>2. CASE b = m.brick
    <3>1. m.from \notin hurried
      BY <2>1, <2>2 DEF Clean, Synced
    <3>2. b \in pending
      BY <2>1, <2>2, <3>1, CardOfMove DEF Synced, InStep
    <3>3. QED
      BY <1>3, <2>1, <3>2 DEF AtRight, OnBoard
  <2>3. CASE b # m.brick
    BY <1>3, <1>4, <2>1, <2>3 DEF AtRight, OnBoard, InColumn
  <2>4. QED
    BY <2>2, <2>3
<1>9. QED
  BY <1>3, <1>5, <1>6, <1>7, <1>8 DEF Synced

\* A move ends and leaves the board as it is: its card says so, if it is found.
LEMMA FailSynced ==
    ASSUME TypeInv, Synced, NEW m \in moves, moves' = moves \ {m},
           SetCardPending(m.brick, m.from, FALSE), ShowCardError(m),
           UNCHANGED <<review, board, built, hurried>>
    PROVE  Synced'
<1>1. /\ UNCHANGED <<review, board, card, built, hurried>> /\ moves' = moves \ {m}
      /\ pending \ {m.brick} \subseteq pending' /\ errors \subseteq errors'
      /\ card[m.brick] = m.from => m.brick \in errors'
  BY DEF SetCardPending, ShowCardError
<1>2. ASSUME NEW n \in moves'
      PROVE  n.from = built'[n.brick] /\ (n.from \notin hurried' => InStep(n)')
  <2>1. n \in moves /\ n # m /\ n.from = built[n.brick]
    BY <1>1, <1>2 DEF Synced
  <2>2. ASSUME n.from \notin hurried
        PROVE  InStep(n) /\ n.brick # m.brick
    BY <2>1, <2>2, CardOfMove DEF Synced
  <2>3. QED
    BY <1>1, <2>1, <2>2 DEF InStep
<1>3. ASSUME NEW b \in Cards', Clean(b)'
      PROVE  AtRight(b)'
  <2>1. b \in Cards /\ Clean(b) /\ AtRight(b)
    BY <1>1, <1>3 DEF Cards, Clean, Synced
  <2>2. CASE b = m.brick
    <3>1. m.from \notin hurried
      BY <2>1, <2>2 DEF Clean, Synced
    <3>2. b \in errors'
      BY <1>1, <2>1, <2>2, <3>1, CardOfMove
    <3>3. QED
      BY <1>1, <2>1, <3>2 DEF AtRight, OnBoard
  <2>3. CASE b # m.brick
    BY <1>1, <2>1, <2>3 DEF AtRight, OnBoard, InColumn
  <2>4. QED
    BY <2>2, <2>3
<1>4. QED
  BY <1>1, <1>2, <1>3 DEF Synced

\* A move succeeds.  Where moves do not overlap, its brick and its card change to the
\* column that the server has by then; else whatever is moved comes from the column in which
\* they did.
LEMMA AnswerSynced ==
    ASSUME TypeInv, Synced, NEW m \in moves, MoveAnswered(m), m.idx \in DOMAIN board[m.from]
    PROVE  Synced'
<1> DEFINE x == board[m.from][m.idx]
<1>1. /\ m.brick \in Bricks /\ m.from \in Columns /\ m.to \in Columns /\ m.from = built[m.brick]
      /\ m.from # m.to /\ IsBoard(board) /\ card \in [Bricks -> Columns \cup {None}]
      /\ m.from \notin hurried => InStep(m)
  BY DEF Synced, TypeInv, Moves
<1>2. Shifts(m.from, m.to, m.idx)
  BY DEF MoveAnswered, Shifts
<1>3. /\ moves' = moves \ {m} /\ UNCHANGED <<review, built, hurried>> /\ m.at = "handled"
      /\ SetCardPending(m.brick, m.from, FALSE) /\ MoveCardToColumn(m)
  BY DEF MoveAnswered, load
<1>4. /\ \A b \in Bricks : b # m.brick => card'[b] = card[b]
      /\ card'[m.brick] = IF card[m.brick] = m.from THEN m.to ELSE card[m.brick]
      /\ pending \ {m.brick} \subseteq pending' /\ errors \ {m.brick} \subseteq errors'
  BY <1>1, <1>3 DEF SetCardPending, MoveCardToColumn
<1>5. /\ OnBoard(board', m.to, x)
      /\ \A c \in Columns, b \in Bricks : OnBoard(board, c, b) /\ b # x => OnBoard(board', c, b)
      /\ \A c \in Columns \ {m.from} : \A j \in DOMAIN board[c] :
            j \in DOMAIN board'[c] /\ board'[c][j] = board[c][j]
  BY <1>1, <1>2, Moved
<1>6. m.from \notin hurried => x = m.brick
  BY <1>1 DEF InStep
<1> HIDE DEF x
<1>7. ASSUME NEW n \in moves'
      PROVE  n.from = built'[n.brick] /\ (n.from \notin hurried' => InStep(n)')
  <2>1. n \in moves /\ n # m /\ n.from = built[n.brick] /\ n.brick \in Bricks /\ n.from \in Columns
    BY <1>3, <1>7 DEF Synced, TypeInv, Moves
  <2>2. ASSUME n.from \notin hurried
        PROVE  InStep(n)'
    <3>1. InStep(n) /\ n.brick # m.brick /\ n.from # m.from
      BY <2>1, <2>2, CardOfMove DEF Synced
    <3>2. n.idx \in DOMAIN board'[n.from] /\ board'[n.from][n.idx] = n.brick
      BY <1>5, <2>1, <3>1 DEF InStep
    <3>3. QED
      BY <1>3, <1>4, <2>1, <3>1, <3>2 DEF InStep
  <2>3. QED
    BY <1>3, <2>1, <2>2
<1>8. ASSUME NEW b \in Cards', Clean(b)', b # m.brick
      PROVE  AtRight(b)'
  <2>1. b \in Cards /\ b \in Bricks /\ Clean(b) /\ AtRight(b) /\ card'[b] = card[b]
        /\ card[b] \in Columns
    BY <1>1, <1>3, <1>4, <1>8 DEF Cards, Clean, Synced
  <2>2. b # x
    <3>1. CASE m.from \in hurried
      <4>1. card[b] # m.from /\ OnBoard(board, card[b], b)
        BY <2>1, <3>1 DEF Clean, AtRight
      <4>2. QED
        BY <1>1, <2>1, <4>1 DEF OnBoard, IsBoard, NothingTwice, x
    <3>2. CASE m.from \notin hurried
      BY <1>6, <1>8, <3>2
    <3>3. QED
      BY <3>1, <3>2
  <2>3. OnBoard(board', card'[b], b)
    BY <1>5, <2>1, <2>2 DEF AtRight
  <2>4. QED
    BY <1>3, <1>4, <1>8, <2>1, <2>3 DEF AtRight, InColumn
<1>9. ASSUME m.brick \in Cards', Clean(m.brick)'
      PROVE  AtRight(m.brick)'
  <2>1. m.from \notin hurried /\ x = m.brick /\ InStep(m)
    BY <1>1, <1>3, <1>6, <1>9 DEF Clean
  <2>2. card[m.brick] = m.from
    <3>1. ASSUME card[m.brick] # m.from PROVE m.brick \in Cards /\ Clean(m.brick)
      BY <1>3, <1>4, <1>9, <3>1 DEF Cards, Clean
    <3>2. QED
      BY <2>1, <3>1, CardOfMove
  <2>3. card'[m.brick] = m.to /\ review'[m.brick] = m.to
    BY <1>3, <1>4, <2>1, <2>2 DEF InStep
  <2>4. QED
    BY <1>1, <1>5, <2>1, <2>3 DEF AtRight, InColumn
<1>10. QED
  BY <1>3, <1>7, <1>8, <1>9 DEF Synced

\* Every step keeps what moves did not harm that of the server.
LEMMA SyncStep == TypeInv /\ Synced /\ [Next]_vars => Synced'
<1> SUFFICES ASSUME TypeInv, Synced, [Next]_vars
             PROVE  Synced'
  OBVIOUS
<1>1. ASSUME UNCHANGED <<review, board, card, built, pending, errors, moves, hurried>>
      PROVE  Synced'
  BY <1>1 DEF Synced, Cards, Clean, AtRight, OnBoard, InColumn, InStep
<1>2. CASE UNCHANGED vars \/ Rest
  BY <1>1, <1>2 DEF Rest, vars, dom
<1>3. ASSUME status = "loading", RenderBoard(found'), found' \in Seq(Bricks),
             IsInjective(found'), UNCHANGED <<review, pending, errors, moves, hurried>>
      PROVE  Synced'
  <2>1. \A b \in Bricks : card'[b] # None => /\ InColumn(b, card'[b])
                                             /\ OnBoard(board', card'[b], b)
    BY <1>3, Rendered
  <2>2. moves' = {}
    BY <1>3 DEF TypeInv
  <2>3. QED
    BY <1>3, <2>1, <2>2 DEF Synced, Cards, AtRight, InColumn
<1>4. CASE NanobarsAnswered \/ NanobarsRefused \/ NanobarsLost
  <2>1. \/ status = "loading" /\ RenderBoard(found)
           /\ UNCHANGED <<review, found, pending, errors, moves, hurried>>
        \/ UNCHANGED <<review, board, card, built, pending, errors, moves, hurried>>
    BY <1>4 DEF NanobarsAnswered, NanobarsRefused, NanobarsLost, dom
  <2>2. QED
    BY <1>1, <1>3, <2>1 DEF TypeInv
<1>5. ASSUME NEW n \in Nanobars, BricksAnswered(n)
      PROVE  Synced'
  <2>1. status = "loading" /\ found' \in Seq(Bricks) /\ IsInjective(found')
    BY <1>5, FoundListed DEF BricksAnswered, TypeInv
  <2>2. \/ RenderBoard(found') /\ UNCHANGED <<review, pending, errors, moves, hurried>>
        \/ UNCHANGED <<review, board, card, built, pending, errors, moves, hurried>>
    BY <1>5 DEF BricksAnswered
  <2>3. QED
    BY <1>1, <1>3, <2>1, <2>2
<1>6. ASSUME NEW b \in Bricks, NEW c \in Columns, Drop(b, c)
      PROVE  Synced'
  BY <1>6, DropSynced
<1>7. ASSUME NEW m \in moves, MoveFailed(m)
      PROVE  Synced'
  BY <1>7, FailSynced DEF MoveFailed, load
<1>8. ASSUME NEW m \in moves, MoveAnswered(m)
      PROVE  Synced'
  <2>1. CASE m.idx \in DOMAIN board[m.from]
    BY <1>8, <2>1, AnswerSynced
  <2>2. CASE m.idx \notin DOMAIN board[m.from]
    BY <1>8, <2>2, FailSynced DEF MoveAnswered, load
  <2>3. QED
    BY <2>1, <2>2
<1>9. ASSUME NEW m \in moves, Handle(m)
      PROVE  Synced'
  BY <1>9, HandleSynced
<1>10. QED
  BY <1>2, <1>4, <1>5, <1>6, <1>7, <1>8, <1>9 DEF Next, Network

\* Moves of different columns may overlap as they like, and two of one column harm only cards
\* that come from it or went to it: the copy in memory has the brick of every other card
\* where the card is, which at rest is the column that the server has for it, or the card
\* shows an error.
THEOREM BoardKeepsUp == Spec => []BoardInSync
<1>1. Init => Synced
  BY DEF Init, Synced, Cards
<1>2. TypeInv /\ Synced => BoardInSync
  <2> SUFFICES ASSUME TypeInv, Synced, NEW b \in Cards, Clean(b)
               PROVE  /\ Located(b) = {card[b]}
                      /\ InColumn(b, card[b]) \/ b \in pending \cup errors
    BY DEF BoardInSync, Clean
  <2>1. AtRight(b) /\ card[b] \in Columns /\ NothingTwice(board)
    BY DEF TypeInv, Cards, Synced, IsBoard
  <2>2. QED
    BY <2>1 DEF AtRight, Located, OnBoard, NothingTwice
<1>3. QED
  BY <1>1, <1>2, BoardInit, BoardStep, SyncStep, PTL DEF Spec
=============================================================================
