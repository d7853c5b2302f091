----------------------------- MODULE RailProofs -----------------------------
(***************************************************************************)
(* What is proved of Rail, for any lists of rows, any number of moves and  *)
(* of rows that come and go, and any order in which reads and answers      *)
(* arrive: first what a move does to a list, then what a replay of moves   *)
(* does to all of them, then an invariant that speaks of neither the       *)
(* replay nor its length.                                                  *)
(***************************************************************************)
EXTENDS Rail, SequenceTheorems, FiniteSetTheorems, WellFoundedInduction, TLAPS

\* The orders of rows of S, each at most once.
Orders(S) == {ids \in Seq(S) : IsInjective(ids)}

\* Move m is made: it would change nothing.
Satisfied(ids, m) == moveBefore(ids, m) = ids

USE RailAssumption

-----------------------------------------------------------------------------
(* The lists. *)

LEMMA InjectiveIs ==
  ASSUME NEW S, NEW ids \in Seq(S)
  PROVE  IsInjective(ids) <=> \A i, j \in 1..Len(ids) : ids[i] = ids[j] => i = j
BY DEF IsInjective

LEMMA PositionIs ==
  ASSUME NEW S, NEW ids \in Orders(S), NEW i \in 1..Len(ids)
  PROVE  Position(ids, ids[i]) = i
<1>1. DOMAIN ids = 1..Len(ids) /\ \A k, j \in 1..Len(ids) : ids[k] = ids[j] => k = j
  BY InjectiveIs DEF Orders
<1>2. \E k \in DOMAIN ids : ids[k] = ids[i]
  BY <1>1
<1>3. Position(ids, ids[i]) \in 1..Len(ids) /\ ids[Position(ids, ids[i])] = ids[i]
  BY <1>1, <1>2 DEF Position
<1> QED BY <1>1, <1>3

\* A list without the row at k.
LEMMA WithoutIs ==
  ASSUME NEW S, NEW ids \in Orders(S), NEW k \in 1..Len(ids)
  PROVE  /\ Without(ids, ids[k]) \in Orders(S)
         /\ Len(Without(ids, ids[k])) = Len(ids) - 1
         /\ \A i \in 1..(Len(ids) - 1) : Without(ids, ids[k])[i] = IF i < k THEN ids[i] ELSE ids[i + 1]
         /\ ~Contains(Without(ids, ids[k]), ids[k])
<1> DEFINE n == Len(ids)
           front == SubSeq(ids, 1, k - 1)
           back  == SubSeq(ids, k + 1, n)
           rest == front \o back
<1>1. ids \in Seq(S) /\ n \in Nat /\ k \in 1..n /\ \A i, j \in 1..n : ids[i] = ids[j] => i = j
  BY InjectiveIs DEF Orders
<1>2. Without(ids, ids[k]) = rest
  BY PositionIs DEF Without, RemoveAt
<1>3. front \in Seq(S) /\ Len(front) = k - 1 /\ \A i \in 1..(k - 1) : front[i] = ids[i]
  BY <1>1
<1>4. back \in Seq(S) /\ Len(back) = n - k /\ \A i \in 1..(n - k) : back[i] = ids[k + i]
  BY <1>1
<1> HIDE DEF front, back
<1>5. rest \in Seq(S) /\ Len(rest) = n - 1
  <2>1. rest \in Seq(S) /\ Len(rest) = Len(front) + Len(back)
    BY <1>3, <1>4, ConcatProperties
  <2> QED BY <1>1, <1>3, <1>4, <2>1
<1>6. ASSUME NEW i \in 1..(n - 1) PROVE rest[i] = IF i < k THEN ids[i] ELSE ids[i + 1]
  <2>1. rest[i] = IF i <= k - 1 THEN front[i] ELSE back[i - (k - 1)]
    BY <1>1, <1>3, <1>4
  <2>2. CASE i < k
    BY <1>1, <1>3, <2>1, <2>2
  <2>3. CASE ~(i < k)
    <3>1. i - (k - 1) \in 1..(n - k) /\ k + (i - (k - 1)) = i + 1 /\ ~(i <= k - 1)
      BY <1>1, <2>3
    <3>2. back[i - (k - 1)] = ids[k + (i - (k - 1))]
      BY <1>4, <3>1
    <3> QED BY <2>1, <2>3, <3>1, <3>2
  <2> QED BY <2>2, <2>3
<1> HIDE DEF rest, n
<1>7. \A i, j \in 1..(n - 1) : rest[i] = rest[j] => i = j
  <2> SUFFICES ASSUME NEW i \in 1..(n - 1), NEW j \in 1..(n - 1), rest[i] = rest[j] PROVE i = j
    OBVIOUS
  <2>1. PICK x \in 1..n : rest[i] = ids[x] /\ x = (IF i < k THEN i ELSE i + 1)
    BY <1>1, <1>6
  <2>2. PICK y \in 1..n : rest[j] = ids[y] /\ y = (IF j < k THEN j ELSE j + 1)
    BY <1>1, <1>6
  <2>3. x = y
    BY <1>1, <2>1, <2>2
  <2> QED BY <1>1, <2>1, <2>2, <2>3
<1>8. ASSUME NEW i \in 1..(n - 1), rest[i] = ids[k] PROVE FALSE
  <2>1. PICK x \in 1..n : rest[i] = ids[x] /\ x = (IF i < k THEN i ELSE i + 1)
    BY <1>1, <1>6
  <2>2. x = k
    BY <1>1, <1>8, <2>1
  <2> QED BY <1>1, <2>1, <2>2
<1>9. rest \in Orders(S)
  BY <1>5, <1>7, InjectiveIs DEF Orders
<1> QED BY <1>2, <1>5, <1>6, <1>8, <1>9 DEF Contains, n

\* A list with r inserted at k.
LEMMA InsertIs ==
  ASSUME NEW S, NEW ids \in Orders(S), NEW r \in S, ~Contains(ids, r), NEW k \in 1..(Len(ids) + 1)
  PROVE  /\ InsertAt(ids, k, r) \in Orders(S)
         /\ Len(InsertAt(ids, k, r)) = Len(ids) + 1
         /\ \A i \in 1..(Len(ids) + 1) :
              InsertAt(ids, k, r)[i] = IF i < k THEN ids[i] ELSE IF i = k THEN r ELSE ids[i - 1]
<1> DEFINE n == Len(ids)
           front == SubSeq(ids, 1, k - 1)
           back  == SubSeq(ids, k, n)
           mid   == front \o <<r>>
           all   == mid \o back
<1>1. ids \in Seq(S) /\ n \in Nat /\ k \in 1..(n + 1) /\ \A i, j \in 1..n : ids[i] = ids[j] => i = j
  BY InjectiveIs DEF Orders
<1>2. InsertAt(ids, k, r) = all
  BY DEF InsertAt
<1>3. front \in Seq(S) /\ Len(front) = k - 1 /\ \A i \in 1..(k - 1) : front[i] = ids[i]
  BY <1>1
<1>4. back \in Seq(S) /\ Len(back) = n - k + 1 /\ \A i \in 1..(n - k + 1) : back[i] = ids[k + i - 1]
  BY <1>1
<1> HIDE DEF front, back
<1>5. mid \in Seq(S) /\ Len(mid) = k /\ \A i \in 1..k : mid[i] = IF i < k THEN ids[i] ELSE r
  BY <1>1, <1>3
<1> HIDE DEF mid
<1>6. all \in Seq(S) /\ Len(all) = n + 1
  BY <1>1, <1>4, <1>5
<1>7. ASSUME NEW i \in 1..(n + 1)
      PROVE  all[i] = IF i < k THEN ids[i] ELSE IF i = k THEN r ELSE ids[i - 1]
  <2>1. all[i] = IF i <= k THEN mid[i] ELSE back[i - k]
    BY <1>1, <1>4, <1>5
  <2>2. CASE i <= k
    BY <1>1, <1>5, <2>1, <2>2
  <2>3. CASE ~(i <= k)
    <3>1. i - k \in 1..(n - k + 1) /\ k + (i - k) - 1 = i - 1
      BY <1>1, <2>3
    <3>2. back[i - k] = ids[k + (i - k) - 1]
      BY <1>4, <3>1
    <3> QED BY <1>1, <2>1, <2>3, <3>1, <3>2
  <2> QED BY <2>2, <2>3
<1> HIDE DEF all, n
<1>8. \A i \in 1..n : ids[i] # r
  BY DEF Contains, n
<1>9. \A i, j \in 1..(n + 1) : all[i] = all[j] => i = j
  <2> SUFFICES ASSUME NEW i \in 1..(n + 1), NEW j \in 1..(n + 1), all[i] = all[j] PROVE i = j
    OBVIOUS
  <2>1. i = k \/ \E x \in 1..n : all[i] = ids[x] /\ x = (IF i < k THEN i ELSE i - 1)
    BY <1>1, <1>7
  <2>2. j = k \/ \E y \in 1..n : all[j] = ids[y] /\ y = (IF j < k THEN j ELSE j - 1)
    BY <1>1, <1>7
  <2>3. all[k] = r
    BY <1>1, <1>7
  <2> QED BY <1>1, <1>8, <2>1, <2>2, <2>3
<1>10. all \in Orders(S)
  BY <1>6, <1>9, InjectiveIs DEF Orders
<1> QED BY <1>2, <1>6, <1>7, <1>10 DEF n

\* Two lists are the same if they have the same rows at the same places.
LEMMA SameOrder ==
  ASSUME NEW S, NEW x \in Orders(S), NEW y \in Orders(S), Len(x) = Len(y),
         \A i \in 1..Len(x) : x[i] = y[i]
  PROVE  x = y
BY SeqEqual DEF Orders

\* Taking out what was put in gives back the list.
LEMMA InsertWithout ==
  ASSUME NEW S, NEW ids \in Orders(S), NEW r \in S, ~Contains(ids, r), NEW k \in 1..(Len(ids) + 1)
  PROVE  /\ Contains(InsertAt(ids, k, r), r)
         /\ Position(InsertAt(ids, k, r), r) = k
         /\ Without(InsertAt(ids, k, r), r) = ids
<1> DEFINE n == Len(ids)
           all == InsertAt(ids, k, r)
<1>1. /\ all \in Orders(S) /\ Len(all) = n + 1 /\ n \in Nat
      /\ \A i \in 1..(n + 1) : all[i] = IF i < k THEN ids[i] ELSE IF i = k THEN r ELSE ids[i - 1]
  BY InsertIs DEF Orders
<1> HIDE DEF all
<1>2. k \in 1..Len(all) /\ all[k] = r
  BY <1>1
<1>3. Position(all, r) = k
  BY <1>1, <1>2, PositionIs
<1>4. /\ Without(all, r) \in Orders(S) /\ Len(Without(all, r)) = n
      /\ \A i \in 1..n : Without(all, r)[i] = IF i < k THEN all[i] ELSE all[i + 1]
  <2>1. /\ Without(all, all[k]) \in Orders(S) /\ Len(Without(all, all[k])) = Len(all) - 1
        /\ \A i \in 1..(Len(all) - 1) : Without(all, all[k])[i] = IF i < k THEN all[i] ELSE all[i + 1]
    BY <1>1, <1>2, WithoutIs
  <2> QED BY <1>1, <1>2, <2>1
<1>5. \A i \in 1..n : Without(all, r)[i] = ids[i]
  <2> SUFFICES ASSUME NEW i \in 1..n PROVE Without(all, r)[i] = ids[i]
    OBVIOUS
  <2>1. CASE i < k
    BY <1>1, <1>4, <2>1
  <2>2. CASE ~(i < k)
    <3>1. i + 1 \in 1..(n + 1) /\ ~(i + 1 < k) /\ i + 1 # k /\ (i + 1) - 1 = i
      BY <1>1, <2>2
    <3>2. all[i + 1] = ids[(i + 1) - 1]
      BY <1>1, <3>1
    <3> QED BY <1>4, <2>2, <3>1, <3>2
  <2> QED BY <2>1, <2>2
<1>6. Without(all, r) = ids
  BY <1>1, <1>4, <1>5, SameOrder
<1> QED BY <1>1, <1>2, <1>3, <1>6 DEF all, Contains

\* Where a row goes in the list without it.
Spot(ids, m) ==
  IF m.before = End THEN Len(Without(ids, m.row)) + 1 ELSE Position(Without(ids, m.row), m.before)

\* What it is to put a row of a list elsewhere in it.
LEMMA MoveIs ==
  ASSUME NEW s \in Scopes, NEW ids \in Orders(Rows[s]), NEW m \in Moves(s),
         Placeable(ids, m), m.before # m.row
  PROVE  /\ m.row \in Rows[s]
         /\ Without(ids, m.row) \in Orders(Rows[s]) /\ ~Contains(Without(ids, m.row), m.row)
         /\ Spot(ids, m) \in 1..(Len(Without(ids, m.row)) + 1)
         /\ m.before # End => /\ Spot(ids, m) \in 1..Len(Without(ids, m.row))
                              /\ Without(ids, m.row)[Spot(ids, m)] = m.before
         /\ moveBefore(ids, m) = InsertAt(Without(ids, m.row), Spot(ids, m), m.row)
<1> DEFINE rest == Without(ids, m.row)
           k == Spot(ids, m)
<1>1. m.row \in Rows[s] /\ End \notin Rows[s] /\ ids \in Seq(Rows[s]) /\ Len(ids) \in Nat
  BY DEF Moves, RailAssumption, Orders
<1>2. PICK x \in 1..Len(ids) : ids[x] = m.row
  BY <1>1 DEF Placeable, Contains
<1>3. /\ rest \in Orders(Rows[s]) /\ Len(rest) = Len(ids) - 1 /\ ~Contains(rest, m.row)
      /\ \A i \in 1..(Len(ids) - 1) : rest[i] = IF i < x THEN ids[i] ELSE ids[i + 1]
  <2>1. /\ Without(ids, ids[x]) \in Orders(Rows[s])
        /\ Len(Without(ids, ids[x])) = Len(ids) - 1
        /\ \A i \in 1..(Len(ids) - 1) : Without(ids, ids[x])[i] = IF i < x THEN ids[i] ELSE ids[i + 1]
        /\ ~Contains(Without(ids, ids[x]), ids[x])
    BY WithoutIs
  <2> QED BY <1>2, <2>1
<1>4. moveBefore(ids, m) = InsertAt(rest, k, m.row)
  BY DEF moveBefore, Spot
<1>5. Len(rest) \in Nat
  BY <1>3 DEF Orders
<1>6. k = IF m.before = End THEN Len(rest) + 1 ELSE Position(rest, m.before)
  BY DEF Spot
<1> HIDE DEF rest, k
<1>7. ASSUME m.before # End PROVE k \in 1..Len(rest) /\ rest[k] = m.before
  <2>1. PICK y \in 1..Len(ids) : ids[y] = m.before
    BY <1>1, <1>7 DEF Placeable, Contains
  <2>2. y # x
    BY <1>2, <2>1
  <2>3. PICK z \in 1..Len(rest) : rest[z] = m.before
    <3>1. CASE y < x
      BY <1>1, <1>3, <2>1, <3>1
    <3>2. CASE y > x
      <4>1. y - 1 \in 1..(Len(ids) - 1) /\ ~(y - 1 < x) /\ (y - 1) + 1 = y
        BY <1>1, <3>2
      <4> QED BY <1>3, <2>1, <4>1
    <3> QED BY <1>1, <2>2, <3>1, <3>2
  <2>4. Position(rest, rest[z]) = z
    BY <1>3, PositionIs
  <2> QED BY <1>6, <1>7, <2>3, <2>4
<1>8. k \in 1..(Len(rest) + 1)
  BY <1>5, <1>6, <1>7
<1> QED BY <1>1, <1>3, <1>4, <1>7, <1>8 DEF rest, k

LEMMA MoveNothing ==
  ASSUME NEW ids, NEW m, ~(Placeable(ids, m) /\ m.before # m.row)
  PROVE  moveBefore(ids, m) = ids
BY DEF moveBefore

\* A list stays one of the same rows.
LEMMA MoveKeeps ==
  ASSUME NEW s \in Scopes, NEW ids \in Orders(Rows[s]), NEW m \in Moves(s)
  PROVE  moveBefore(ids, m) \in Orders(Rows[s])
<1>1. CASE Placeable(ids, m) /\ m.before # m.row
  BY <1>1, MoveIs, InsertIs
<1> QED BY <1>1, MoveNothing

\* A move that was made changes nothing.
LEMMA MoveOnce ==
  ASSUME NEW s \in Scopes, NEW ids \in Orders(Rows[s]), NEW m \in Moves(s)
  PROVE  Satisfied(moveBefore(ids, m), m)
<1>1. CASE Placeable(ids, m) /\ m.before # m.row
  <2> DEFINE rest == Without(ids, m.row)
             k == Spot(ids, m)
             all == InsertAt(rest, k, m.row)
  <2>1. /\ rest \in Orders(Rows[s]) /\ ~Contains(rest, m.row) /\ m.row \in Rows[s]
        /\ k \in 1..(Len(rest) + 1) /\ moveBefore(ids, m) = all
    BY <1>1, MoveIs
  <2>2. k = IF m.before = End THEN Len(rest) + 1 ELSE Position(rest, m.before)
    BY DEF Spot
  <2> HIDE DEF rest, k
  <2>3. Without(all, m.row) = rest
    BY <2>1, InsertWithout
  <2>4. moveBefore(all, m) = IF Placeable(all, m) /\ m.before # m.row THEN InsertAt(rest, k, m.row) ELSE all
    BY <2>2, <2>3 DEF moveBefore
  <2> QED BY <2>1, <2>4 DEF Satisfied
<1> QED BY <1>1, MoveNothing DEF Satisfied

\* A move that changes nothing has its row already before its anchor, or last.
LEMMA SatisfiedIs ==
  ASSUME NEW s \in Scopes, NEW ids \in Orders(Rows[s]), NEW m \in Moves(s),
         Placeable(ids, m), m.before # m.row
  PROVE  Satisfied(ids, m) <=>
           \E x \in 1..Len(ids) :
             /\ ids[x] = m.row
             /\ IF m.before = End THEN x = Len(ids) ELSE x + 1 \in 1..Len(ids) /\ ids[x + 1] = m.before
<1> DEFINE rest == Without(ids, m.row)
           k == Spot(ids, m)
           all == InsertAt(rest, k, m.row)
<1>1. /\ rest \in Orders(Rows[s]) /\ ~Contains(rest, m.row) /\ m.row \in Rows[s]
      /\ k \in 1..(Len(rest) + 1) /\ moveBefore(ids, m) = all
      /\ m.before # End => k \in 1..Len(rest) /\ rest[k] = m.before
  BY MoveIs
<1>2. k = IF m.before = End THEN Len(rest) + 1 ELSE Position(rest, m.before)
  BY DEF Spot
<1>3. ids \in Seq(Rows[s]) /\ Len(ids) \in Nat /\ rest \in Seq(Rows[s]) /\ Len(rest) \in Nat
      /\ \A i, j \in 1..Len(ids) : ids[i] = ids[j] => i = j
  BY <1>1, InjectiveIs DEF Orders
<1>4. PICK x \in 1..Len(ids) : ids[x] = m.row
  BY <1>3 DEF Placeable, Contains
<1>5. /\ Len(rest) = Len(ids) - 1
      /\ \A i \in 1..(Len(ids) - 1) : rest[i] = IF i < x THEN ids[i] ELSE ids[i + 1]
  <2>1. /\ Len(Without(ids, ids[x])) = Len(ids) - 1
        /\ \A i \in 1..(Len(ids) - 1) : Without(ids, ids[x])[i] = IF i < x THEN ids[i] ELSE ids[i + 1]
    BY WithoutIs
  <2> QED BY <1>4, <2>1
<1> HIDE DEF rest, k
<1>6. /\ all \in Orders(Rows[s]) /\ Len(all) = Len(rest) + 1
      /\ \A i \in 1..(Len(rest) + 1) :
           all[i] = IF i < k THEN rest[i] ELSE IF i = k THEN m.row ELSE rest[i - 1]
  BY <1>1, InsertIs
<1>7. Satisfied(ids, m) <=> all = ids
  BY <1>1 DEF Satisfied
<1> HIDE DEF all
<1>8. (all = ids) <=> k = x
  <2>1. ASSUME all = ids PROVE k = x
    <3>1. all[k] = m.row
      BY <1>1, <1>3, <1>6
    <3> QED BY <1>1, <1>3, <1>4, <1>5, <2>1, <3>1
  <2>2. ASSUME k = x PROVE all = ids
    <3>1. \A i \in 1..Len(ids) : all[i] = ids[i]
      <4> SUFFICES ASSUME NEW i \in 1..Len(ids) PROVE all[i] = ids[i]
        OBVIOUS
      <4>1. CASE i < x
        BY <1>3, <1>5, <1>6, <2>2, <4>1
      <4>2. CASE i = x
        BY <1>3, <1>4, <1>5, <1>6, <2>2, <4>2
      <4>3. CASE i > x
        <5>1. i - 1 \in 1..(Len(ids) - 1) /\ ~(i - 1 < x) /\ (i - 1) + 1 = i /\ i \in 1..(Len(rest) + 1)
          BY <1>3, <1>5, <4>3
        <5> QED BY <1>5, <1>6, <2>2, <4>3, <5>1
      <4> QED BY <1>3, <4>1, <4>2, <4>3
    <3> QED BY <1>3, <1>5, <1>6, <3>1, SameOrder
  <2> QED BY <2>1, <2>2
<1>9. (k = x) <=> IF m.before = End THEN x = Len(ids) ELSE x + 1 \in 1..Len(ids) /\ ids[x + 1] = m.before
  <2>1. CASE m.before = End
    BY <1>2, <1>3, <1>5, <2>1
  <2>2. CASE m.before # End
    <3>1. k \in 1..Len(rest) /\ rest[k] = m.before
      BY <1>1, <2>2
    <3>2. ASSUME k = x PROVE x + 1 \in 1..Len(ids) /\ ids[x + 1] = m.before
      BY <1>3, <1>5, <3>1, <3>2
    <3>3. ASSUME x + 1 \in 1..Len(ids), ids[x + 1] = m.before PROVE k = x
      <4>1. x \in 1..Len(rest) /\ rest[x] = m.before
        BY <1>3, <1>5, <3>3
      <4>2. \A i, j \in 1..Len(rest) : rest[i] = rest[j] => i = j
        BY <1>1, <1>3, InjectiveIs DEF Orders
      <4> QED BY <3>1, <4>1, <4>2
    <3> QED BY <2>2, <3>2, <3>3
  <2> QED BY <2>1, <2>2
<1>10. \A y \in 1..Len(ids) : ids[y] = m.row => y = x
  BY <1>3, <1>4
<1> QED BY <1>4, <1>7, <1>8, <1>9, <1>10

\* That some row leaves undoes no move.
LEMMA SatisfiedWithout ==
  ASSUME NEW s \in Scopes, NEW ids \in Orders(Rows[s]), NEW m \in Moves(s), Satisfied(ids, m),
         NEW r \in Range(ids)
  PROVE  /\ Without(ids, r) \in Orders(Rows[s])
         /\ Satisfied(Without(ids, r), m)
<1> DEFINE rest == Without(ids, r)
           n == Len(ids)
<1>1. ids \in Seq(Rows[s]) /\ n \in Nat /\ \A i, j \in 1..n : ids[i] = ids[j] => i = j
  BY InjectiveIs DEF Orders
<1>2. PICK k \in 1..n : ids[k] = r
  BY <1>1 DEF Range
<1>3. /\ rest \in Orders(Rows[s]) /\ Len(rest) = n - 1 /\ ~Contains(rest, r)
      /\ \A i \in 1..(n - 1) : rest[i] = IF i < k THEN ids[i] ELSE ids[i + 1]
  <2>1. /\ Without(ids, ids[k]) \in Orders(Rows[s])
        /\ Len(Without(ids, ids[k])) = Len(ids) - 1
        /\ \A i \in 1..(Len(ids) - 1) : Without(ids, ids[k])[i] = IF i < k THEN ids[i] ELSE ids[i + 1]
        /\ ~Contains(Without(ids, ids[k]), ids[k])
    BY WithoutIs
  <2> QED BY <1>2, <2>1
<1> HIDE DEF rest
<1>4. ASSUME Placeable(rest, m), m.before # m.row PROVE Satisfied(rest, m)
  <2>1. m.row # r /\ (m.before # End => m.before # r)
    BY <1>3, <1>4 DEF Placeable
  <2>2. ASSUME NEW q, Contains(rest, q) PROVE Contains(ids, q)
    <3>1. PICK i \in 1..(n - 1) : rest[i] = q
      BY <1>1, <1>3, <2>2 DEF Contains
    <3>2. i \in 1..n /\ i + 1 \in 1..n
      BY <1>1, <3>1
    <3> QED BY <1>3, <3>1, <3>2 DEF Contains
  <2>3. Placeable(ids, m)
    BY <1>4, <2>2 DEF Placeable
  <2>4. PICK x \in 1..n :
          /\ ids[x] = m.row
          /\ IF m.before = End THEN x = n ELSE x + 1 \in 1..n /\ ids[x + 1] = m.before
    BY <1>4, <2>3, SatisfiedIs
  <2>5. x # k /\ (m.before # End => x + 1 # k)
    BY <1>2, <2>1, <2>4
  <2> DEFINE z == IF x < k THEN x ELSE x - 1
  <2>6. z \in 1..(n - 1) /\ rest[z] = m.row
    <3>1. CASE x < k
      BY <1>1, <1>3, <2>4, <3>1
    <3>2. CASE x > k
      <4>1. x - 1 \in 1..(n - 1) /\ ~(x - 1 < k) /\ (x - 1) + 1 = x
        BY <1>1, <3>2
      <4> QED BY <1>3, <2>4, <3>2, <4>1
    <3> QED BY <2>5, <3>1, <3>2
  <2>7. IF m.before = End THEN z = n - 1 ELSE z + 1 \in 1..(n - 1) /\ rest[z + 1] = m.before
    <3>1. CASE m.before = End
      BY <1>1, <2>4, <2>5, <3>1
    <3>2. CASE m.before # End /\ x < k
      <4>1. x + 1 < k /\ x + 1 \in 1..(n - 1)
        BY <1>1, <2>4, <2>5, <3>2
      <4> QED BY <1>3, <2>4, <3>2, <4>1
    <3>3. CASE m.before # End /\ x > k
      <4>1. z + 1 = x /\ x \in 1..(n - 1) /\ ~(x < k)
        BY <1>1, <2>4, <3>3
      <4> QED BY <1>3, <2>4, <3>3, <4>1
    <3> QED BY <2>5, <3>1, <3>2, <3>3
  <2> HIDE DEF z
  <2> QED BY <1>3, <1>4, <2>6, <2>7, SatisfiedIs
<1>5. Satisfied(rest, m)
  BY <1>4, MoveNothing DEF Satisfied
<1> QED BY <1>3, <1>5 DEF rest

\* A row that comes comes last.
LEMMA AppendKeeps ==
  ASSUME NEW S, NEW ids \in Orders(S), NEW r \in S \ Range(ids)
  PROVE  Append(ids, r) \in Orders(S)
<1>1. ids \in Seq(S) /\ Len(ids) \in Nat /\ \A i, j \in 1..Len(ids) : ids[i] = ids[j] => i = j
  BY InjectiveIs DEF Orders
<1>2. \A i \in 1..Len(ids) : ids[i] # r
  BY <1>1 DEF Range
<1>3. /\ Append(ids, r) \in Seq(S) /\ Len(Append(ids, r)) = Len(ids) + 1
      /\ \A i \in 1..(Len(ids) + 1) : Append(ids, r)[i] = IF i = Len(ids) + 1 THEN r ELSE ids[i]
  BY <1>1
<1>4. \A i, j \in 1..(Len(ids) + 1) : Append(ids, r)[i] = Append(ids, r)[j] => i = j
  BY <1>1, <1>2, <1>3
<1> QED BY <1>3, <1>4, InjectiveIs DEF Orders

-----------------------------------------------------------------------------
(* The replay. *)

\* What the reads bring: an order for each list.
Data == {d \in [Scopes -> UNION {Orders(Rows[s]) : s \in Scopes}] :
           \A s \in Scopes : d[s] \in Orders(Rows[s])}
AllMoves == UNION {Moves(s) : s \in Scopes}

LEMMA DataIs ==
  ASSUME NEW d
  PROVE  d \in Data <=> d = [s \in Scopes |-> d[s]] /\ \A s \in Scopes : d[s] \in Orders(Rows[s])
<1>1. ASSUME \A s \in Scopes : d[s] \in Orders(Rows[s]), d = [s \in Scopes |-> d[s]] PROVE d \in Data
  <2>1. \A s \in Scopes : d[s] \in UNION {Orders(Rows[t]) : t \in Scopes}
    BY <1>1
  <2> QED BY <1>1, <2>1 DEF Data
<1> QED BY <1>1 DEF Data

LEMMA ApplyIs ==
  ASSUME NEW d \in Data, NEW m \in AllMoves
  PROVE  /\ applyRailMove(d, m) \in Data
         /\ \A s \in Scopes : applyRailMove(d, m)[s] = IF m.scope = s THEN moveBefore(d[s], m) ELSE d[s]
<1>1. PICK s \in Scopes : m \in Moves(s)
  BY DEF AllMoves
<1>2. m.scope = s
  BY <1>1 DEF Moves
<1> DEFINE e == applyRailMove(d, m)
<1>3. /\ d = [t \in Scopes |-> d[t]] /\ \A t \in Scopes : d[t] \in Orders(Rows[t])
  BY DataIs
<1>4. e = [t \in Scopes |-> IF s = t THEN moveBefore(d[t], m) ELSE d[t]]
  BY <1>2, <1>3 DEF applyRailMove
<1>5. moveBefore(d[s], m) \in Orders(Rows[s])
  BY <1>1, <1>3, MoveKeeps
<1> HIDE DEF e
<1>6. \A t \in Scopes : e[t] = IF s = t THEN moveBefore(d[t], m) ELSE d[t]
  BY <1>4
<1>7. \A t \in Scopes : e[t] \in Orders(Rows[t])
  BY <1>3, <1>5, <1>6
<1>8. e = [t \in Scopes |-> e[t]]
  BY <1>4
<1>9. e \in Data
  BY <1>7, <1>8, DataIs
<1> QED BY <1>2, <1>6, <1>9 DEF e

LEMMA Least ==
  ASSUME NEW T \in SUBSET Nat, T # {}
  PROVE  \E x \in T : \A y \in T : x <= y
<1> DEFINE R == {ss \in Nat \X Nat : ss[1] < ss[2]}
<1>1. OpToRel(<, Nat) = R
  BY DEF OpToRel
<1>2. IsWellFoundedOn(R, Nat)
  BY <1>1, NatLessThanWellFounded
<1> HIDE DEF R
<1>3. PICK x \in T : \A y \in T : ~(<<y, x>> \in R)
  BY <1>2, WFMin
<1>4. ASSUME NEW y \in T PROVE x <= y
  <2>1. x \in Nat /\ y \in Nat /\ <<y, x>> \in Nat \X Nat /\ <<y, x>>[1] = y /\ <<y, x>>[2] = x
    OBVIOUS
  <2>2. ~(y < x)
    BY <1>3, <2>1 DEF R
  <2> QED BY <2>1, <2>2
<1> QED BY <1>4

\* f replays moves acc over d, from time a to time n.
Replays(f, d, a, acc, n) ==
  f = [t \in a..n |-> IF t = a THEN d
                     ELSE IF t \in DOMAIN acc THEN applyRailMove(f[t - 1], acc[t])
                     ELSE f[t - 1]]

\* There is such a function.
LEMMA ReplayExists ==
  ASSUME NEW d \in Data, NEW a \in Nat, NEW acc, \A t \in DOMAIN acc : acc[t] \in AllMoves,
         NEW n \in Nat, a <= n
  PROVE  \E f \in [a..n -> Data] : Replays(f, d, a, acc, n)
<1> DEFINE Is(f, k) == f = [t \in a..k |-> IF t = a THEN d
                                           ELSE IF t \in DOMAIN acc THEN applyRailMove(f[t - 1], acc[t])
                                           ELSE f[t - 1]]
           None == {k \in a..n : ~\E f \in [a..k -> Data] : Is(f, k)}
<1> SUFFICES ASSUME None # {} PROVE FALSE
  <2>1. n \in a..n
    OBVIOUS
  <2> QED BY <2>1 DEF Replays
<1>1. None \in SUBSET Nat
  OBVIOUS
<1>2. PICK k \in None : \A j \in None : k <= j
  <2> HIDE DEF None
  <2> QED BY <1>1, Least
<1>3. k \in a..n /\ ~\E f \in [a..k -> Data] : Is(f, k)
  OBVIOUS
<1>4. CASE k = a
  <2> DEFINE f == [t \in a..k |-> d]
  <2>1. f \in [a..k -> Data]
    OBVIOUS
  <2>2. \A t \in a..k : t = a
    BY <1>3, <1>4
  <2>3. Is(f, k)
    BY <2>2
  <2> QED BY <1>3, <2>1, <2>3
<1>5. CASE k # a
  <2>1. k - 1 \in a..n /\ k - 1 \notin None
    BY <1>1, <1>2, <1>3, <1>5
  <2>2. PICK g \in [a..(k - 1) -> Data] : Is(g, k - 1)
    BY <2>1
  <2>3. k - 1 \in a..(k - 1)
    BY <1>3, <1>5
  <2> DEFINE last == IF k \in DOMAIN acc THEN applyRailMove(g[k - 1], acc[k]) ELSE g[k - 1]
             f == [t \in a..k |-> IF t = k THEN last ELSE g[t]]
  <2>4. last \in Data
    BY <2>2, <2>3, ApplyIs
  <2> HIDE DEF last, None
  <2>5. \A t \in a..k : t = k \/ t \in a..(k - 1)
    BY <1>3
  <2>6. f \in [a..k -> Data]
    BY <2>2, <2>4, <2>5
  <2>7. ASSUME NEW t \in a..k
        PROVE  f[t] = IF t = a THEN d ELSE IF t \in DOMAIN acc THEN applyRailMove(f[t - 1], acc[t])
                      ELSE f[t - 1]
    <3>1. CASE t = k
      <4>1. f[t] = last /\ f[t - 1] = g[k - 1]
        BY <1>3, <2>3, <3>1
      <4> QED BY <1>5, <3>1, <4>1 DEF last
    <3>2. CASE t # k
      <4>1. t \in a..(k - 1) /\ f[t] = g[t]
        BY <2>5, <3>2
      <4>2. t # a => f[t - 1] = g[t - 1]
        BY <1>3, <3>2, <4>1
      <4>3. g[t] = IF t = a THEN d ELSE IF t \in DOMAIN acc THEN applyRailMove(g[t - 1], acc[t])
                   ELSE g[t - 1]
        BY <2>2, <4>1
      <4> QED BY <4>1, <4>2, <4>3
    <3> QED BY <3>1, <3>2
  <2> HIDE DEF f
  <2>8. f = [t \in a..k |-> f[t]]
    BY <2>6
  <2>9. Is(f, k)
    BY <2>7, <2>8
  <2> QED BY <1>3, <2>6, <2>9
<1> QED BY <1>4, <1>5

\* So the fold is what its definition says, and it makes of orders only orders.
LEMMA ReplayIs ==
  ASSUME read.data \in Data, read.startedAt \in Nat, clock \in Nat, read.startedAt <= clock,
         \A t \in DOMAIN accepted : accepted[t] \in AllMoves
  PROVE  /\ replayed \in [read.startedAt..clock -> Data]
         /\ replayed[read.startedAt] = read.data
         /\ \A t \in (read.startedAt + 1)..clock :
              replayed[t] = IF t \in DOMAIN accepted THEN applyRailMove(replayed[t - 1], accepted[t])
                            ELSE replayed[t - 1]
<1> DEFINE a == read.startedAt
           Is(f) == f = [t \in a..clock |-> IF t = a THEN read.data
                                 ELSE IF t \in DOMAIN accepted THEN applyRailMove(f[t - 1], accepted[t])
                                 ELSE f[t - 1]]
<1>1. PICK g \in [a..clock -> Data] : Is(g)
  <2>1. \E g \in [a..clock -> Data] : Replays(g, read.data, a, accepted, clock)
    <3> HIDE DEF Is
    <3> QED BY ReplayExists
  <2> QED BY <2>1 DEF Replays
<1>2. replayed = CHOOSE f : Is(f)
  BY DEF replayed
<1>3. Is(replayed)
  <2> HIDE DEF Is
  <2> QED BY <1>1, <1>2
<1> DEFINE None == {t \in a..clock : replayed[t] \notin Data}
<1>4. None = {}
  <2> SUFFICES ASSUME None # {} PROVE FALSE
    OBVIOUS
  <2>1. None \in SUBSET Nat
    OBVIOUS
  <2>2. PICK t \in None : \A u \in None : t <= u
    <3> HIDE DEF None
    <3> QED BY <2>1, Least
  <2>3. replayed[t] = IF t = a THEN read.data
                      ELSE IF t \in DOMAIN accepted THEN applyRailMove(replayed[t - 1], accepted[t])
                      ELSE replayed[t - 1]
    BY <1>3
  <2>4. t # a
    BY <2>3
  <2>5. replayed[t - 1] \in Data
    <3>1. t - 1 \in a..clock /\ ~(t <= t - 1)
      BY <2>4
    <3> QED BY <2>2, <3>1
  <2>6. replayed[t] \in Data
    BY <2>3, <2>4, <2>5, ApplyIs
  <2> QED BY <2>6
<1>5. DOMAIN replayed = a..clock /\ replayed = [t \in a..clock |-> replayed[t]]
  BY <1>3
<1>6. replayed \in [a..clock -> Data]
  <2> HIDE DEF Is
  <2> QED BY <1>4, <1>5
<1>7. a \in a..clock /\ \A t \in (a + 1)..clock : t \in a..clock /\ t # a
  OBVIOUS
<1> HIDE DEF None
<1> QED BY <1>3, <1>6, <1>7

\* A list in which nothing was accepted later is as it was then.
LEMMA ReplayRests ==
  ASSUME read.data \in Data, read.startedAt \in Nat, clock \in Nat, read.startedAt <= clock,
         \A t \in DOMAIN accepted : accepted[t] \in AllMoves,
         NEW s \in Scopes, NEW u \in read.startedAt..clock,
         \A t \in DOMAIN accepted : t > u => accepted[t].scope # s
  PROVE  replayed[clock][s] = replayed[u][s]
<1> DEFINE Off == {t \in u..clock : replayed[t][s] # replayed[u][s]}
<1> SUFFICES ASSUME Off # {} PROVE FALSE
  <2>1. clock \in u..clock
    OBVIOUS
  <2> QED BY <2>1
<1>1. Off \in SUBSET Nat
  OBVIOUS
<1>2. PICK t \in Off : \A v \in Off : t <= v
  <2> HIDE DEF Off
  <2> QED BY <1>1, Least
<1>3. t \in (read.startedAt + 1)..clock /\ t > u /\ t - 1 \in u..clock /\ ~(t <= t - 1)
      /\ t - 1 \in read.startedAt..clock
  <2>1. t # u
    OBVIOUS
  <2> QED BY <2>1
<1>4. replayed[t - 1][s] = replayed[u][s] /\ replayed[t][s] # replayed[u][s]
  BY <1>2, <1>3
<1>5. /\ replayed[t - 1] \in Data
      /\ replayed[t] = IF t \in DOMAIN accepted THEN applyRailMove(replayed[t - 1], accepted[t])
                       ELSE replayed[t - 1]
  BY <1>3, ReplayIs
<1> HIDE DEF Off
<1>6. t \in DOMAIN accepted => applyRailMove(replayed[t - 1], accepted[t])[s] = replayed[t - 1][s]
  BY <1>3, <1>5, ApplyIs
<1> QED BY <1>4, <1>5, <1>6

-----------------------------------------------------------------------------
(* The invariant. *)

Sent(s)    == [status : {"pending"}, move : Moves(s), write : {"sent", "moved", "anchor gone", "row gone"}]
Entries(s) == {Clear, Failed} \union Sent(s)

Typed ==
  /\ order \in Data
  /\ read \in [data : Data, startedAt : Nat, ok : BOOLEAN]
  /\ flight \in [begun : BOOLEAN, startedAt : Nat, data : Data \union {NotYet}]
  /\ waiting \in BOOLEAN /\ dirty \in BOOLEAN
  /\ entry = [s \in Scopes |-> entry[s]] /\ \A s \in Scopes : entry[s] \in Entries(s)
  /\ kept = [s \in Scopes |-> kept[s]] /\ \A s \in Scopes : kept[s] \in Moves(s) \union {NoMove}
  /\ clock \in Nat /\ steps \in Nat
  /\ DOMAIN accepted \subseteq 1..clock
  /\ \A t \in DOMAIN accepted : accepted[t] \in AllMoves

\* The read in flight began after the one that is held, and nobody retires moves younger than that.
Timed ==
  /\ read.startedAt <= clock /\ flight.startedAt <= clock
  /\ retiring \subseteq 0..read.startedAt
  /\ flight.begun => read.startedAt <= flight.startedAt
  /\ waiting => flight.begun
  /\ flight.data # NotYet => flight.begun

\* Every acceptance was a drop.
Awaiting == {s \in Scopes : Pending(s)}
Counted  == /\ IsFiniteSet(Awaiting) /\ clock + Cardinality(Awaiting) <= steps
            /\ steps <= MaxSteps

\* When no list awaits an answer, the read that is in flight or held began after the last change.
Current ==
  (\A s \in Scopes : ~Pending(s)) /\ ~dirty
    => IF flight.begun THEN flight.startedAt = clock /\ flight.data \in {NotYet, order}
       ELSE read.ok => read.data = order /\ read.startedAt = clock

\* The runtime's order has the move it made last; the client may not have been told of that yet.
Moved(s) == Pending(s) /\ entry[s].write = "moved"
Standing ==
  \A s \in Scopes : kept[s] # NoMove =>
    Satisfied(order[s], kept[s]) /\ (Moved(s) => kept[s] = entry[s].move)

\* The client has the move of list s that it accepted at time t, and accepted none there since: an
\* older read has it replayed, a younger one contains it, as does the answer to the one in flight.
Has(s, t) ==
  /\ \A u \in DOMAIN accepted : u > t => accepted[u].scope # s
  /\ IF read.startedAt < t THEN t \in DOMAIN accepted /\ accepted[t] = kept[s]
     ELSE Satisfied(read.data[s], kept[s])
  /\ (flight.data # NotYet /\ t <= flight.startedAt) => Satisfied(flight.data[s], kept[s])
Lasting == \A s \in Scopes : kept[s] # NoMove /\ ~Moved(s) => \E t \in 1..clock : Has(s, t)

RailInv == Typed /\ Timed /\ Counted /\ Current /\ Standing /\ Lasting

LEMMA EntryIs ==
  ASSUME NEW s, NEW e \in Entries(s)
  PROVE  /\ e.status \in {"clear", "pending", "failed"}
         /\ e.status = "pending" => e \in Sent(s) /\ e.move \in Moves(s)
         /\ (e.status = "pending") <=> e.write \in {"sent", "moved", "anchor gone", "row gone"}
         /\ e.status # "pending" => e \in {Clear, Failed} /\ e.write = "none"
<1>1. CASE e = Clear \/ e = Failed
  <2>1. e.status \in {"clear", "failed"} /\ e.write = "none"
    BY <1>1 DEF Clear, Failed
  <2> QED BY <1>1, <2>1
<1>2. CASE e \in Sent(s)
  <2>1. /\ e.status = "pending" /\ e.move \in Moves(s)
        /\ e.write \in {"sent", "moved", "anchor gone", "row gone"}
    BY <1>2 DEF Sent
  <2> QED BY <1>2, <2>1
<1> QED BY <1>1, <1>2 DEF Entries

LEMMA NoMoveIsNone ==
  ASSUME NEW s \in Scopes
  PROVE  NoMove \notin Moves(s)
BY DEF NoMove, Moves

\* One list of the whole is replaced.
LEMMA PutIs ==
  ASSUME NEW f, f = [t \in Scopes |-> f[t]], NEW s \in Scopes, NEW e,
         NEW g, g = [f EXCEPT ![s] = e]
  PROVE  g = [t \in Scopes |-> g[t]] /\ \A t \in Scopes : g[t] = IF t = s THEN e ELSE f[t]
<1>1. g = [t \in Scopes |-> IF t = s THEN e ELSE f[t]]
  OBVIOUS
<1> QED BY <1>1

LEMMA RailInit == Init => RailInv
<1> SUFFICES ASSUME Init PROVE RailInv
  OBVIOUS
<1>1. order \in Data
  <2>1. order = [s \in Scopes |-> order[s]] /\ \A s \in Scopes : order[s] \in SetToSeqs(Rows[s])
    BY DEF Init
  <2>2. ASSUME NEW s \in Scopes PROVE order[s] \in Orders(Rows[s])
    <3> DEFINE n == Cardinality(Rows[s])
    <3>1. n \in Nat
      BY FS_CardinalityType
    <3>2. order[s] \in [1..n -> Rows[s]] /\ \A i, j \in 1..n : i # j => order[s][i] # order[s][j]
      BY <2>1 DEF SetToSeqs
    <3> HIDE DEF n
    <3>3. order[s] \in Seq(Rows[s])
      BY <3>1, <3>2, SeqDef
    <3> QED BY <3>2, <3>3 DEF Orders, IsInjective
  <2> QED BY <2>1, <2>2, DataIs
<1>2. Typed
  <2>1. \A s \in Scopes : entry[s] \in Entries(s) /\ kept[s] \in Moves(s) \union {NoMove}
    BY DEF Init, Entries
  <2> QED BY <1>1, <2>1 DEF Init, Typed, NoFlight
<1>3. \A s \in Scopes : ~Pending(s)
  BY DEF Init, Pending, Clear
<1>4. Timed
  BY DEF Init, Timed, NoFlight
<1>5. Counted
  <2>1. Awaiting = {}
    BY <1>3 DEF Awaiting
  <2>2. IsFiniteSet(Awaiting) /\ Cardinality(Awaiting) = 0
    BY <2>1, FS_EmptySet
  <2> QED BY <2>2 DEF Init, Counted
<1>6. Current
  BY DEF Init, Current, NoFlight
<1>7. Standing /\ Lasting
  BY DEF Init, Standing, Lasting
<1> QED BY <1>2, <1>4, <1>5, <1>6, <1>7 DEF RailInv

-----------------------------------------------------------------------------
(* The steps. *)

LEMMA ClaimKeeps ==
  ASSUME RailInv, NEW s \in Scopes, claim(s)
  PROVE  RailInv'
<1>1. PICK m \in Moves(s) : entry' = [entry EXCEPT ![s] = [status |-> "pending", move |-> m, write |-> "sent"]]
  BY DEF claim
<1>2. /\ ~Pending(s) /\ steps < MaxSteps /\ steps' = steps + 1
      /\ UNCHANGED <<order, reads, accepted, clock, dirty, kept>>
  BY DEF claim
<1> USE DEF reads
<1>3. /\ entry' = [t \in Scopes |-> entry'[t]]
      /\ \A t \in Scopes : entry'[t] = IF t = s THEN [status |-> "pending", move |-> m, write |-> "sent"]
                                       ELSE entry[t]
  BY <1>1, PutIs DEF RailInv, Typed
<1>4. Pending(s)' /\ ~Moved(s)' /\ \A t \in Scopes \ {s} : Pending(t)' = Pending(t) /\ Moved(t)' = Moved(t)
  BY <1>3 DEF Pending, Moved
<1>5. Typed'
  <2>1. entry'[s] \in Sent(s)
    <3>1. [status |-> "pending", move |-> m, write |-> "sent"] \in Sent(s)
      BY DEF Sent
    <3> QED BY <1>3, <3>1
  <2>2. \A t \in Scopes : entry'[t] \in Entries(t)
    BY <1>3, <2>1 DEF RailInv, Typed, Entries
  <2> QED BY <1>2, <1>3, <2>2 DEF RailInv, Typed
<1>6. Timed'
  BY <1>2 DEF RailInv, Timed
<1>7. Counted'
  <2>1. Awaiting' = Awaiting \union {s} /\ s \notin Awaiting
    BY <1>2, <1>4 DEF Awaiting
  <2>2. IsFiniteSet(Awaiting') /\ Cardinality(Awaiting') = Cardinality(Awaiting) + 1
    BY <2>1, FS_AddElement DEF RailInv, Counted
  <2>3. Cardinality(Awaiting) \in Nat /\ clock \in Nat /\ steps \in Nat /\ MaxSteps \in Nat
    BY FS_CardinalityType DEF RailInv, Typed, Counted
  <2> QED BY <1>2, <2>2, <2>3 DEF RailInv, Counted
<1>8. Current'
  BY <1>4 DEF Current
<1>9. Standing'
  BY <1>2, <1>3, <1>4 DEF RailInv, Standing
<1>10. Lasting'
  <2>1. \A t \in Scopes : Moved(t)' => Moved(t)
    BY <1>4
  <2>2. \A t \in Scopes : ~Moved(s)
    BY <1>2 DEF Moved
  <2>3. \A t \in Scopes : \A u : Has(t, u)' = Has(t, u)
    BY <1>2 DEF Has
  <2> QED BY <1>2, <1>4, <2>2, <2>3 DEF RailInv, Lasting
<1> QED BY <1>5, <1>6, <1>7, <1>8, <1>9, <1>10 DEF RailInv

LEMMA RuntimeMovesKeeps ==
  ASSUME RailInv, NEW s \in Scopes, RuntimeMoves(s)
  PROVE  RailInv'
<1> DEFINE m == entry[s].move
           w == IF Placeable(order[s], m) THEN "moved"
                ELSE IF Contains(order[s], m.row) THEN "anchor gone" ELSE "row gone"
<1>1. /\ entry[s].write = "sent"
      /\ entry' = [entry EXCEPT ![s].write = w]
      /\ order' = [order EXCEPT ![s] = moveBefore(order[s], m)]
      /\ kept' = [kept EXCEPT ![s] = IF Placeable(order[s], m) THEN m ELSE kept[s]]
      /\ UNCHANGED <<read, flight, waiting, retiring, accepted, clock, dirty, steps>>
  BY DEF RuntimeMoves, reads
<1>2. entry[s] \in Sent(s) /\ m \in Moves(s) /\ Pending(s) /\ ~Moved(s)
  <2>1. entry[s] \in Entries(s)
    BY DEF RailInv, Typed
  <2> QED BY <1>1, <2>1, EntryIs DEF Pending, Moved
<1>3. w \in {"moved", "anchor gone", "row gone"} /\ (w = "moved" <=> Placeable(order[s], m))
  OBVIOUS
<1> HIDE DEF w
<1>4. /\ entry' = [t \in Scopes |-> entry'[t]]
      /\ \A t \in Scopes : entry'[t] = IF t = s THEN [entry[s] EXCEPT !.write = w] ELSE entry[t]
  <2>1. entry' = [entry EXCEPT ![s] = [entry[s] EXCEPT !.write = w]]
    BY <1>1
  <2> QED BY <2>1, PutIs DEF RailInv, Typed
<1>5. entry'[s] \in Sent(s) /\ entry'[s].status = "pending" /\ entry'[s].write = w /\ entry'[s].move = m
  <2>1. entry'[s] = [entry[s] EXCEPT !.write = w]
    BY <1>4
  <2> QED BY <1>2, <1>3, <2>1 DEF Sent
<1>6. Pending(s)' /\ (Moved(s)' <=> w = "moved")
  BY <1>5 DEF Pending, Moved
<1>7. \A t \in Scopes \ {s} : Pending(t)' = Pending(t) /\ Moved(t)' = Moved(t)
  BY <1>4 DEF Pending, Moved
<1>8. /\ order' = [t \in Scopes |-> order'[t]]
      /\ \A t \in Scopes : order'[t] = IF t = s THEN moveBefore(order[s], m) ELSE order[t]
  <2>1. order = [t \in Scopes |-> order[t]]
    BY DataIs DEF RailInv, Typed
  <2> QED BY <1>1, <2>1, PutIs
<1>9. \A t \in Scopes : order[t] \in Orders(Rows[t])
  BY DataIs DEF RailInv, Typed
<1>10. /\ kept' = [t \in Scopes |-> kept'[t]]
       /\ \A t \in Scopes : kept'[t] = IF t = s /\ w = "moved" THEN m ELSE kept[t]
  <2>1. /\ kept' = [t \in Scopes |-> kept'[t]]
        /\ \A t \in Scopes : kept'[t] = IF t = s THEN IF Placeable(order[s], m) THEN m ELSE kept[s] ELSE kept[t]
    BY <1>1, PutIs DEF RailInv, Typed
  <2> QED BY <1>3, <2>1
<1> HIDE DEF m
<1>11. Typed'
  <2>1. order' \in Data
    <3>1. moveBefore(order[s], m) \in Orders(Rows[s])
      BY <1>2, <1>9, MoveKeeps
    <3>2. \A t \in Scopes : order'[t] \in Orders(Rows[t])
      BY <1>8, <1>9, <3>1
    <3> QED BY <1>8, <3>2, DataIs
  <2>2. \A t \in Scopes : entry'[t] \in Entries(t)
    BY <1>4, <1>5 DEF RailInv, Typed, Entries
  <2>3. \A t \in Scopes : kept'[t] \in Moves(t) \union {NoMove}
    BY <1>2, <1>10 DEF RailInv, Typed
  <2> QED BY <1>1, <1>4, <1>10, <2>1, <2>2, <2>3 DEF RailInv, Typed
<1>12. Timed'
  BY <1>1 DEF RailInv, Timed
<1>13. Counted'
  <2>1. Awaiting' = Awaiting
    BY <1>2, <1>6, <1>7 DEF Awaiting
  <2> QED BY <1>1, <2>1 DEF RailInv, Counted
<1>14. Current'
  BY <1>6 DEF Current
<1>15. Standing'
  <2> SUFFICES ASSUME NEW t \in Scopes, kept'[t] # NoMove
               PROVE  Satisfied(order'[t], kept'[t]) /\ (Moved(t)' => kept'[t] = entry'[t].move)
    BY DEF Standing
  <2>1. CASE t # s
    BY <1>4, <1>7, <1>8, <1>10, <2>1 DEF RailInv, Standing
  <2>2. CASE t = s /\ w = "moved"
    <3>1. Satisfied(moveBefore(order[s], m), m)
      BY <1>2, <1>9, MoveOnce
    <3> QED BY <1>5, <1>8, <1>10, <2>2, <3>1
  <2>3. CASE t = s /\ w # "moved"
    <3>1. moveBefore(order[s], m) = order[s]
      BY <1>3, <2>3, MoveNothing
    <3>2. Satisfied(order[s], kept[s])
      BY <1>10, <2>3 DEF RailInv, Standing
    <3> QED BY <1>6, <1>8, <1>10, <2>3, <3>1, <3>2
  <2> QED BY <2>1, <2>2, <2>3
<1>16. Lasting'
  <2> SUFFICES ASSUME NEW t \in Scopes, kept'[t] # NoMove, ~Moved(t)'
               PROVE  \E u \in 1..clock' : Has(t, u)'
    BY DEF Lasting
  <2>1. kept'[t] = kept[t] /\ ~Moved(t)
    BY <1>2, <1>6, <1>7, <1>10
  <2>2. PICK u \in 1..clock : Has(t, u)
    BY <2>1 DEF RailInv, Lasting
  <2>3. Has(t, u)'
    BY <1>1, <2>1, <2>2 DEF Has
  <2> QED BY <1>1, <2>2, <2>3
<1> QED BY <1>11, <1>12, <1>13, <1>14, <1>15, <1>16 DEF RailInv

\* What the end of a commit does to the reads: either some list still awaits an answer, or a read
\* begins now.
LEMMA SettledIs ==
  ASSUME RailInv, NEW s \in Scopes, Pending(s), refreshWhenAllSettled(s),
         clock' \in Nat, clock <= clock',
         NEW e \in {Clear, Failed}, entry' = [entry EXCEPT ![s] = e]
  PROVE  /\ read' = read /\ retiring' = retiring
         /\ flight' \in [begun : BOOLEAN, startedAt : Nat, data : Data \union {NotYet}]
         /\ waiting' \in BOOLEAN /\ dirty' \in BOOLEAN
         /\ flight'.data = NotYet \/ flight' = flight
         /\ entry' = [t \in Scopes |-> entry'[t]]
         /\ \A t \in Scopes : entry'[t] = IF t = s THEN e ELSE entry[t]
         /\ \A t \in Scopes : entry'[t] \in Entries(t)
         /\ ~Pending(s)' /\ ~Moved(s)'
         /\ \A t \in Scopes \ {s} : Pending(t)' = Pending(t) /\ Moved(t)' = Moved(t)
         /\ IsFiniteSet(Awaiting') /\ Cardinality(Awaiting') + 1 = Cardinality(Awaiting)
         /\ Cardinality(Awaiting) \in Nat /\ Cardinality(Awaiting') \in Nat
         /\ Timed' /\ Current'
<1>1. read' = read /\ retiring' = retiring
  BY DEF refreshWhenAllSettled
<1>2. /\ entry' = [t \in Scopes |-> entry'[t]]
      /\ \A t \in Scopes : entry'[t] = IF t = s THEN e ELSE entry[t]
  BY PutIs DEF RailInv, Typed
<1>3. \A t \in Scopes : entry'[t] \in Entries(t)
  BY <1>2 DEF RailInv, Typed, Entries
<1>4. e.status # "pending" /\ e.write = "none"
  BY DEF Clear, Failed
<1>5. ~Pending(s)' /\ ~Moved(s)'
  BY <1>2, <1>4 DEF Pending, Moved
<1>6. \A t \in Scopes \ {s} : Pending(t)' = Pending(t) /\ Moved(t)' = Moved(t)
  BY <1>2 DEF Pending, Moved
<1>7. IsFiniteSet(Awaiting') /\ Cardinality(Awaiting') + 1 = Cardinality(Awaiting)
      /\ Cardinality(Awaiting) \in Nat /\ Cardinality(Awaiting') \in Nat
  <2>1. Awaiting' = Awaiting \ {s} /\ s \in Awaiting
    BY <1>5, <1>6 DEF Awaiting
  <2>2. IsFiniteSet(Awaiting') /\ Cardinality(Awaiting') = Cardinality(Awaiting) - 1
    BY <2>1, FS_RemoveElement DEF RailInv, Counted
  <2>3. Cardinality(Awaiting) \in Nat /\ Cardinality(Awaiting') \in Nat
    BY <2>2, FS_CardinalityType DEF RailInv, Counted
  <2> QED BY <2>2, <2>3
<1>8. CASE \E t \in Scopes \ {s} : Pending(t)
  <2>1. UNCHANGED <<flight, waiting, dirty>>
    BY <1>8 DEF refreshWhenAllSettled
  <2>2. \E t \in Scopes : Pending(t)'
    BY <1>6, <1>8
  <2>3. Current'
    BY <2>2 DEF Current
  <2>4. Timed'
    BY <1>1, <2>1 DEF RailInv, Typed, Timed
  <2>5. /\ flight' \in [begun : BOOLEAN, startedAt : Nat, data : Data \union {NotYet}]
        /\ waiting' \in BOOLEAN /\ dirty' \in BOOLEAN
    BY <2>1 DEF RailInv, Typed
  <2> QED BY <1>1, <1>2, <1>3, <1>5, <1>6, <1>7, <2>1, <2>3, <2>4, <2>5
<1>9. CASE ~\E t \in Scopes \ {s} : Pending(t)
  <2>1. flight' = Fresh(clock') /\ waiting' = TRUE /\ dirty' = FALSE
    BY <1>9 DEF refreshWhenAllSettled
  <2>2. flight'.begun /\ flight'.startedAt = clock' /\ flight'.data = NotYet
        /\ flight' \in [begun : BOOLEAN, startedAt : Nat, data : Data \union {NotYet}]
    BY <2>1 DEF Fresh
  <2>3. Current'
    BY <2>2 DEF Current
  <2>4. Timed'
    BY <1>1, <2>1, <2>2 DEF RailInv, Typed, Timed
  <2> QED BY <1>1, <1>2, <1>3, <1>5, <1>6, <1>7, <2>1, <2>2, <2>3, <2>4
<1> QED BY <1>8, <1>9

LEMMA AcceptedKeeps ==
  ASSUME RailInv, NEW s \in Scopes, Accepted(s)
  PROVE  RailInv'
<1> DEFINE m == entry[s].move
<1>1. /\ entry[s].write = "moved" /\ clock' = clock + 1
      /\ entry' = [entry EXCEPT ![s] = Clear]
      /\ accepted' = [t \in DOMAIN accepted \union {clock'} |-> IF t = clock' THEN m ELSE accepted[t]]
      /\ refreshWhenAllSettled(s)
      /\ UNCHANGED <<order, steps, kept>>
  BY DEF Accepted
<1>2. m \in Moves(s) /\ Pending(s) /\ Moved(s) /\ m.scope = s
  <2>1. entry[s] \in Entries(s)
    BY DEF RailInv, Typed
  <2>2. m \in Moves(s) /\ Pending(s) /\ Moved(s)
    BY <1>1, <2>1, EntryIs DEF Pending, Moved
  <2> QED BY <2>2 DEF Moves
<1> HIDE DEF m
<1>3. clock \in Nat /\ clock' \in Nat /\ clock <= clock' /\ DOMAIN accepted \subseteq 1..clock
      /\ read.startedAt \in Nat /\ read.startedAt <= clock /\ steps \in Nat
      /\ flight.startedAt \in Nat /\ flight.startedAt <= clock
  BY <1>1 DEF RailInv, Typed, Timed
<1>4. /\ read' = read /\ retiring' = retiring
      /\ flight' \in [begun : BOOLEAN, startedAt : Nat, data : Data \union {NotYet}]
      /\ waiting' \in BOOLEAN /\ dirty' \in BOOLEAN
      /\ flight'.data = NotYet \/ flight' = flight
      /\ entry' = [t \in Scopes |-> entry'[t]]
      /\ \A t \in Scopes : entry'[t] \in Entries(t)
      /\ ~Moved(s)'
      /\ \A t \in Scopes \ {s} : Moved(t)' = Moved(t)
      /\ \A t \in Scopes \ {s} : entry'[t] = entry[t]
      /\ IsFiniteSet(Awaiting') /\ Cardinality(Awaiting') + 1 = Cardinality(Awaiting)
      /\ Cardinality(Awaiting) \in Nat /\ Cardinality(Awaiting') \in Nat
      /\ Timed' /\ Current'
  <2>1. Clear \in {Clear, Failed}
    OBVIOUS
  <2> QED BY <1>1, <1>2, <1>3, <2>1, SettledIs
<1>5. /\ DOMAIN accepted' = DOMAIN accepted \union {clock'} /\ accepted'[clock'] = m
      /\ \A t \in DOMAIN accepted : accepted'[t] = accepted[t]
  <2>1. \A t \in DOMAIN accepted : t # clock'
    BY <1>1, <1>3
  <2> QED BY <1>1, <2>1
<1>6. Typed'
  <2>1. DOMAIN accepted' \subseteq 1..clock'
    BY <1>1, <1>3, <1>5
  <2>2. \A t \in DOMAIN accepted' : accepted'[t] \in AllMoves
    BY <1>2, <1>5 DEF RailInv, Typed, AllMoves
  <2> QED BY <1>1, <1>3, <1>4, <2>1, <2>2 DEF RailInv, Typed
<1>7. Counted'
  BY <1>1, <1>3, <1>4 DEF RailInv, Counted
<1>8. Standing'
  BY <1>1, <1>4 DEF RailInv, Standing
<1>9. Lasting'
  <2> SUFFICES ASSUME NEW t \in Scopes, kept'[t] # NoMove, ~Moved(t)'
               PROVE  \E u \in 1..clock' : Has(t, u)'
    BY DEF Lasting
  <2>1. CASE t = s
    <3>1. kept[s] = m
      BY <1>1, <1>2, <2>1 DEF RailInv, Standing, m
    <3> PICK u \in Nat : u = clock + 1
      BY <1>3
    <3>2. \A v \in DOMAIN accepted' : ~(v > u)
      BY <1>1, <1>3, <1>5
    <3>3. read'.startedAt < u /\ u \in DOMAIN accepted' /\ accepted'[u] = kept'[t]
      BY <1>1, <1>3, <1>4, <1>5, <2>1, <3>1
    <3>4. ~(flight'.data # NotYet /\ u <= flight'.startedAt)
      BY <1>1, <1>3, <1>4
    <3>5. Has(t, u)'
      BY <3>2, <3>3, <3>4 DEF Has
    <3>6. u \in 1..clock'
      BY <1>1, <1>3
    <3> QED BY <3>5, <3>6
  <2>2. CASE t # s
    <3>1. PICK u \in 1..clock : Has(t, u)
      BY <1>1, <1>4, <2>2 DEF RailInv, Lasting
    <3>2. \A v \in DOMAIN accepted' : v > u => accepted'[v].scope # t
      BY <1>2, <1>5, <2>2, <3>1 DEF Has
    <3>3. IF read'.startedAt < u THEN u \in DOMAIN accepted' /\ accepted'[u] = kept'[t]
          ELSE Satisfied(read'.data[t], kept'[t])
      BY <1>1, <1>4, <1>5, <3>1 DEF Has
    <3>4. (flight'.data # NotYet /\ u <= flight'.startedAt) => Satisfied(flight'.data[t], kept'[t])
      BY <1>1, <1>4, <3>1 DEF Has
    <3>5. Has(t, u)'
      BY <3>2, <3>3, <3>4 DEF Has
    <3>6. u \in 1..clock'
      BY <1>1, <1>3
    <3> QED BY <3>5, <3>6
  <2> QED BY <2>1, <2>2
<1> QED BY <1>4, <1>6, <1>7, <1>8, <1>9 DEF RailInv

LEMMA RollBackKeeps ==
  ASSUME RailInv, NEW s \in Scopes, rollBackAndReport(s)
  PROVE  RailInv'
<1>1. PICK e \in {Clear, Failed} : entry' = [entry EXCEPT ![s] = e]
  BY DEF rollBackAndReport
<1>2. /\ Pending(s) /\ refreshWhenAllSettled(s)
      /\ kept' = [kept EXCEPT ![s] = IF entry[s].write = "moved" THEN NoMove ELSE kept[s]]
      /\ UNCHANGED <<order, accepted, clock, steps>>
  BY DEF rollBackAndReport
<1>3. clock' \in Nat /\ clock <= clock' /\ clock \in Nat /\ steps \in Nat
  BY <1>2 DEF RailInv, Typed
<1>4. /\ read' = read /\ retiring' = retiring
      /\ flight' \in [begun : BOOLEAN, startedAt : Nat, data : Data \union {NotYet}]
      /\ waiting' \in BOOLEAN /\ dirty' \in BOOLEAN
      /\ flight'.data = NotYet \/ flight' = flight
      /\ entry' = [t \in Scopes |-> entry'[t]]
      /\ \A t \in Scopes : entry'[t] \in Entries(t)
      /\ ~Moved(s)'
      /\ \A t \in Scopes \ {s} : Moved(t)' = Moved(t)
      /\ \A t \in Scopes \ {s} : entry'[t] = entry[t]
      /\ IsFiniteSet(Awaiting') /\ Cardinality(Awaiting') + 1 = Cardinality(Awaiting)
      /\ Cardinality(Awaiting) \in Nat /\ Cardinality(Awaiting') \in Nat
      /\ Timed' /\ Current'
  BY <1>1, <1>2, <1>3, SettledIs
<1>5. /\ kept' = [t \in Scopes |-> kept'[t]]
      /\ \A t \in Scopes : kept'[t] = IF t = s THEN IF entry[s].write = "moved" THEN NoMove ELSE kept[s]
                                      ELSE kept[t]
  BY <1>2, PutIs DEF RailInv, Typed
<1>6. ASSUME NEW t \in Scopes, kept'[t] # NoMove, ~Moved(t)'
      PROVE  kept'[t] = kept[t] /\ ~Moved(t)
  BY <1>2, <1>4, <1>5, <1>6 DEF Moved
<1>7. Typed'
  <2>1. \A t \in Scopes : kept'[t] \in Moves(t) \union {NoMove}
    BY <1>5 DEF RailInv, Typed
  <2> QED BY <1>2, <1>4, <1>5, <2>1 DEF RailInv, Typed
<1>8. Counted'
  BY <1>2, <1>3, <1>4 DEF RailInv, Counted
<1>9. Standing'
  <2> SUFFICES ASSUME NEW t \in Scopes, kept'[t] # NoMove
               PROVE  Satisfied(order'[t], kept'[t]) /\ (Moved(t)' => kept'[t] = entry'[t].move)
    BY DEF Standing
  <2>1. kept'[t] = kept[t]
    BY <1>5
  <2>2. Satisfied(order[t], kept[t]) /\ (Moved(t) => kept[t] = entry[t].move)
    BY <2>1 DEF RailInv, Standing
  <2>3. Moved(t)' => t # s
    BY <1>4
  <2> QED BY <1>2, <1>4, <2>1, <2>2, <2>3
<1>10. Lasting'
  <2> SUFFICES ASSUME NEW t \in Scopes, kept'[t] # NoMove, ~Moved(t)'
               PROVE  \E u \in 1..clock' : Has(t, u)'
    BY DEF Lasting
  <2>1. kept'[t] = kept[t] /\ ~Moved(t)
    BY <1>6
  <2>2. PICK u \in 1..clock : Has(t, u)
    BY <2>1 DEF RailInv, Lasting
  <2>3. Has(t, u)'
    BY <1>2, <1>4, <2>1, <2>2 DEF Has
  <2> QED BY <1>2, <2>2, <2>3
<1> QED BY <1>4, <1>7, <1>8, <1>9, <1>10 DEF RailInv

LEMMA ClearFailureKeeps ==
  ASSUME RailInv, NEW s \in Scopes, clearRailOrderFailure(s)
  PROVE  RailInv'
<1>1. /\ entry[s].status = "failed" /\ entry' = [entry EXCEPT ![s] = Clear]
      /\ UNCHANGED <<order, read, flight, waiting, retiring, accepted, clock, dirty, steps, kept>>
  BY DEF clearRailOrderFailure, reads
<1>2. /\ entry' = [t \in Scopes |-> entry'[t]]
      /\ \A t \in Scopes : entry'[t] = IF t = s THEN Clear ELSE entry[t]
  BY <1>1, PutIs DEF RailInv, Typed
<1>3. ~Pending(s) /\ ~Pending(s)'
  BY <1>1, <1>2 DEF Pending, Clear
<1>4. \A t \in Scopes : Pending(t)' = Pending(t) /\ Moved(t)' = Moved(t)
  BY <1>2, <1>3 DEF Pending, Moved
<1>5. Typed'
  <2>1. \A t \in Scopes : entry'[t] \in Entries(t)
    BY <1>2 DEF RailInv, Typed, Entries
  <2> QED BY <1>1, <1>2, <2>1 DEF RailInv, Typed
<1>6. Timed'
  BY <1>1 DEF RailInv, Timed
<1>7. Counted'
  <2>1. Awaiting' = Awaiting
    BY <1>4 DEF Awaiting
  <2> QED BY <1>1, <2>1 DEF RailInv, Counted
<1>8. Current'
  BY <1>1, <1>4 DEF RailInv, Current
<1>9. Standing'
  <2>1. \A t \in Scopes : Moved(t)' => entry'[t] = entry[t]
    BY <1>2, <1>3 DEF Moved
  <2> QED BY <1>1, <1>4, <2>1 DEF RailInv, Standing
<1>10. Lasting'
  <2>1. \A t \in Scopes : \A u : Has(t, u)' = Has(t, u)
    BY <1>1 DEF Has
  <2> QED BY <1>1, <1>4, <2>1 DEF RailInv, Lasting
<1> QED BY <1>5, <1>6, <1>7, <1>8, <1>9, <1>10 DEF RailInv

\* Where neither the entries nor the orders of the runtime change, nor what it moved.
LEMMA ReadsOnly ==
  ASSUME RailInv, UNCHANGED <<order, entry, clock, steps, kept>>
  PROVE  Counted' /\ Standing' /\ \A t \in Scopes : Pending(t)' = Pending(t) /\ Moved(t)' = Moved(t)
<1>1. \A t \in Scopes : Pending(t)' = Pending(t) /\ Moved(t)' = Moved(t)
  BY DEF Pending, Moved
<1>2. Counted'
  <2>1. Awaiting' = Awaiting
    BY <1>1 DEF Awaiting
  <2> QED BY <2>1 DEF RailInv, Counted
<1>3. Standing'
  BY <1>1 DEF RailInv, Standing
<1> QED BY <1>1, <1>2, <1>3

LEMMA RefreshKeeps ==
  ASSUME RailInv, refresh
  PROVE  RailInv'
<1>1. /\ flight' = Fresh(clock) /\ dirty' = FALSE
      /\ UNCHANGED <<order, read, waiting, retiring, entry, accepted, clock, steps, kept>>
  BY DEF refresh, rail
<1>2. flight'.begun /\ flight'.startedAt = clock /\ flight'.data = NotYet
  BY <1>1 DEF Fresh
<1>3. Typed'
  <2>1. flight' \in [begun : BOOLEAN, startedAt : Nat, data : Data \union {NotYet}]
    BY <1>1 DEF RailInv, Typed, Fresh
  <2> QED BY <1>1, <2>1 DEF RailInv, Typed
<1>4. Timed'
  BY <1>1, <1>2 DEF RailInv, Typed, Timed
<1>5. Current'
  BY <1>1, <1>2 DEF Current
<1>6. Lasting'
  <2>1. \A t \in Scopes : \A u : Has(t, u) => Has(t, u)'
    BY <1>1, <1>2 DEF Has
  <2> QED BY <1>1, <2>1, ReadsOnly DEF RailInv, Lasting
<1> QED BY <1>1, <1>3, <1>4, <1>5, <1>6, ReadsOnly DEF RailInv

LEMMA ReadServedKeeps ==
  ASSUME RailInv, ReadServed
  PROVE  RailInv'
<1>1. /\ flight.begun /\ flight.data = NotYet /\ flight' = [flight EXCEPT !.data = order]
      /\ UNCHANGED <<order, read, waiting, retiring, entry, accepted, clock, dirty, steps, kept>>
  BY DEF ReadServed, rail
<1>2. /\ flight'.begun = flight.begun /\ flight'.startedAt = flight.startedAt /\ flight'.data = order
      /\ flight' \in [begun : BOOLEAN, startedAt : Nat, data : Data \union {NotYet}]
  BY <1>1 DEF RailInv, Typed
<1>3. Typed'
  BY <1>1, <1>2 DEF RailInv, Typed
<1>4. Timed'
  BY <1>1, <1>2 DEF RailInv, Timed
<1>5. Current'
  BY <1>1, <1>2, ReadsOnly DEF RailInv, Current
<1>6. Lasting'
  <2> SUFFICES ASSUME NEW t \in Scopes, kept'[t] # NoMove, ~Moved(t)'
               PROVE  \E u \in 1..clock' : Has(t, u)'
    BY DEF Lasting
  <2>1. kept[t] # NoMove /\ ~Moved(t)
    BY <1>1, ReadsOnly
  <2>2. PICK u \in 1..clock : Has(t, u)
    BY <2>1 DEF RailInv, Lasting
  <2>3. Satisfied(order[t], kept[t])
    BY <2>1 DEF RailInv, Standing
  <2>4. Has(t, u)'
    BY <1>1, <1>2, <2>2, <2>3 DEF Has
  <2> QED BY <1>1, <2>2, <2>4
<1> QED BY <1>1, <1>3, <1>4, <1>5, <1>6, ReadsOnly DEF RailInv

LEMMA ReadLandsKeeps ==
  ASSUME RailInv, ReadLands
  PROVE  RailInv'
<1>1. /\ flight.data # NotYet
      /\ read' = [data |-> flight.data, startedAt |-> flight.startedAt, ok |-> TRUE]
      /\ flight' = NoFlight /\ waiting' = FALSE
      /\ retiring' = IF waiting THEN retiring \union {flight.startedAt} ELSE retiring
      /\ UNCHANGED <<order, entry, accepted, clock, dirty, steps, kept>>
  BY DEF ReadLands, rail
<1>2. /\ flight.begun /\ flight.startedAt \in Nat /\ read.startedAt \in Nat /\ clock \in Nat
      /\ read.startedAt <= flight.startedAt /\ flight.startedAt <= clock /\ flight.data \in Data
  BY <1>1 DEF RailInv, Typed, Timed
<1>3. /\ ~flight'.begun /\ flight'.startedAt = 0 /\ flight'.data = NotYet
      /\ flight' \in [begun : BOOLEAN, startedAt : Nat, data : Data \union {NotYet}]
  BY <1>1 DEF NoFlight
<1>4. /\ read'.data = flight.data /\ read'.startedAt = flight.startedAt /\ read'.ok
      /\ read' \in [data : Data, startedAt : Nat, ok : BOOLEAN]
  BY <1>1, <1>2
<1>5. Typed'
  BY <1>1, <1>3, <1>4 DEF RailInv, Typed
<1>6. Timed'
  <2>1. retiring \subseteq 0..read.startedAt
    BY DEF RailInv, Timed
  <2>2. 0..read.startedAt \subseteq 0..flight.startedAt /\ flight.startedAt \in 0..flight.startedAt
    BY <1>2
  <2>3. retiring' \subseteq 0..read'.startedAt
    BY <1>1, <1>4, <2>1, <2>2
  <2> QED BY <1>1, <1>2, <1>3, <1>4, <2>3 DEF Timed
<1>7. Current'
  <2> SUFFICES ASSUME (\A t \in Scopes : ~Pending(t)'), ~dirty'
               PROVE  read'.data = order' /\ read'.startedAt = clock'
    BY <1>3 DEF Current
  <2>1. flight.startedAt = clock /\ flight.data \in {NotYet, order}
    BY <1>1, <1>2, ReadsOnly DEF RailInv, Current
  <2> QED BY <1>1, <1>4, <2>1
<1>8. Lasting'
  <2> SUFFICES ASSUME NEW t \in Scopes, kept'[t] # NoMove, ~Moved(t)'
               PROVE  \E u \in 1..clock' : Has(t, u)'
    BY DEF Lasting
  <2>1. kept[t] # NoMove /\ ~Moved(t)
    BY <1>1, ReadsOnly
  <2>2. PICK u \in 1..clock : Has(t, u)
    BY <2>1 DEF RailInv, Lasting
  <2>3. IF read'.startedAt < u THEN u \in DOMAIN accepted' /\ accepted'[u] = kept'[t]
        ELSE Satisfied(read'.data[t], kept'[t])
    <3>1. CASE flight.startedAt < u
      <4>1. read.startedAt < u
        BY <1>2, <3>1
      <4> QED BY <1>1, <1>4, <2>2, <3>1, <4>1 DEF Has
    <3>2. CASE ~(flight.startedAt < u)
      <4>1. u <= flight.startedAt
        BY <1>2, <3>2
      <4> QED BY <1>1, <1>4, <2>2, <3>2, <4>1 DEF Has
    <3> QED BY <3>1, <3>2
  <2>4. \A v \in DOMAIN accepted' : v > u => accepted'[v].scope # t
    BY <1>1, <2>2 DEF Has
  <2>5. Has(t, u)'
    BY <1>3, <2>3, <2>4 DEF Has
  <2> QED BY <1>1, <2>2, <2>5
<1> QED BY <1>1, <1>5, <1>6, <1>7, <1>8, ReadsOnly DEF RailInv

LEMMA ReadFailsKeeps ==
  ASSUME RailInv, ReadFails
  PROVE  RailInv'
<1>1. /\ flight.begun /\ read' = [read EXCEPT !.ok = FALSE]
      /\ flight' = NoFlight /\ waiting' = FALSE
      /\ UNCHANGED <<order, retiring, entry, accepted, clock, dirty, steps, kept>>
  BY DEF ReadFails, rail
<1>2. /\ ~flight'.begun /\ flight'.startedAt = 0 /\ flight'.data = NotYet
      /\ flight' \in [begun : BOOLEAN, startedAt : Nat, data : Data \union {NotYet}]
  BY <1>1 DEF NoFlight
<1>3. /\ read'.data = read.data /\ read'.startedAt = read.startedAt /\ ~read'.ok
      /\ read' \in [data : Data, startedAt : Nat, ok : BOOLEAN]
  BY <1>1 DEF RailInv, Typed
<1>4. Typed'
  BY <1>1, <1>2, <1>3 DEF RailInv, Typed
<1>5. Timed'
  BY <1>1, <1>2, <1>3 DEF RailInv, Typed, Timed
<1>6. Current'
  BY <1>2, <1>3 DEF Current
<1>7. Lasting'
  <2>1. \A t \in Scopes : \A u : Has(t, u) => Has(t, u)'
    BY <1>1, <1>2, <1>3 DEF Has
  <2> QED BY <1>1, <2>1, ReadsOnly DEF RailInv, Lasting
<1> QED BY <1>1, <1>4, <1>5, <1>6, <1>7, ReadsOnly DEF RailInv

LEMMA RetireKeeps ==
  ASSUME RailInv, Retire
  PROVE  RailInv'
<1>1. PICK at \in retiring : /\ accepted' = Restrict(accepted, {t \in DOMAIN accepted : t > at})
                             /\ retiring' = retiring \ {at}
  BY DEF Retire
<1>2. UNCHANGED <<order, read, flight, waiting, entry, clock, dirty, steps, kept>>
  BY DEF Retire
<1>3. /\ DOMAIN accepted' = {t \in DOMAIN accepted : t > at}
      /\ \A t \in DOMAIN accepted' : accepted'[t] = accepted[t]
  BY <1>1 DEF Restrict
<1>4. at \in Nat /\ read.startedAt \in Nat /\ at <= read.startedAt
  BY <1>1 DEF RailInv, Typed, Timed
<1>5. Typed'
  BY <1>2, <1>3 DEF RailInv, Typed
<1>6. Timed'
  BY <1>1, <1>2 DEF RailInv, Timed
<1>7. Current'
  BY <1>2, ReadsOnly DEF RailInv, Current
<1>8. Lasting'
  <2> SUFFICES ASSUME NEW t \in Scopes, kept'[t] # NoMove, ~Moved(t)'
               PROVE  \E u \in 1..clock' : Has(t, u)'
    BY DEF Lasting
  <2>1. kept[t] # NoMove /\ ~Moved(t)
    BY <1>2, ReadsOnly
  <2>2. PICK u \in 1..clock : Has(t, u)
    BY <2>1 DEF RailInv, Lasting
  <2>3. read.startedAt < u => u > at
    BY <1>4
  <2>4. Has(t, u)'
    BY <1>2, <1>3, <2>2, <2>3 DEF Has
  <2> QED BY <1>2, <2>2, <2>4
<1> QED BY <1>2, <1>5, <1>6, <1>7, <1>8, ReadsOnly DEF RailInv

LEMMA RowLeavesKeeps ==
  ASSUME RailInv, NEW s \in Scopes, RowLeaves(s)
  PROVE  RailInv'
<1>1. PICK r \in Range(order[s]) : order' = [order EXCEPT ![s] = Without(order[s], r)]
  BY DEF RowLeaves
<1>2. /\ steps < MaxSteps /\ steps' = steps + 1 /\ dirty' = TRUE
      /\ UNCHANGED <<read, flight, waiting, retiring, entry, accepted, clock, kept>>
  BY DEF RowLeaves, reads, rail
<1>3. order = [t \in Scopes |-> order[t]] /\ \A t \in Scopes : order[t] \in Orders(Rows[t])
  BY DataIs DEF RailInv, Typed
<1>4. /\ order' = [t \in Scopes |-> order'[t]]
      /\ \A t \in Scopes : order'[t] = IF t = s THEN Without(order[s], r) ELSE order[t]
  BY <1>1, <1>3, PutIs
<1>5. Without(order[s], r) \in Orders(Rows[s])
  <2>1. PICK i \in 1..Len(order[s]) : order[s][i] = r
    BY <1>3 DEF Range, Orders
  <2> QED BY <1>3, <2>1, WithoutIs
<1>6. Typed'
  <2>1. order' \in Data
    BY <1>3, <1>4, <1>5, DataIs
  <2> QED BY <1>2, <2>1 DEF RailInv, Typed
<1>7. Timed'
  BY <1>2 DEF RailInv, Timed
<1>8. \A t \in Scopes : Pending(t)' = Pending(t) /\ Moved(t)' = Moved(t)
  BY <1>2 DEF Pending, Moved
<1>9. Counted'
  <2>1. Awaiting' = Awaiting
    BY <1>8 DEF Awaiting
  <2>2. Cardinality(Awaiting) \in Nat /\ clock \in Nat /\ steps \in Nat /\ MaxSteps \in Nat
    BY FS_CardinalityType DEF RailInv, Typed, Counted
  <2> QED BY <1>2, <2>1, <2>2 DEF RailInv, Counted
<1>10. Current'
  BY <1>2 DEF Current
<1>11. Standing'
  <2> SUFFICES ASSUME NEW t \in Scopes, kept'[t] # NoMove
               PROVE  Satisfied(order'[t], kept'[t]) /\ (Moved(t)' => kept'[t] = entry'[t].move)
    BY DEF Standing
  <2>1. Satisfied(order[t], kept[t]) /\ (Moved(t) => kept[t] = entry[t].move) /\ kept[t] \in Moves(t)
    BY <1>2 DEF RailInv, Typed, Standing
  <2>2. Satisfied(order'[t], kept[t])
    <3>1. CASE t = s
      BY <1>3, <1>4, <2>1, <3>1, SatisfiedWithout
    <3>2. CASE t # s
      BY <1>4, <2>1, <3>2
    <3> QED BY <3>1, <3>2
  <2> QED BY <1>2, <1>8, <2>1, <2>2
<1>12. Lasting'
  <2>1. \A t \in Scopes : \A u : Has(t, u)' = Has(t, u)
    BY <1>2 DEF Has
  <2> QED BY <1>2, <1>8, <2>1 DEF RailInv, Lasting
<1> QED BY <1>6, <1>7, <1>9, <1>10, <1>11, <1>12 DEF RailInv

LEMMA RowComesKeeps ==
  ASSUME RailInv, NEW s \in Scopes, RowComes(s)
  PROVE  RailInv'
<1>1. PICK r \in Rows[s] \ Range(order[s]) : order' = [order EXCEPT ![s] = Append(order[s], r)]
  BY DEF RowComes
<1>2. /\ steps < MaxSteps /\ steps' = steps + 1 /\ dirty' = TRUE
      /\ kept' = [kept EXCEPT ![s] = NoMove]
      /\ UNCHANGED <<read, flight, waiting, retiring, entry, accepted, clock>>
  BY DEF RowComes, reads, rail
<1>3. order = [t \in Scopes |-> order[t]] /\ \A t \in Scopes : order[t] \in Orders(Rows[t])
  BY DataIs DEF RailInv, Typed
<1>4. /\ order' = [t \in Scopes |-> order'[t]]
      /\ \A t \in Scopes : order'[t] = IF t = s THEN Append(order[s], r) ELSE order[t]
  BY <1>1, <1>3, PutIs
<1>5. Append(order[s], r) \in Orders(Rows[s])
  BY <1>3, AppendKeeps
<1>6. /\ kept' = [t \in Scopes |-> kept'[t]]
      /\ \A t \in Scopes : kept'[t] = IF t = s THEN NoMove ELSE kept[t]
  BY <1>2, PutIs DEF RailInv, Typed
<1>7. Typed'
  <2>1. order' \in Data
    BY <1>3, <1>4, <1>5, DataIs
  <2>2. \A t \in Scopes : kept'[t] \in Moves(t) \union {NoMove}
    BY <1>6 DEF RailInv, Typed
  <2> QED BY <1>2, <1>6, <2>1, <2>2 DEF RailInv, Typed
<1>8. Timed'
  BY <1>2 DEF RailInv, Timed
<1>9. \A t \in Scopes : Pending(t)' = Pending(t) /\ Moved(t)' = Moved(t)
  BY <1>2 DEF Pending, Moved
<1>10. Counted'
  <2>1. Awaiting' = Awaiting
    BY <1>9 DEF Awaiting
  <2>2. Cardinality(Awaiting) \in Nat /\ clock \in Nat /\ steps \in Nat /\ MaxSteps \in Nat
    BY FS_CardinalityType DEF RailInv, Typed, Counted
  <2> QED BY <1>2, <2>1, <2>2 DEF RailInv, Counted
<1>11. Current'
  BY <1>2 DEF Current
<1>12. \A t \in Scopes : kept'[t] # NoMove => t # s /\ kept'[t] = kept[t]
  BY <1>6
<1>13. Standing'
  BY <1>2, <1>4, <1>9, <1>12 DEF RailInv, Standing
<1>14. Lasting'
  <2>1. \A t \in Scopes : \A u : kept'[t] = kept[t] /\ Has(t, u) => Has(t, u)'
    BY <1>2 DEF Has
  <2> QED BY <1>2, <1>9, <1>12, <2>1 DEF RailInv, Lasting
<1> QED BY <1>7, <1>8, <1>10, <1>11, <1>13, <1>14 DEF RailInv

LEMMA RailStep == RailInv /\ [Next]_vars => RailInv'
<1> SUFFICES ASSUME RailInv, [Next]_vars PROVE RailInv'
  OBVIOUS
<1>1. ASSUME NEW s \in Scopes, claim(s) PROVE RailInv'
  BY <1>1, ClaimKeeps
<1>2. ASSUME NEW s \in Scopes, RuntimeMoves(s) PROVE RailInv'
  BY <1>2, RuntimeMovesKeeps
<1>3. ASSUME NEW s \in Scopes, Accepted(s) PROVE RailInv'
  BY <1>3, AcceptedKeeps
<1>4. ASSUME NEW s \in Scopes, rollBackAndReport(s) PROVE RailInv'
  BY <1>4, RollBackKeeps
<1>5. ASSUME NEW s \in Scopes, clearRailOrderFailure(s) PROVE RailInv'
  BY <1>5, ClearFailureKeeps
<1>6. ASSUME NEW s \in Scopes, RowLeaves(s) PROVE RailInv'
  BY <1>6, RowLeavesKeeps
<1>7. ASSUME NEW s \in Scopes, RowComes(s) PROVE RailInv'
  BY <1>7, RowComesKeeps
<1>8. CASE refresh
  BY <1>8, RefreshKeeps
<1>9. CASE ReadServed
  BY <1>9, ReadServedKeeps
<1>10. CASE ReadLands
  BY <1>10, ReadLandsKeeps
<1>11. CASE ReadFails
  BY <1>11, ReadFailsKeeps
<1>12. CASE Retire
  BY <1>12, RetireKeeps
<1>13. CASE UNCHANGED vars
  <2>1. UNCHANGED <<order, read, flight, waiting, retiring, entry, accepted, clock, dirty, steps, kept>>
    BY <1>13 DEF vars, reads, rail
  <2>2. \A t \in Scopes : \A u : Has(t, u)' = Has(t, u)
    BY <2>1 DEF Has
  <2>3. Lasting'
    BY <2>1, <2>2, ReadsOnly DEF RailInv, Lasting
  <2>4. Typed' /\ Timed' /\ Current'
    BY <2>1, ReadsOnly DEF RailInv, Typed, Timed, Current
  <2> QED BY <2>1, <2>3, <2>4, ReadsOnly DEF RailInv
<1> QED BY <1>1, <1>2, <1>3, <1>4, <1>5, <1>6, <1>7, <1>8, <1>9, <1>10, <1>11, <1>12, <1>13 DEF Next

LEMMA Always == Spec => []RailInv
<1> QED BY RailInit, RailStep, PTL DEF Spec

-----------------------------------------------------------------------------
(* What is proved. *)

\* What a drop does to a list: it takes out the row and puts it right before its anchor, or last, so
\* that every other row keeps its place among the others; and doing it again changes nothing
\* (moveBefore, rail-order.ts:58 "Order-preserving for every other member", and
\* rail-order-state.ts:67 "idempotent").
THEOREM MovesOneRow ==
  ASSUME NEW s \in Scopes, NEW ids \in Orders(Rows[s]), NEW m \in Moves(s),
         Placeable(ids, m), m.before # m.row
  PROVE  LET new == moveBefore(ids, m) IN
         /\ new \in Orders(Rows[s])
         /\ Without(new, m.row) = Without(ids, m.row)
         /\ IF m.before = End THEN new[Len(new)] = m.row
            ELSE \E k \in 1..(Len(new) - 1) : new[k] = m.row /\ new[k + 1] = m.before
         /\ moveBefore(new, m) = new
<1> DEFINE rest == Without(ids, m.row)
           k == Spot(ids, m)
           new == moveBefore(ids, m)
<1>1. /\ rest \in Orders(Rows[s]) /\ ~Contains(rest, m.row) /\ m.row \in Rows[s]
      /\ k \in 1..(Len(rest) + 1) /\ new = InsertAt(rest, k, m.row)
      /\ m.before # End => k \in 1..Len(rest) /\ rest[k] = m.before
  BY MoveIs
<1>2. k = IF m.before = End THEN Len(rest) + 1 ELSE Position(rest, m.before)
  BY DEF Spot
<1>3. moveBefore(new, m) = new
  BY MoveOnce DEF Satisfied
<1> HIDE DEF rest, k, new
<1>4. /\ new \in Orders(Rows[s]) /\ Len(new) = Len(rest) + 1 /\ Len(rest) \in Nat
      /\ \A i \in 1..(Len(rest) + 1) :
           new[i] = IF i < k THEN rest[i] ELSE IF i = k THEN m.row ELSE rest[i - 1]
  BY <1>1, InsertIs DEF Orders
<1>5. Without(new, m.row) = rest
  BY <1>1, InsertWithout
<1>6. CASE m.before = End
  BY <1>2, <1>3, <1>4, <1>5, <1>6 DEF rest, new
<1>7. CASE m.before # End
  <2>1. k \in 1..(Len(new) - 1) /\ k + 1 \in 1..(Len(rest) + 1) /\ (k + 1) - 1 = k
    BY <1>1, <1>4, <1>7
  <2>2. new[k] = m.row /\ new[k + 1] = m.before
    BY <1>1, <1>4, <1>7, <2>1
  <2> QED BY <1>3, <1>4, <1>5, <1>7, <2>1, <2>2 DEF rest, new
<1> QED BY <1>6, <1>7

\* Every order that the runtime keeps, the client holds or a read brings is of rows of its list,
\* each at most once; an entry has a write exactly while it is pending; the clock ticks no more
\* often than moves are dropped, and nothing is of a time that has not come (rail-order-state.ts).
THEOREM TypesHold == Spec => []TypeOK
<1>1. RailInv => TypeOK
  <2> SUFFICES ASSUME RailInv PROVE TypeOK
    OBVIOUS
  <2>1. /\ order \in Data /\ read.data \in Data /\ flight.data \in Data \union {NotYet}
        /\ read.startedAt \in Nat /\ flight.startedAt \in Nat /\ clock \in Nat /\ steps \in Nat
        /\ waiting \in BOOLEAN /\ dirty \in BOOLEAN /\ DOMAIN accepted \subseteq 1..clock
        /\ \A t \in DOMAIN accepted : accepted[t] \in AllMoves
    BY DEF RailInv, Typed
  <2>2. ASSUME NEW s \in Scopes, NEW ids \in Orders(Rows[s])
        PROVE  IsInjective(ids) /\ Range(ids) \subseteq Rows[s]
    BY DEF Orders, Range
  <2>3. ASSUME NEW s \in Scopes
        PROVE  /\ order[s] \in Orders(Rows[s]) /\ read.data[s] \in Orders(Rows[s])
               /\ flight.data # NotYet => flight.data[s] \in Orders(Rows[s])
    BY <2>1 DEF Data
  <2>4. ASSUME NEW s \in Scopes
        PROVE  /\ entry[s].status \in {"clear", "pending", "failed"}
               /\ Pending(s) => entry[s].move \in Moves(s)
               /\ Pending(s) <=> entry[s].write \in {"sent", "moved", "anchor gone", "row gone"}
               /\ kept[s] \in Moves(s) \union {NoMove}
    <3>1. entry[s] \in Entries(s) /\ kept[s] \in Moves(s) \union {NoMove}
      BY DEF RailInv, Typed
    <3> QED BY <3>1, EntryIs DEF Pending
  <2>5. clock \in 0..MaxSteps
    <3>1. Cardinality(Awaiting) \in Nat /\ MaxSteps \in Nat
      BY FS_CardinalityType DEF RailInv, Counted
    <3> QED BY <2>1, <3>1 DEF RailInv, Counted
  <2>6. /\ read.startedAt \in 0..clock /\ flight.startedAt \in 0..clock
        /\ retiring \subseteq 0..clock
        /\ waiting => flight.begun
    <3>1. /\ read.startedAt <= clock /\ flight.startedAt <= clock
          /\ retiring \subseteq 0..read.startedAt
          /\ waiting => flight.begun
      BY DEF RailInv, Timed
    <3>2. 0..read.startedAt \subseteq 0..clock
      BY <2>1, <3>1
    <3> QED BY <2>1, <3>1, <3>2
  <2> QED BY <2>1, <2>2, <2>3, <2>4, <2>5, <2>6 DEF TypeOK, AllMoves
<1> QED BY <1>1, Always, PTL

\* What a list shows while the invariant holds: its order in the read, with what was accepted
\* replayed, and is of its rows.
LEMMA ReplayOf ==
  ASSUME RailInv
  PROVE  /\ replayed \in [read.startedAt..clock -> Data]
         /\ replayed[read.startedAt] = read.data
         /\ \A t \in (read.startedAt + 1)..clock :
              replayed[t] = IF t \in DOMAIN accepted THEN applyRailMove(replayed[t - 1], accepted[t])
                            ELSE replayed[t - 1]
         /\ \A s \in Scopes : \A u \in read.startedAt..clock :
              (\A t \in DOMAIN accepted : t > u => accepted[t].scope # s)
                => replayed[clock][s] = replayed[u][s]
<1>1. /\ read.data \in Data /\ read.startedAt \in Nat /\ clock \in Nat /\ read.startedAt <= clock
      /\ \A t \in DOMAIN accepted : accepted[t] \in AllMoves
  BY DEF RailInv, Typed, Timed
<1> QED BY <1>1, ReplayIs, ReplayRests

\* Whenever a read began or landed, a list shows its pending move, or else the one that the runtime
\* accepted last, until a row comes or a lost answer moved it again (projectRailOrder and
\* retireAcceptedRailMoves of rail-order-state.ts, rail-order-commit.ts:35).
THEOREM MovesStayShown == Spec => []MovesAreShown
<1>1. RailInv => MovesAreShown
  <2> SUFFICES ASSUME RailInv, NEW s \in Scopes,
                      (IF Pending(s) THEN entry[s].move ELSE kept[s]) # NoMove
               PROVE  Satisfied(Shown(s), IF Pending(s) THEN entry[s].move ELSE kept[s])
    BY DEF MovesAreShown, Satisfied
  <2>1. /\ clock \in read.startedAt..clock /\ read.startedAt \in read.startedAt..clock
        /\ read.startedAt \in Nat /\ clock \in Nat
    BY DEF RailInv, Typed, Timed
  <2>2. \A t \in read.startedAt..clock : replayed[t][s] \in Orders(Rows[s])
    BY ReplayOf DEF Data
  <2>3. CASE Pending(s)
    <3>1. entry[s] \in Entries(s)
      BY DEF RailInv, Typed
    <3>2. entry[s].move \in Moves(s)
      BY <2>3, <3>1, EntryIs DEF Pending
    <3>3. Shown(s) = moveBefore(replayed[clock][s], entry[s].move)
      BY <2>3 DEF Shown, projectRailOrder, Pending
    <3> QED BY <2>1, <2>2, <2>3, <3>2, <3>3, MoveOnce
  <2>4. CASE ~Pending(s)
    <3>1. Shown(s) = replayed[clock][s] /\ ~Moved(s) /\ kept[s] # NoMove
      BY <2>4 DEF Shown, projectRailOrder, Pending, Moved
    <3>2. kept[s] \in Moves(s)
      BY <3>1 DEF RailInv, Typed
    <3>3. PICK t \in 1..clock : Has(s, t)
      BY <3>1 DEF RailInv, Lasting
    <3>4. CASE read.startedAt < t
      <4>1. /\ t \in (read.startedAt + 1)..clock /\ t \in read.startedAt..clock
            /\ t - 1 \in read.startedAt..clock
        BY <2>1, <3>4
      <4>2. t \in DOMAIN accepted /\ accepted[t] = kept[s] /\ kept[s].scope = s /\ kept[s] \in AllMoves
        BY <3>2, <3>3, <3>4 DEF Has, Moves, AllMoves
      <4>3. replayed[t] = applyRailMove(replayed[t - 1], kept[s]) /\ replayed[t - 1] \in Data
        BY <4>1, <4>2, ReplayOf
      <4>4. replayed[t][s] = moveBefore(replayed[t - 1][s], kept[s])
        BY <4>2, <4>3, ApplyIs
      <4>5. replayed[clock][s] = replayed[t][s]
        BY <3>3, <4>1, ReplayOf DEF Has
      <4>6. Satisfied(moveBefore(replayed[t - 1][s], kept[s]), kept[s])
        BY <2>2, <3>2, <4>1, MoveOnce
      <4> QED BY <2>4, <3>1, <4>4, <4>5, <4>6
    <3>5. CASE ~(read.startedAt < t)
      <4>1. ASSUME NEW u \in DOMAIN accepted, u > read.startedAt PROVE accepted[u].scope # s
        <5>1. u \in Nat
          BY DEF RailInv, Typed
        <5>2. u > t
          BY <2>1, <3>5, <4>1, <5>1
        <5> QED BY <3>3, <5>2 DEF Has
      <4>2. replayed[clock][s] = replayed[read.startedAt][s]
        BY <2>1, <4>1, ReplayOf
      <4>3. replayed[read.startedAt][s] = read.data[s]
        BY ReplayOf
      <4>4. Satisfied(read.data[s], kept[s])
        BY <3>3, <3>5 DEF Has
      <4> QED BY <2>4, <3>1, <4>2, <4>3, <4>4
    <3> QED BY <3>4, <3>5
  <2> QED BY <2>3, <2>4
<1> QED BY <1>1, Always, PTL

\* Once no list awaits an answer and the last read has landed, every list shows the runtime's order,
\* also after a move was refused or its answer was lost: the last commit to settle reads again
\* (refreshWhenAllSettled and rollBackAndReport of rail-order-commit.ts).
THEOREM ListsConverge == Spec => []Converges
<1>1. RailInv => Converges
  <2> SUFFICES ASSUME RailInv, \A s \in Scopes : ~Pending(s), ~flight.begun, ~dirty, read.ok,
                      NEW s \in Scopes
               PROVE  Shown(s) = order[s]
    BY DEF Converges
  <2>1. read.data = order /\ read.startedAt = clock
    BY DEF RailInv, Current
  <2>2. Shown(s) = replayed[clock][s]
    BY DEF Shown, projectRailOrder, Pending
  <2>3. replayed[clock] = read.data
    BY <2>1, ReplayOf
  <2> QED BY <2>1, <2>2, <2>3
<1> QED BY <1>1, Always, PTL
=============================================================================
