--------------------------- MODULE ListingsProofs ---------------------------
(***************************************************************************)
(* What a client of a paged listing may rely on.  First the arithmetic of  *)
(* getPaginationData, for every number of rows and whatever page and page  *)
(* size a client asks for, negative ones and zero included; then where a   *)
(* row stands in any order the database may return; then the walk through  *)
(* the pages, the page of a room and the rows that are pushed, while the   *)
(* tables change.                                                          *)
(***************************************************************************)
EXTENDS Listings, FiniteSetTheorems, TLAPS

\* Math.ceil(n / d) pages of d rows hold n rows, and one page fewer does not.
LEMMA CeilBounds ==
    ASSUME NEW n \in Nat, NEW d \in Nat \ {0}
    PROVE  /\ Ceil(n, d) \in Nat
           /\ n <= d * Ceil(n, d)
           /\ n > 0 => d * (Ceil(n, d) - 1) < n
  <1> DEFINE m == n + d - 1
             q == m \div d
  <1>1. m \in Nat BY SMT
  <1>2. q \in Nat /\ d * q <= m /\ m < d * q + d BY <1>1, SMT
  <1> HIDE DEF q
  <1>3. d * (q - 1) = d * q - d BY <1>2, SMT
  <1> QED BY <1>2, <1>3, SMT DEF q, Ceil

\* The page size a listing is computed with is at least one row.
LEMMA SafePageSizePositive ==
    ASSUME NEW pageSize \in Int
    PROVE  SafePageSize(pageSize) \in Nat \ {0}
  BY SMT DEF SafePageSize, AtLeast, OrElse

\* There is at least one page; the pages hold all rows, and the last one has some.
LEMMA TotalPagesBounds ==
    ASSUME NEW totalCount \in Nat, NEW pageSize \in Int
    PROVE  LET d == SafePageSize(pageSize)
               t == TotalPages(totalCount, pageSize)
           IN  /\ t \in Nat \ {0}
               /\ totalCount <= d * t
               /\ totalCount > 0 => d * (t - 1) < totalCount
  <1> DEFINE d == SafePageSize(pageSize)
             c == Ceil(totalCount, d)
  <1>1. d \in Nat \ {0} BY SafePageSizePositive
  <1>2. /\ c \in Nat
        /\ totalCount <= d * c
        /\ totalCount > 0 => d * (c - 1) < totalCount
    BY <1>1, CeilBounds
  <1>3. c = 0 => totalCount = 0 BY <1>1, <1>2, SMT
  <1> HIDE DEF d, c
  <1>4. TotalPages(totalCount, pageSize) = IF c < 1 THEN 1 ELSE c BY DEF TotalPages, AtLeast, c, d
  <1>5. CASE c = 0 BY <1>1, <1>3, <1>4, <1>5, SMT DEF d
  <1>6. CASE c # 0
    <2>1. TotalPages(totalCount, pageSize) = c BY <1>2, <1>4, <1>6
    <2> QED BY <1>2, <1>6, <2>1 DEF d
  <1> QED BY <1>5, <1>6

\* The page a listing answers is one of its pages, whatever page was asked for.
THEOREM SafePageIsAPage ==
    ASSUME NEW totalCount \in Nat, NEW asked \in Int, NEW pageSize \in Int
    PROVE  SafePage(totalCount, asked, pageSize) \in 1..TotalPages(totalCount, pageSize)
  <1>1. TotalPages(totalCount, pageSize) \in Nat \ {0} BY TotalPagesBounds
  <1> QED BY <1>1 DEF SafePage, AtLeast, AtMost, OrElse

\* A page that exists is answered as it was asked for.
LEMMA PageKept ==
    ASSUME NEW totalCount \in Nat, NEW pageSize \in Int,
           NEW asked \in 1..TotalPages(totalCount, pageSize)
    PROVE  /\ SafePage(totalCount, asked, pageSize) = asked
           /\ Skip(totalCount, asked, pageSize) = (asked - 1) * SafePageSize(pageSize)
  <1> DEFINE d == SafePageSize(pageSize)
  <1>1. TotalPages(totalCount, pageSize) \in Nat \ {0} BY TotalPagesBounds
  <1>2. d \in Nat \ {0} BY SafePageSizePositive
  <1>3. SafePage(totalCount, asked, pageSize) = asked
    BY <1>1 DEF SafePage, AtLeast, AtMost, OrElse
  <1>4. asked - 1 \in Nat BY <1>1
  <1> HIDE DEF d
  <1>5. (asked - 1) * d \in Nat BY <1>2, <1>4
  <1> QED BY <1>3, <1>5 DEF Skip, AtLeast, d

\* The rows skipped are fewer than the rows there are, so a page of a table with rows
\* is never empty: neither a page past the end nor a page size of 0 skips everything.
THEOREM SkipLeavesRows ==
    ASSUME NEW totalCount \in Nat \ {0}, NEW asked \in Int, NEW pageSize \in Int
    PROVE  Skip(totalCount, asked, pageSize) \in 0..(totalCount - 1)
  <1> DEFINE d == SafePageSize(pageSize)
             t == TotalPages(totalCount, pageSize)
             p == SafePage(totalCount, asked, pageSize)
  <1>1. d \in Nat \ {0} BY SafePageSizePositive
  <1>2. t \in Nat \ {0} /\ d * (t - 1) < totalCount BY TotalPagesBounds
  <1>3. p \in 1..t BY SafePageIsAPage
  <1> HIDE DEF d, t, p
  <1>4. p - 1 \in Nat /\ t - 1 \in Nat /\ p - 1 <= t - 1 BY <1>2, <1>3
  <1>5. (p - 1) * d \in Nat /\ (p - 1) * d <= d * (t - 1) BY <1>1, <1>4, SMT
  <1>6. d * (t - 1) \in Nat BY <1>1, <1>4
  <1>7. (p - 1) * d \in 0..(totalCount - 1) BY <1>2, <1>5, <1>6
  <1> QED BY <1>7 DEF Skip, AtLeast, d, p

\* The rows of a page, counted from 1 in the order of the listing.
OnPage(i, totalCount, asked, pageSize) ==
    /\ Skip(totalCount, asked, pageSize) < i
    /\ i <= Skip(totalCount, asked, pageSize) + SafePageSize(pageSize)

\* More rows have no fewer pages.
LEMMA TotalPagesGrow ==
    ASSUME NEW n \in Nat, NEW m \in Nat, n <= m, NEW pageSize \in Int
    PROVE  TotalPages(n, pageSize) <= TotalPages(m, pageSize)
  <1> DEFINE d == SafePageSize(pageSize)
             t == TotalPages(n, pageSize)
             u == TotalPages(m, pageSize)
  <1>1. d \in Nat \ {0} BY SafePageSizePositive
  <1>2. t \in Nat \ {0} /\ (n > 0 => d * (t - 1) < n) BY TotalPagesBounds
  <1>3. u \in Nat \ {0} /\ m <= d * u BY TotalPagesBounds
  <1>4. CASE n = 0
    <2>1. (d - 1) \div d = 0 BY <1>1, SMT
    <2>2. Ceil(n, d) = 0 BY <1>1, <1>4, <2>1 DEF Ceil
    <2>3. t = 1 BY <2>2 DEF TotalPages, AtLeast
    <2> QED BY <1>3, <2>3
  <1>5. CASE n > 0
    <2> HIDE DEF d, t, u
    <2>1. d * (t - 1) < d * u BY <1>1, <1>2, <1>3, <1>5
    <2>2. t - 1 < u BY <1>1, <1>2, <1>3, <2>1, SMT
    <2> QED BY <1>2, <1>3, <2>2 DEF t, u
  <1> QED BY <1>4, <1>5

\* The page on which row i is found.
LEMMA PageOfRow ==
    ASSUME NEW totalCount \in Nat, NEW pageSize \in Int, NEW i \in 1..totalCount
    PROVE  LET p == (i - 1) \div SafePageSize(pageSize) + 1
           IN  p \in 1..TotalPages(totalCount, pageSize) /\ OnPage(i, totalCount, p, pageSize)
  <1> DEFINE d == SafePageSize(pageSize)
             t == TotalPages(totalCount, pageSize)
             k == (i - 1) \div d
             p == k + 1
  <1>1. d \in Nat \ {0} BY SafePageSizePositive
  <1>2. t \in Nat \ {0} /\ totalCount <= d * t BY TotalPagesBounds
  <1>3. i \in Nat \ {0} /\ i <= totalCount OBVIOUS
  <1>4. k \in Nat /\ d * k <= i - 1 /\ i - 1 < d * k + d
    <2> DEFINE m == i - 1
    <2>1. m \in Nat BY <1>3
    <2> HIDE DEF d, m
    <2>2. m \div d \in Nat /\ d * (m \div d) <= m /\ m < d * (m \div d) + d
      BY <1>1, <2>1, SMT
    <2> QED BY <2>2 DEF m
  <1>5. \A q \in 1..t : OnPage(i, totalCount, q, pageSize) <=> (q - 1) * d < i /\ i <= (q - 1) * d + d
    BY PageKept DEF OnPage
  <1> HIDE DEF d, t, k
  <1>6. k < t BY <1>1, <1>2, <1>3, <1>4, SMT
  <1>7. p \in 1..t BY <1>2, <1>4, <1>6
  <1>8. OnPage(i, totalCount, p, pageSize)
    <2>1. (p - 1) * d = d * k BY <1>1, <1>4, SMT
    <2> QED BY <1>1, <1>3, <1>4, <1>5, <1>7, <2>1
  <1> QED BY <1>7, <1>8 DEF t, k, d

\* Every row is on one page and on no other: on a table that does not change, walking
\* the pages from the first to the last shows every row, and shows it once.
THEOREM EveryRowOnOnePage ==
    ASSUME NEW totalCount \in Nat, NEW pageSize \in Int, NEW i \in 1..totalCount
    PROVE  \E p \in 1..TotalPages(totalCount, pageSize) :
              /\ OnPage(i, totalCount, p, pageSize)
              /\ \A q \in 1..TotalPages(totalCount, pageSize) :
                    OnPage(i, totalCount, q, pageSize) => q = p
  <1> DEFINE d == SafePageSize(pageSize)
             t == TotalPages(totalCount, pageSize)
  <1>1. d \in Nat \ {0} /\ t \in Nat \ {0} BY SafePageSizePositive, TotalPagesBounds
  <1>2. PICK p \in 1..t : OnPage(i, totalCount, p, pageSize) BY PageOfRow
  <1>3. \A q \in 1..t : OnPage(i, totalCount, q, pageSize) <=> (q - 1) * d < i /\ i <= (q - 1) * d + d
    BY PageKept DEF OnPage
  <1>4. ASSUME NEW q \in 1..t, OnPage(i, totalCount, q, pageSize) PROVE q = p
    <2> DEFINE j == q - 1
               k == p - 1
    <2>1. j \in Nat /\ k \in Nat BY <1>1
    <2>2. j * d < i /\ i <= j * d + d /\ k * d < i /\ i <= k * d + d BY <1>2, <1>3, <1>4
    <2> HIDE DEF j, k, d
    <2>3. ~(j < k) BY <1>1, <2>1, <2>2, SMT
    <2>4. ~(k < j) BY <1>1, <2>1, <2>2, SMT
    <2>5. j = k BY <2>1, <2>3, <2>4
    <2> QED BY <1>1, <2>5 DEF j, k
  <1> QED BY <1>2, <1>4
-----------------------------------------------------------------------------
(* What a listing keeps to while it is read.                              *)

\* What the kind of listing and the client's mode decide: who looks for a room reads the
\* unfiltered rooms and asks for its page first, and no row is stored in a table of
\* rooms.  Nothing has been shown or watched before the screen is opened.
Modal ==
    /\ number \in Injection(Rooms, Numbers)
    /\ kind = "rooms" => log = << >> /\ ~raced /\ ~inserted
    /\ mode \in {"find", "show"} =>
          kind = "rooms" /\ filter = NoFilter /\ size > 0 /\ target \in Rooms
    /\ mode = "find" => pc \in {"off", "ask", "findRoom", "countBefore"}
    /\ pc \in {"findRoom", "countBefore"} => mode = "find"
    /\ pc = "off" => shown = {} /\ repeated = {}
    /\ pc = "off" /\ mode = "walk" => page = 1
    /\ watched => joined

\* The rows in front of row x, and how many there are.
Ahead(x) == {y \in Matching : Before(y, x)}
Rank(x)  == Cardinality(Ahead(x))

\* The count is one of rows that are still there.
Counted ==
    pc = "findMany" =>
        /\ count \in Nat
        /\ Moved \/ (count <= Cardinality(Matching) /\ (raced \/ count = Cardinality(Matching)))

\* The page of a room is that of its rank.
Sought ==
    ~renamed =>
        /\ pc = "countBefore" => count = number[target]
        /\ mode = "show" => page = Rank(target) \div size + 1

\* Since the screen was opened no row has gone, and those that came were on their way.
Fed ==
    pc # "off" /\ ~Moved =>
        /\ present \subseteq Matching
        /\ kind = "rooms" => present = Matching
        /\ watched => Matching \ present \subseteq pushed \cup outbox \cup lost

\* The pages before the one that is asked for have shown the rows they had, and, as
\* long as no row came, no other one.
Walking == mode = "walk" /\ size > 0 /\ ~Moved
PagesBefore ==
    Walking /\ pc \notin {"off", "finished"} =>
        /\ page \in 1..TotalPages(Cardinality(Matching), size)
        /\ pc = "findMany" => page \in 1..TotalPages(count, size)
        /\ \A x \in present : x \in shown \/ Tied(x) \/ (page - 1) * size <= Rank(x)
        /\ inserted \/ \A x \in shown : Tied(x) \/ Rank(x) < (page - 1) * size

\* What a walk has shown twice, or has not shown when it ends.
Walked ==
    Walking =>
        /\ pc = "finished" => raced \/ \A x \in present : x \in shown \/ Tied(x)
        /\ inserted \/ \A x \in repeated : Tied(x)

ListInv == TypeOK /\ Modal /\ Counted /\ Sought /\ Fed /\ PagesBefore /\ Walked

-----------------------------------------------------------------------------
(* The tables and the orders of their rows.                                *)

\* Everything that is listed is finite, so ranks are numbers.
LEMMA ListedIsFinite ==
    ASSUME TypeOK
    PROVE  /\ IsFiniteSet(Matching) /\ Cardinality(Matching) \in Nat
           /\ \A x : /\ IsFiniteSet(Ahead(x)) /\ Rank(x) \in Nat
                     /\ Rank(x) <= Cardinality(Matching)
  <1>1. IsFiniteSet(Items)
    <2>1. DOMAIN log = 1..Len(log) /\ Len(log) \in Nat BY DEF TypeOK
    <2>2. IsFiniteSet(DOMAIN log) BY <2>1, FS_Interval
    <2>3. CASE kind = "rooms" BY <2>3, ListingsAssumption DEF Items
    <2>4. CASE kind # "rooms" BY <2>2, <2>4 DEF Items
    <2> QED BY <2>3, <2>4
  <1>2. IsFiniteSet(Matching) BY <1>1, FS_Subset DEF Matching
  <1>3. \A x : IsFiniteSet(Ahead(x)) /\ Cardinality(Ahead(x)) <= Cardinality(Matching)
    <2> SUFFICES ASSUME NEW x
                 PROVE  IsFiniteSet(Ahead(x)) /\ Cardinality(Ahead(x)) <= Cardinality(Matching)
        OBVIOUS
    <2>1. Ahead(x) \in SUBSET Matching BY DEF Ahead
    <2> QED BY <1>2, <2>1, FS_Subset
  <1> QED BY <1>2, <1>3, FS_CardinalityType DEF Rank

FiniteListing == IsFiniteSet(Matching) /\ (\A x : IsFiniteSet(Ahead(x)) /\ Rank(x) \in Nat)

LEMMA FinitelyListed == TypeOK => FiniteListing
  BY ListedIsFinite DEF FiniteListing

\* No row is in front of itself, and an untied one is in front of or behind any other.
LEMMA BeforeTotal ==
    ASSUME TypeOK, Modal, NEW x \in Matching, NEW y \in Matching
    PROVE  /\ ~Before(x, x)
           /\ x # y /\ ~Tied(x) => Before(x, y) \/ Before(y, x)
           /\ Before(x, y) => ~Before(y, x)
  <1>1. CASE kind = "rooms"
    <2>1. x \in Rooms /\ y \in Rooms BY <1>1 DEF Matching, Items
    <2>2. number[x] \in Int /\ number[y] \in Int BY <2>1, ListingsAssumption DEF TypeOK
    <2>3. x # y => number[x] # number[y] BY <2>1 DEF Modal, Injection, IsInjective
    <2> QED BY <1>1, <2>2, <2>3 DEF Before
  <1>2. CASE kind # "rooms"
    <2>1. x \in 1..Len(log) /\ y \in 1..Len(log) /\ Len(log) \in Nat
      BY <1>2 DEF Matching, Items, TypeOK
    <2>2. log[x] \in Rows /\ log[y] \in Rows BY <2>1 DEF TypeOK
    <2>3. log[x].date \in Int /\ log[y].date \in Int BY <2>2, ListingsAssumption
    <2>4. CASE kind = "inbox"
      <3>1. x # y /\ ~Tied(x) => log[y].date # log[x].date BY <2>1, <2>4 DEF Tied, TypeOK
      <3> QED BY <2>3, <2>4, <3>1 DEF Before
    <2>5. CASE kind # "inbox" BY <1>2, <2>1, <2>3, <2>5 DEF Before
    <2> QED BY <2>4, <2>5
  <1> QED BY <1>1, <1>2

\* An order of the matching rows, unfolded.
LEMMA OrderIsBijection ==
    ASSUME TypeOK, NEW s \in Orders
    PROVE  LET n == Cardinality(Matching)
           IN  /\ n \in Nat /\ s \in [1..n -> Matching]
               /\ \A i, j \in 1..n : s[i] = s[j] => i = j
               /\ \A x \in Matching : \E i \in 1..n : s[i] = x
               /\ \A i, j \in 1..n : i < j => ~Before(s[j], s[i])
  <1>1. Cardinality(Matching) \in Nat BY ListedIsFinite
  <1> DEFINE n == Cardinality(Matching)
  <1>2. s \in Bijection(1..n, Matching) BY DEF Orders
  <1>3. \A i, j \in 1..n : i < j => ~Before(s[j], s[i]) BY DEF Orders
  <1> HIDE DEF n
  <1>4. /\ s \in [1..n -> Matching]
        /\ \A i, j \in 1..n : s[i] = s[j] => i = j
        /\ \A x \in Matching : \E i \in 1..n : s[i] = x
    BY <1>2 DEF Bijection, Injection, Surjection, IsInjective
  <1> QED BY <1>1, <1>3, <1>4 DEF n

\* In whatever order the database returns the rows, an untied one stands behind the
\* rows in front of it and behind no other.
LEMMA PositionOfUntied ==
    ASSUME TypeOK, Modal, NEW s \in Orders, NEW x \in Matching, ~Tied(x)
    PROVE  Rank(x) + 1 \in 1..Cardinality(Matching) /\ s[Rank(x) + 1] = x
  <1> DEFINE n == Cardinality(Matching)
  <1>1. /\ n \in Nat /\ s \in [1..n -> Matching]
        /\ \A i, j \in 1..n : s[i] = s[j] => i = j
        /\ \A y \in Matching : \E i \in 1..n : s[i] = y
        /\ \A i, j \in 1..n : i < j => ~Before(s[j], s[i])
    BY OrderIsBijection
  <1> HIDE DEF n
  <1>2. PICK j \in 1..n : s[j] = x BY <1>1
  <1>3. \A i \in 1..n : Before(s[i], x) <=> i < j
    <2> SUFFICES ASSUME NEW i \in 1..n PROVE Before(s[i], x) <=> i < j OBVIOUS
    <2>1. s[i] \in Matching BY <1>1
    <2>2. CASE i < j
      <3>1. ~Before(x, s[i]) BY <1>1, <1>2, <2>2
      <3>2. s[i] # x BY <1>1, <1>2, <2>2
      <3> QED BY <2>1, <2>2, <3>1, <3>2, BeforeTotal
    <2>3. CASE i = j BY <1>2, <2>1, <2>3, BeforeTotal
    <2>4. CASE j < i
      <3>1. ~Before(s[i], s[j]) BY <1>1, <2>4
      <3> QED BY <1>1, <1>2, <2>4, <3>1
    <2> QED BY <1>1, <2>2, <2>3, <2>4
  <1> DEFINE f == [i \in 1..(j - 1) |-> s[i]]
  <1>4. f \in Bijection(1..(j - 1), Ahead(x))
    <2>1. \A i \in 1..(j - 1) : i \in 1..n /\ i < j BY <1>1
    <2>2. \A i \in 1..(j - 1) : s[i] \in Ahead(x) BY <1>1, <1>3, <2>1 DEF Ahead
    <2>3. \A y \in Ahead(x) : \E i \in 1..(j - 1) : s[i] = y
      <3> SUFFICES ASSUME NEW y \in Ahead(x) PROVE \E i \in 1..(j - 1) : s[i] = y OBVIOUS
      <3>1. PICK i \in 1..n : s[i] = y BY <1>1 DEF Ahead
      <3>2. i < j BY <1>3, <3>1 DEF Ahead
      <3> QED BY <1>1, <3>1, <3>2
    <2>4. \A a, b \in 1..(j - 1) : s[a] = s[b] => a = b BY <1>1, <2>1
    <2> QED BY <2>2, <2>3, <2>4 DEF Bijection, Injection, Surjection, IsInjective
  <1>5. IsFiniteSet(1..(j - 1)) /\ Cardinality(1..(j - 1)) = j - 1
    <2>1. j - 1 \in Int BY <1>1
    <2>2. /\ IsFiniteSet(1..(j - 1))
          /\ Cardinality(1..(j - 1)) = IF 1 > j - 1 THEN 0 ELSE (j - 1) - 1 + 1
      BY <2>1, FS_Interval
    <2> QED BY <1>1, <2>2
  <1>6. Cardinality(Ahead(x)) = j - 1
    <2>1. ExistsBijection(1..(j - 1), Ahead(x)) BY <1>4 DEF ExistsBijection
    <2> QED BY <1>5, <2>1, FS_Bijection
  <1>7. Rank(x) + 1 = j BY <1>1, <1>6 DEF Rank
  <1> QED BY <1>2, <1>7 DEF n

\* What findMany returns of an order: rows that match; some, if the page neither is of
\* size 0 nor begins behind the last row; of the untied ones those of the ranks it spans.
LEMMA WindowShows ==
    ASSUME TypeOK, Modal, NEW s \in Orders, NEW skip \in Nat, NEW take \in Nat
    PROVE  LET items == Range(Window(s, skip, take))
           IN  /\ items \subseteq Matching
               /\ take > 0 /\ skip < Cardinality(Matching) => items # {}
               /\ \A x \in Matching : ~Tied(x) =>
                     (x \in items <=> skip <= Rank(x) /\ Rank(x) < skip + take)
  <1> DEFINE n == Cardinality(Matching)
             w == Window(s, skip, take)
             m == AtLeast(AtMost(take, n - skip), 0)
  <1>1. /\ n \in Nat /\ s \in [1..n -> Matching]
        /\ \A i, j \in 1..n : s[i] = s[j] => i = j
    BY OrderIsBijection
  <1> HIDE DEF n
  <1>2. DOMAIN s = 1..n /\ Cardinality(DOMAIN s) = n BY <1>1, FS_Interval
  <1>3. w = [i \in 1..m |-> s[skip + i]] BY <1>2 DEF Window
  <1>4. m \in Nat /\ (\A i \in 1..m : skip + i \in 1..n /\ i <= take)
    BY <1>1 DEF AtLeast, AtMost
  <1>5. \A i \in 1..n : skip < i /\ i <= skip + take => i - skip \in 1..m
    BY <1>1 DEF AtLeast, AtMost
  <1> HIDE DEF m
  <1>6. Range(w) = {s[skip + i] : i \in 1..m} BY <1>3 DEF Range
  <1> HIDE DEF w
  <1>7. Range(w) \subseteq Matching BY <1>1, <1>4, <1>6
  <1>8. ASSUME take > 0, skip < n PROVE Range(w) # {}
    <2>1. skip + 1 \in 1..n BY <1>1, <1>8
    <2>2. (skip + 1) - skip \in 1..m BY <1>5, <1>8, <2>1
    <2>3. 1 \in 1..m BY <2>2
    <2> QED BY <1>6, <2>3
  <1>9. ASSUME NEW x \in Matching, ~Tied(x)
        PROVE  x \in Range(w) <=> skip <= Rank(x) /\ Rank(x) < skip + take
    <2>1. Rank(x) + 1 \in 1..n /\ s[Rank(x) + 1] = x BY <1>9, PositionOfUntied DEF n
    <2>2. Rank(x) \in Nat BY ListedIsFinite
    <2>3. ASSUME x \in Range(w) PROVE skip <= Rank(x) /\ Rank(x) < skip + take
      <3>1. PICK i \in 1..m : s[skip + i] = x BY <1>6, <2>3
      <3>2. skip + i = Rank(x) + 1 BY <1>1, <1>4, <2>1, <3>1
      <3> QED BY <1>4, <2>2, <3>2
    <2>4. ASSUME skip <= Rank(x), Rank(x) < skip + take PROVE x \in Range(w)
      <3> DEFINE i == Rank(x) + 1 - skip
      <3>1. i \in 1..m BY <1>5, <2>1, <2>2, <2>4
      <3>2. skip + i = Rank(x) + 1 BY <2>2
      <3> QED BY <1>6, <2>1, <3>1, <3>2
    <2> QED BY <2>3, <2>4
  <1> QED BY <1>7, <1>8, <1>9 DEF w, n
\* Neither the table nor the way it is listed changes.
Quiet == UNCHANGED <<kind, filter, size, log, number>>

LEMMA QuietSame ==
    ASSUME Quiet
    PROVE  /\ Items' = Items /\ Matching' = Matching
           /\ \A x : Ahead(x)' = Ahead(x) /\ Rank(x)' = Rank(x) /\ Tied(x)' = Tied(x)
  <1>1. Matching' = Matching BY DEF Quiet, Matching, Items, Matches
  <1>2. \A x : Ahead(x)' = Ahead(x) BY <1>1 DEF Quiet, Ahead, Before
  <1>3. \A x : Tied(x)' = Tied(x) BY DEF Quiet, Tied
  <1> QED BY <1>1, <1>2, <1>3 DEF Quiet, Items, Rank

\* The listing is quiet unless a row is stored or a room renamed.
LEMMA TableSteps ==
    ASSUME [Next]_vars
    PROVE  Quiet \/ Insert \/ \E r \in Rooms : Rename(r)
  <1> USE DEF choices, client, feed, tables
  <1>1. CASE Login \/ Expire \/ Begin \/ Admit \/ FindAccount \/ QueryCount \/ QueryPage
    BY <1>1 DEF Quiet, Login, Expire, Begin, Admit, FindAccount, QueryCount, QueryPage
  <1>2. CASE FindRoom \/ CountBefore \/ FailRequest
    BY <1>2 DEF Quiet, FindRoom, CountBefore, FailRequest
  <1>3. CASE (\E x \in outbox : Emit(x) \/ Drop(x)) \/ Join \/ Disconnect
    BY <1>3 DEF Quiet, Emit, Drop, Join, Disconnect
  <1>4. CASE Finished \/ UNCHANGED vars BY <1>4 DEF Quiet, Finished, vars
  <1> QED BY <1>1, <1>2, <1>3, <1>4 DEF Next

\* A stored row moves the others back, never forward, and is the only new one.
LEMMA InsertGrows ==
    ASSUME TypeOK, Insert
    PROVE  /\ kind # "rooms" /\ UNCHANGED <<kind, filter, size, number>>
           /\ log' \in Seq(Rows)
           /\ DOMAIN log' = DOMAIN log \cup {Len(log) + 1}
           /\ \A x \in DOMAIN log : log'[x] = log[x]
           /\ Matching \subseteq Matching'
           /\ Matching' \subseteq Matching \cup {Len(log) + 1}
           /\ \A x \in Items : Ahead(x) \subseteq Ahead(x)' /\ (Tied(x) => Tied(x)')
  <1>1. kind # "rooms" /\ UNCHANGED <<kind, filter, size, number>>
    BY DEF Insert, choices
  <1>2. PICK row \in Rows : log' = Append(log, row) BY DEF Insert
  <1>3. log \in Seq(Rows) /\ Len(log) \in Nat /\ DOMAIN log = 1..Len(log) BY DEF TypeOK
  <1>4. /\ log' \in Seq(Rows) /\ Len(log') = Len(log) + 1
        /\ \A x \in 1..Len(log) : log'[x] = log[x]
    BY <1>2, <1>3
  <1>5. DOMAIN log' = 1..(Len(log) + 1) BY <1>3, <1>4
  <1>6. DOMAIN log' = DOMAIN log \cup {Len(log) + 1} BY <1>3, <1>5
  <1>7. \A x \in DOMAIN log : log'[x] = log[x] BY <1>3, <1>4
  <1>8. \A x \in DOMAIN log : Matches(x)' = Matches(x) BY <1>1, <1>7 DEF Matches
  <1>9. Items = DOMAIN log /\ Items' = DOMAIN log' BY <1>1 DEF Items
  <1>10. Matching \subseteq Matching' BY <1>6, <1>8, <1>9 DEF Matching
  <1>11. Matching' \subseteq Matching \cup {Len(log) + 1} BY <1>6, <1>8, <1>9 DEF Matching
  <1>12. ASSUME NEW x \in Items, NEW y \in Ahead(x) PROVE y \in Ahead(x)'
    <2>1. y \in Items BY <1>12 DEF Ahead, Matching
    <2>2. Before(y, x)' = Before(y, x) BY <1>1, <1>7, <1>9, <1>12, <2>1 DEF Before
    <2> QED BY <1>10, <1>12, <2>2 DEF Ahead
  <1>13. ASSUME NEW x \in Items, Tied(x) PROVE Tied(x)'
    BY <1>1, <1>6, <1>7, <1>9, <1>13 DEF Tied
  <1> QED BY <1>1, <1>4, <1>6, <1>7, <1>10, <1>11, <1>12, <1>13

\* A renamed room moves nothing in a listing that neither is ordered nor filtered by
\* the numbers.
LEMMA RenameSame ==
    ASSUME TypeOK, NEW r \in Rooms, Rename(r), ~Moved'
    PROVE  /\ kind # "rooms" /\ ~filter.search
           /\ UNCHANGED <<kind, filter, size, log>>
           /\ Items' = Items /\ Matching' = Matching
           /\ \A x : Ahead(x)' = Ahead(x) /\ Rank(x)' = Rank(x) /\ Tied(x)' = Tied(x)
  <1>1. UNCHANGED <<kind, filter, size, log>> /\ renamed' BY DEF Rename, choices
  <1>2. kind # "rooms" /\ ~filter.search BY <1>1 DEF Moved
  <1>3. Matching' = Matching BY <1>1, <1>2 DEF Matching, Items, Matches
  <1>4. \A x : Ahead(x)' = Ahead(x) BY <1>1, <1>2, <1>3 DEF Ahead, Before
  <1>5. \A x : Tied(x)' = Tied(x) BY <1>1 DEF Tied
  <1> QED BY <1>1, <1>2, <1>3, <1>4, <1>5 DEF Items, Rank

\* While nothing is moved, no row goes away, comes forward or ceases to be tied.
LEMMA RowsStay ==
    ASSUME TypeOK, TypeOK', [Next]_vars, ~Moved'
    PROVE  /\ ~Moved /\ UNCHANGED <<kind, filter, size>>
           /\ Matching \subseteq Matching'
           /\ Cardinality(Matching) <= Cardinality(Matching')
           /\ \A x \in Items : Rank(x) <= Rank(x)' /\ (Tied(x) => Tied(x)')
           /\ ~Insert => /\ Items' = Items /\ Matching' = Matching
                         /\ \A x : Rank(x)' = Rank(x) /\ Tied(x)' = Tied(x)
  <1>1. UNCHANGED <<kind, filter, size>>
    BY TableSteps, RenameSame, InsertGrows DEF Quiet
  <1>2. renamed => renamed'
    BY DEF Next, vars, Login, Expire, Begin, Admit, FindAccount, QueryCount, QueryPage, FindRoom,
           CountBefore, FailRequest, Insert, Emit, Drop, Join, Disconnect, Rename, Finished
  <1>3. ~Moved BY <1>1, <1>2 DEF Moved
  <1>4. IsFiniteSet(Matching') /\ (\A x : IsFiniteSet(Ahead(x)'))
    <2>1. FiniteListing' BY FinitelyListed, PTL
    <2> QED BY <2>1 DEF FiniteListing
  <1>5. CASE Insert
    <2>1. Matching \subseteq Matching' BY <1>5, InsertGrows
    <2>2. Cardinality(Matching) <= Cardinality(Matching') BY <1>4, <2>1, FS_Subset
    <2>3. ASSUME NEW x \in Items PROVE Rank(x) <= Rank(x)' /\ (Tied(x) => Tied(x)')
      <3>1. Ahead(x) \in SUBSET Ahead(x)' /\ (Tied(x) => Tied(x)') BY <1>5, InsertGrows
      <3>2. Cardinality(Ahead(x)) <= Cardinality(Ahead(x)') BY <1>4, <3>1, FS_Subset
      <3> QED BY <3>1, <3>2 DEF Rank
    <2> QED BY <1>1, <1>3, <1>5, <2>1, <2>2, <2>3
  <1>6. CASE ~Insert
    <2>1. /\ Items' = Items /\ Matching' = Matching
          /\ \A x : Rank(x)' = Rank(x) /\ Tied(x)' = Tied(x)
      BY <1>6, TableSteps, QuietSame, RenameSame
    <2>2. Cardinality(Matching) \in Nat /\ (\A x : Rank(x) \in Nat) BY ListedIsFinite
    <2> QED BY <1>1, <1>3, <2>1, <2>2
  <1> QED BY <1>5, <1>6
-----------------------------------------------------------------------------
(* Each part of the invariant is kept by every step.                       *)

\* The rows skipped are a number of rows.
LEMMA SkipIsNat ==
    ASSUME NEW totalCount \in Nat, NEW asked \in Int, NEW pageSize \in Int
    PROVE  /\ Skip(totalCount, asked, pageSize) \in Nat
           /\ SafePage(totalCount, asked, pageSize) \in Nat \ {0}
           /\ TotalPages(totalCount, pageSize) \in Nat \ {0}
  <1>1. TotalPages(totalCount, pageSize) \in Nat \ {0} BY TotalPagesBounds
  <1>2. SafePage(totalCount, asked, pageSize) \in 1..TotalPages(totalCount, pageSize)
    BY SafePageIsAPage
  <1>3. SafePageSize(pageSize) \in Nat \ {0} BY SafePageSizePositive
  <1> DEFINE p == SafePage(totalCount, asked, pageSize)
             d == SafePageSize(pageSize)
  <1>4. p - 1 \in Nat BY <1>1, <1>2
  <1> HIDE DEF p, d
  <1>5. (p - 1) * d \in Nat BY <1>3, <1>4 DEF d
  <1> QED BY <1>1, <1>2, <1>5 DEF Skip, AtLeast, p, d

\* What the reply adds to the items is rows that match, finitely many of them.
LEMMA PageItems ==
    ASSUME TypeOK, Modal, Counted, pc = "findMany", NEW s \in Orders
    PROVE  LET skip  == Skip(count, page, size)
               items == Range(Window(s, skip, size))
           IN  /\ items \subseteq Matching /\ Cardinality(items) \in Nat
               /\ Cardinality(items) = 0 => items = {}
               /\ size > 0 /\ skip < Cardinality(Matching) => items # {}
               /\ \A x \in Matching : ~Tied(x) =>
                     (x \in items <=> skip <= Rank(x) /\ Rank(x) < skip + size)
  <1> DEFINE skip  == Skip(count, page, size)
             items == Range(Window(s, skip, size))
  <1>1. count \in Nat /\ page \in Int /\ size \in Nat /\ size \in Int
    BY ListingsAssumption DEF Counted, TypeOK
  <1>2. skip \in Nat BY <1>1, SkipIsNat
  <1> HIDE DEF skip
  <1>3. /\ items \subseteq Matching
        /\ size > 0 /\ skip < Cardinality(Matching) => items # {}
        /\ \A x \in Matching : ~Tied(x) =>
              (x \in items <=> skip <= Rank(x) /\ Rank(x) < skip + size)
    BY <1>1, <1>2, WindowShows
  <1> HIDE DEF items
  <1>4. IsFiniteSet(Matching) BY ListedIsFinite
  <1>5. IsFiniteSet(items) BY <1>3, <1>4, FS_Subset
  <1>6. Cardinality(items) \in Nat BY <1>5, FS_CardinalityType
  <1>7. Cardinality(items) = 0 => items = {} BY <1>5, FS_EmptySet
  <1> QED BY <1>3, <1>6, <1>7 DEF items, skip

LEMMA TypesNext ==
    ASSUME TypeOK, Modal, Counted, [Next]_vars
    PROVE  TypeOK'
  <1> USE DEF choices, client, feed, tables, Steps, Items, TypeOK
  <1>1. CASE Login BY <1>1 DEF Login
  <1>2. CASE Expire BY <1>2 DEF Expire
  <1>3. CASE Begin BY <1>3 DEF Begin, Matching
  <1>4. CASE Admit BY <1>4 DEF Admit
  <1>5. CASE FindAccount BY <1>5 DEF FindAccount
  <1>6. CASE QueryCount
    <2>1. count' \in Int BY <1>6, ListedIsFinite DEF QueryCount
    <2>2. UNCHANGED <<kind, filter, size, mode, log, number, token, page, shown, repeated, reply,
                      target, joined, outbox, pushed, lost, watched, present, inserted, renamed>>
          /\ raced' = FALSE /\ pc' = "findMany"
      BY <1>6 DEF QueryCount
    <2> QED BY <2>1, <2>2
  <1>7. CASE QueryPage
    <2>1. PICK s \in Orders :
             LET items == Range(Window(s, Skip(count, page, size), size))
             IN  /\ shown' = shown \cup items
                 /\ repeated' = repeated \cup (shown \cap items)
                 /\ reply' = [total |-> count, items |-> Cardinality(items)]
      BY <1>7 DEF QueryPage, getPaginationData
    <2> DEFINE items == Range(Window(s, Skip(count, page, size), size))
    <2>2. pc = "findMany" /\ count \in Nat BY <1>7 DEF QueryPage, Counted
    <2>3. items \subseteq Matching /\ Cardinality(items) \in Nat BY <2>2, PageItems
    <2>4. items \subseteq Items BY <2>3 DEF Matching
    <2>5. SafePage(count, page, size) \in Nat
      <3>1. count \in Nat /\ page \in Int /\ size \in Int BY <2>2, ListingsAssumption
      <3> QED BY <3>1, SkipIsNat
    <2>6. page' \in Int BY <1>7, <2>5 DEF QueryPage, getPaginationData
    <2> HIDE DEF items
    <2>7. shown' = shown \cup items /\ repeated' = repeated \cup (shown \cap items)
          /\ reply' = [total |-> count, items |-> Cardinality(items)]
      BY <2>1 DEF items
    <2>8. UNCHANGED <<kind, filter, size, mode, log, number, token, target, joined, outbox,
                      pushed, lost, watched, present, raced, inserted, renamed>>
          /\ count' = 0 /\ pc' \in {"ask", "finished"}
      BY <1>7 DEF QueryPage
    <2>9. shown' \subseteq Items' /\ repeated' \subseteq shown' BY <2>4, <2>7, <2>8
    <2>10. reply' \in [total : Nat, items : Nat] BY <2>2, <2>3, <2>7
    <2> QED BY <2>6, <2>8, <2>9, <2>10
  <1>8. CASE FindRoom
    <2>1. target \in Rooms BY <1>8 DEF FindRoom, Modal
    <2>2. number[target] \in Int BY <2>1, ListingsAssumption
    <2> QED BY <1>8, <2>2 DEF FindRoom
  <1>9. CASE CountBefore
    <2> DEFINE before == {r \in Rooms : number[r] < count}
    <2>1. IsFiniteSet(before) BY ListingsAssumption, FS_Subset
    <2>2. Cardinality(before) \in Nat BY <2>1, FS_CardinalityType
    <2>3. size \in Nat \ {0} BY <1>9, ListingsAssumption DEF CountBefore, Modal
    <2> HIDE DEF before
    <2>4. Cardinality(before) \div size + 1 \in Int BY <2>2, <2>3
    <2>5. page' = Cardinality(before) \div size + 1 BY <1>9 DEF CountBefore, before
    <2> QED BY <1>9, <2>4, <2>5 DEF CountBefore
  <1>10. CASE FailRequest BY <1>10 DEF FailRequest
  <1>11. CASE Insert
    <2>1. /\ kind # "rooms" /\ log' \in Seq(Rows) /\ DOMAIN log' = DOMAIN log \cup {Len(log) + 1}
      BY <1>11, InsertGrows
    <2> QED BY <1>11, <2>1 DEF Insert
  <1>12. ASSUME NEW x \in outbox, Emit(x) PROVE TypeOK' BY <1>12 DEF Emit
  <1>13. ASSUME NEW x \in outbox, Drop(x) PROVE TypeOK' BY <1>13 DEF Drop
  <1>14. CASE Join BY <1>14 DEF Join
  <1>15. CASE Disconnect BY <1>15 DEF Disconnect
  <1>16. ASSUME NEW r \in Rooms, Rename(r) PROVE TypeOK' BY <1>16 DEF Rename
  <1>17. CASE Finished \/ UNCHANGED vars BY <1>17 DEF Finished, vars
  <1> HIDE DEF TypeOK
  <1> QED BY <1>1, <1>2, <1>3, <1>4, <1>5, <1>6, <1>7, <1>8, <1>9, <1>10, <1>11, <1>12, <1>13,
             <1>14, <1>15, <1>16, <1>17 DEF Next

LEMMA ModalNext ==
    ASSUME TypeOK, Modal, [Next]_vars
    PROVE  Modal'
  <1> USE DEF choices, client, feed, tables, Steps, Modal
  <1>1. CASE Login BY <1>1 DEF Login
  <1>2. CASE Expire BY <1>2 DEF Expire
  <1>3. CASE Begin BY <1>3 DEF Begin
  <1>4. CASE Admit BY <1>4 DEF Admit
  <1>5. CASE FindAccount BY <1>5 DEF FindAccount
  <1>6. CASE QueryCount BY <1>6 DEF QueryCount
  <1>7. CASE QueryPage BY <1>7 DEF QueryPage
  <1>8. CASE FindRoom BY <1>8 DEF FindRoom
  <1>9. CASE CountBefore BY <1>9 DEF CountBefore
  <1>10. CASE FailRequest BY <1>10 DEF FailRequest
  <1>11. CASE Insert BY <1>11 DEF Insert
  <1>12. ASSUME NEW x \in outbox, Emit(x) PROVE Modal' BY <1>12 DEF Emit
  <1>13. ASSUME NEW x \in outbox, Drop(x) PROVE Modal' BY <1>13 DEF Drop
  <1>14. CASE Join BY <1>14 DEF Join
  <1>15. CASE Disconnect BY <1>15 DEF Disconnect
  <1>16. ASSUME NEW r \in Rooms, Rename(r) PROVE Modal'
    <2>1. PICK n \in Numbers \ Range(number) : number' = [number EXCEPT ![r] = n]
      BY <1>16 DEF Rename
    <2>2. number \in [Rooms -> Numbers] /\ (\A a, b \in Rooms : number[a] = number[b] => a = b)
      BY DEF Injection, IsInjective
    <2>3. \A a \in Rooms : number[a] # n BY <2>1, <2>2 DEF Range
    <2>4. number' \in [Rooms -> Numbers] /\ (\A a, b \in Rooms : number'[a] = number'[b] => a = b)
      BY <2>1, <2>2, <2>3
    <2>5. number' \in Injection(Rooms, Numbers) BY <2>4 DEF Injection, IsInjective
    <2> QED BY <1>16, <2>5 DEF Rename
  <1>17. CASE Finished \/ UNCHANGED vars BY <1>17 DEF Finished, vars
  <1> HIDE DEF Modal
  <1> QED BY <1>1, <1>2, <1>3, <1>4, <1>5, <1>6, <1>7, <1>8, <1>9, <1>10, <1>11, <1>12, <1>13,
             <1>14, <1>15, <1>16, <1>17 DEF Next

LEMMA CountedNext ==
    ASSUME TypeOK, TypeOK', Modal, Counted, [Next]_vars
    PROVE  Counted'
  <1> SUFFICES ASSUME pc' = "findMany"
               PROVE  /\ count' \in Nat
                      /\ ~Moved' => /\ count' <= Cardinality(Matching')
                                    /\ raced' \/ count' = Cardinality(Matching')
      BY DEF Counted
  <1>1. Cardinality(Matching) \in Nat BY ListedIsFinite
  <1>2. Cardinality(Matching') \in Nat
    <2>1. FiniteListing' BY FinitelyListed, PTL
    <2> QED BY <2>1, FS_CardinalityType DEF FiniteListing
  <1>3. CASE QueryCount
    <2>1. Matching' = Matching BY <1>3, QuietSame DEF QueryCount, Quiet, choices, tables
    <2> QED BY <1>1, <1>3, <2>1 DEF QueryCount
  <1>4. CASE ~QueryCount
    <2>1. pc = "findMany" /\ count' = count
      BY <1>4 DEF Next, vars, client, Login, Expire, Begin, Admit, FindAccount, QueryPage,
                  FindRoom, CountBefore, FailRequest, Insert, Emit, Drop, Join, Disconnect,
                  Rename, Finished
    <2>2. count \in Nat BY <2>1 DEF Counted
    <2>3. ASSUME ~Moved' PROVE /\ count <= Cardinality(Matching')
                               /\ raced' \/ count = Cardinality(Matching')
      <3>1. ~Moved /\ Cardinality(Matching) <= Cardinality(Matching')
            /\ (~Insert => Matching' = Matching)
        BY <2>3, RowsStay
      <3>2. count <= Cardinality(Matching) /\ (raced \/ count = Cardinality(Matching))
        BY <2>1, <3>1 DEF Counted
      <3>3. CASE Insert
        <4>1. raced' BY <2>1, <3>3 DEF Insert
        <4> QED BY <1>1, <1>2, <2>2, <3>1, <3>2, <4>1
      <3>4. CASE ~Insert
        <4>1. raced' = raced
          BY <1>4, <3>4 DEF Next, vars, Login, Expire, Begin, Admit, FindAccount, QueryPage,
             FindRoom, CountBefore, FailRequest, Emit, Drop, Join, Disconnect, Rename, Finished
        <4> QED BY <3>1, <3>2, <3>4, <4>1
      <3> QED BY <3>3, <3>4
    <2> QED BY <2>1, <2>2, <2>3
  <1> QED BY <1>3, <1>4
\* Since nothing has gone, what is listed now is what was there at first and what came
\* meanwhile; what came while the client watched is pushed, on its way or lost.
LEMMA FedNext ==
    ASSUME TypeOK, TypeOK', Modal, Fed, [Next]_vars
    PROVE  Fed'
  <1> USE DEF choices, client, feed, tables
  <1> SUFFICES ASSUME pc' # "off", ~Moved'
               PROVE  /\ present' \subseteq Matching'
                      /\ kind' = "rooms" => present' = Matching'
                      /\ watched' => Matching' \ present' \subseteq pushed' \cup outbox' \cup lost'
      BY DEF Fed
  <1>1. /\ ~Moved /\ kind' = kind /\ Matching \subseteq Matching'
        /\ ~Insert => Matching' = Matching
    BY RowsStay
  <1>2. CASE Begin
    <2>1. Matching' = Matching BY <1>2, QuietSame DEF Begin, Quiet
    <2> QED BY <1>2, <2>1 DEF Begin
  <1>3. CASE ~Begin
    <2>1. pc # "off" /\ present' = present
      BY <1>3 DEF Next, vars, Login, Expire, Admit, FindAccount, QueryCount, QueryPage,
                  FindRoom, CountBefore, FailRequest, Insert, Emit, Drop, Join, Disconnect,
                  Rename, Finished, Steps
    <2>2. /\ present \subseteq Matching
          /\ kind = "rooms" => present = Matching
          /\ watched => Matching \ present \subseteq pushed \cup outbox \cup lost
      BY <1>1, <2>1 DEF Fed
    <2>3. CASE Insert
      <3>1. kind # "rooms" /\ Matching' \subseteq Matching \cup {Len(log) + 1}
        BY <2>3, InsertGrows
      <3>2. /\ outbox' = outbox \cup {Len(log) + 1}
            /\ UNCHANGED <<pushed, lost, watched>>
        BY <2>3 DEF Insert
      <3> QED BY <1>1, <2>1, <2>2, <3>1, <3>2
    <2>4. CASE ~Insert
      <3>1. ASSUME watched'
            PROVE  watched /\ pushed \cup outbox \cup lost \subseteq pushed' \cup outbox' \cup lost'
        <4>1. ASSUME NEW x \in outbox, Emit(x)
              PROVE  watched /\ pushed \cup outbox \cup lost \subseteq pushed' \cup outbox' \cup lost'
          BY <3>1, <4>1 DEF Emit, Modal
        <4>2. ASSUME NEW x \in outbox, Drop(x)
              PROVE  watched /\ pushed \cup outbox \cup lost \subseteq pushed' \cup outbox' \cup lost'
          BY <3>1, <4>2 DEF Drop
        <4>3. CASE Join \/ Disconnect BY <3>1, <4>3 DEF Join, Disconnect
        <4>4. CASE UNCHANGED feed BY <3>1, <4>4
        <4>5. \/ \E x \in outbox : Emit(x) \/ Drop(x)
              \/ Join \/ Disconnect \/ UNCHANGED feed
          BY <1>3, <2>4 DEF Next, vars, Login, Expire, Admit, FindAccount, QueryCount, QueryPage,
             FindRoom, CountBefore, FailRequest, Rename, Finished
        <4> QED BY <4>1, <4>2, <4>3, <4>4, <4>5
      <3> QED BY <1>1, <2>1, <2>2, <2>4, <3>1
    <2> QED BY <2>3, <2>4
  <1> QED BY <1>2, <1>3

\* Who looks for a room asks for a page of all rooms.
LEMMA AllRoomsListed ==
    ASSUME TypeOK, Modal, mode \in {"find", "show"}
    PROVE  /\ kind = "rooms" /\ Matching = Rooms
           /\ \A x : Ahead(x) = {r \in Rooms : number[r] < number[x]} /\ ~Tied(x)
  <1>1. kind = "rooms" /\ ~filter.search BY ListingsAssumption DEF Modal
  <1>2. Matching = Rooms BY <1>1 DEF Matching, Items, Matches
  <1>3. \A x, y : Before(y, x) <=> number[y] < number[x] BY <1>1 DEF Before
  <1> QED BY <1>1, <1>2, <1>3 DEF Ahead, Tied

LEMMA SoughtNext ==
    ASSUME TypeOK, TypeOK', Modal, Sought, [Next]_vars
    PROVE  Sought'
  <1> USE DEF choices, client, feed, tables
  <1> SUFFICES ASSUME ~renamed'
               PROVE  /\ pc' = "countBefore" => count' = number'[target']
                      /\ mode' = "show" => page' = Rank(target)' \div size' + 1
      BY DEF Sought
  <1>1. ~Moved' BY DEF Moved
  <1>2. ~renamed /\ target' = target /\ number' = number
    BY DEF Next, vars, Login, Expire, Begin, Admit, FindAccount, QueryCount, QueryPage, FindRoom,
           CountBefore, FailRequest, Insert, Emit, Drop, Join, Disconnect, Rename, Finished
  <1>3. ASSUME pc' = "countBefore" PROVE count' = number'[target']
    <2>1. CASE FindRoom BY <1>2, <2>1 DEF FindRoom
    <2>2. CASE ~FindRoom
      <3>1. pc = "countBefore" /\ count' = count
        BY <1>3, <2>2 DEF Next, vars, Login, Expire, Begin, Admit, FindAccount, QueryCount,
           QueryPage, CountBefore, FailRequest, Insert, Emit, Drop, Join, Disconnect, Rename,
           Finished
      <3> QED BY <1>2, <3>1 DEF Sought
    <2> QED BY <2>1, <2>2
  <1>4. ASSUME mode' = "show" PROVE page' = Rank(target)' \div size' + 1
    <2>1. CASE CountBefore
      <3>1. mode = "find" /\ count = number[target] BY <1>2, <2>1 DEF CountBefore, Modal, Sought
      <3>2. Ahead(target) = {r \in Rooms : number[r] < count} BY <3>1, AllRoomsListed
      <3>3. page' = Rank(target) \div size + 1 BY <2>1, <3>2 DEF CountBefore, Rank
      <3>4. Quiet BY <2>1 DEF CountBefore, Quiet
      <3>5. \A x : Rank(x)' = Rank(x) BY <3>4, QuietSame
      <3> QED BY <1>2, <3>3, <3>4, <3>5 DEF Quiet
    <2>2. CASE ~CountBefore
      <3>1. mode = "show" /\ page' = page /\ size' = size
        BY <1>4, <2>2 DEF Next, vars, Login, Expire, Begin, Admit, FindAccount, QueryCount,
           QueryPage, FindRoom, FailRequest, Insert, Emit, Drop, Join, Disconnect, Rename,
           Finished
      <3>2. ~Insert BY <3>1 DEF Modal, Insert
      <3>3. \A x : Rank(x)' = Rank(x) BY <1>1, <3>2, RowsStay
      <3> QED BY <1>2, <3>1, <3>3 DEF Sought
    <2> QED BY <2>1, <2>2
  <1> QED BY <1>3, <1>4

\* A page size that a client asks for is used as it is, unless it is 0.
LEMMA PageSizeKept ==
    ASSUME NEW n \in Nat \ {0}
    PROVE  SafePageSize(n) = n
  BY DEF SafePageSize, AtLeast, OrElse

\* The page of the room that is looked for shows it.
LEMMA FoundNext ==
    ASSUME TypeOK, Modal, Counted, Sought, FoundPageShowsRoom, [Next]_vars
    PROVE  FoundPageShowsRoom'
  <1> USE DEF choices, client, feed, tables
  <1> SUFFICES ASSUME pc' = "finished", mode' = "show", ~renamed' PROVE target' \in shown'
      BY DEF FoundPageShowsRoom
  <1>1. CASE QueryPage
    <2>1. mode = "show" /\ ~renamed /\ target' = target /\ pc = "findMany" BY <1>1 DEF QueryPage
    <2>2. PICK s \in Orders : shown' = shown \cup Range(Window(s, Skip(count, page, size), size))
      BY <1>1 DEF QueryPage, getPaginationData
    <2>3. kind = "rooms" /\ target \in Matching /\ ~Tied(target) BY <2>1, AllRoomsListed DEF Modal
    <2>4. count \in Nat /\ count = Cardinality(Matching)
      BY <2>1, <2>3 DEF Modal, Counted, Moved
    <2>5. page = Rank(target) \div size + 1 BY <2>1 DEF Sought
    <2>6. Rank(target) + 1 \in 1..count /\ Rank(target) \in Nat
      BY <2>3, <2>4, PositionOfUntied, ListedIsFinite
    <2>7. size \in Nat \ {0} /\ size \in Int /\ SafePageSize(size) = size
      BY <2>1, ListingsAssumption, PageSizeKept DEF TypeOK, Modal
    <2>8. (Rank(target) + 1) - 1 = Rank(target) BY <2>6
    <2>9. OnPage(Rank(target) + 1, count, page, size)
      <3> DEFINE i == Rank(target) + 1
      <3>1. i \in 1..count /\ i - 1 = Rank(target) BY <2>6, <2>8
      <3> HIDE DEF i
      <3>2. OnPage(i, count, (i - 1) \div SafePageSize(size) + 1, size)
        BY <2>4, <2>7, <3>1, PageOfRow
      <3> QED BY <2>5, <2>7, <3>1, <3>2 DEF i
    <2>10. Skip(count, page, size) \in Nat
      <3>1. page \in Int BY DEF TypeOK
      <3> QED BY <2>4, <2>7, <3>1, SkipIsNat
    <2>11. /\ Skip(count, page, size) <= Rank(target)
           /\ Rank(target) < Skip(count, page, size) + size
      BY <2>6, <2>7, <2>9, <2>10 DEF OnPage
    <2>12. target \in Range(Window(s, Skip(count, page, size), size))
      BY <2>1, <2>3, <2>11, PageItems
    <2> QED BY <2>1, <2>2, <2>12
  <1>2. CASE ~QueryPage
    <2>1. pc = "finished" /\ mode = "show" /\ ~renamed /\ UNCHANGED <<target, shown>>
      BY <1>2 DEF Next, vars, Login, Expire, Begin, Admit, FindAccount, QueryCount, FindRoom,
         CountBefore, FailRequest, Insert, Emit, Drop, Join, Disconnect, Rename, Finished
    <2> QED BY <2>1 DEF FoundPageShowsRoom
  <1> QED BY <1>1, <1>2

\* A page is read behind fewer rows than were counted, and those are still there.
LEMMA NoEmptyNext ==
    ASSUME TypeOK, TypeOK', Modal, Counted, NoEmptyPage, [Next]_vars
    PROVE  NoEmptyPage'
  <1> USE DEF choices, client, feed, tables
  <1> SUFFICES ASSUME reply' # None, reply'.items = 0, size' # 0, ~Moved' PROVE reply'.total = 0
      BY DEF NoEmptyPage
  <1>1. ~Moved /\ size' = size BY RowsStay
  <1>2. CASE QueryPage
    <2>1. pc = "findMany" BY <1>2 DEF QueryPage
    <2>2. PICK s \in Orders :
             reply' = [total |-> count,
                       items |-> Cardinality(Range(Window(s, Skip(count, page, size), size)))]
      BY <1>2 DEF QueryPage, getPaginationData
    <2> DEFINE items == Range(Window(s, Skip(count, page, size), size))
    <2>3. size \in Nat \ {0} /\ size \in Int /\ page \in Int
      BY <1>1, ListingsAssumption DEF TypeOK
    <2>4. /\ Cardinality(items) = 0 => items = {}
          /\ Skip(count, page, size) < Cardinality(Matching) => items # {}
      BY <2>1, <2>3, PageItems
    <2> HIDE DEF items
    <2>5. items = {} /\ reply'.total = count BY <2>2, <2>4 DEF items
    <2>6. count \in Nat /\ count <= Cardinality(Matching) BY <1>1, <2>1 DEF Counted
    <2>7. ASSUME count # 0 PROVE FALSE
      <3>1. Skip(count, page, size) \in 0..(count - 1) BY <2>3, <2>6, <2>7, SkipLeavesRows
      <3>2. Cardinality(Matching) \in Nat BY ListedIsFinite
      <3> QED BY <2>4, <2>5, <2>6, <3>1, <3>2
    <2> QED BY <2>5, <2>7
  <1>3. CASE ~QueryPage
    <2>1. reply' = reply
      BY <1>3 DEF Next, vars, Login, Expire, Begin, Admit, FindAccount, QueryCount, FindRoom,
         CountBefore, FailRequest, Insert, Emit, Drop, Join, Disconnect, Rename, Finished
    <2> QED BY <1>1, <2>1 DEF NoEmptyPage
  <1> QED BY <1>2, <1>3
\* One page of a walk: it shows the untied rows of its ranks, and the walk goes on to
\* the next page or ends with the last one.
LEMMA WalkPage ==
    ASSUME TypeOK, Modal, Counted, PagesBefore, Walking, QueryPage
    PROVE  \E items \in SUBSET Matching :
              /\ shown' = shown \cup items /\ repeated' = repeated \cup (shown \cap items)
              /\ \A x \in Matching : ~Tied(x) =>
                    (x \in items <=> (page - 1) * size <= Rank(x) /\ Rank(x) < page * size)
              /\ page \in Nat \ {0} /\ size \in Nat \ {0}
              /\ \/ pc' = "ask" /\ page' = page + 1 /\ page + 1 \in 1..TotalPages(count, size)
                 \/ pc' = "finished" /\ page' = page /\ count <= page * size
  <1>1. pc = "findMany" BY DEF QueryPage
  <1>2. size \in Nat \ {0} /\ size \in Int /\ SafePageSize(size) = size
    BY ListingsAssumption, PageSizeKept DEF Walking, TypeOK
  <1>3. count \in Nat /\ page \in 1..TotalPages(count, size)
    BY <1>1 DEF Counted, PagesBefore
  <1>4. /\ TotalPages(count, size) \in Nat \ {0}
        /\ count <= size * TotalPages(count, size)
    BY <1>2, <1>3, TotalPagesBounds
  <1>5. /\ SafePage(count, page, size) = page
        /\ Skip(count, page, size) = (page - 1) * size
    BY <1>2, <1>3, PageKept
  <1>6. page \in Nat \ {0} BY <1>3, <1>4
  <1>7. page * size = (page - 1) * size + size
    <2> DEFINE a == page - 1
    <2>1. a \in Nat /\ page = a + 1 BY <1>6
    <2> HIDE DEF a
    <2>2. (a + 1) * size = a * size + size BY <1>2, <2>1, SMT
    <2> QED BY <2>1, <2>2 DEF a
  <1>8. PICK s \in Orders :
           LET items == Range(Window(s, (page - 1) * size, size))
           IN  shown' = shown \cup items /\ repeated' = repeated \cup (shown \cap items)
    BY <1>5 DEF QueryPage, getPaginationData
  <1> DEFINE items == Range(Window(s, (page - 1) * size, size))
  <1>9. /\ items \subseteq Matching
        /\ \A x \in Matching : ~Tied(x) =>
              (x \in items <=> (page - 1) * size <= Rank(x) /\ Rank(x) < page * size)
    BY <1>1, <1>5, <1>7, PageItems
  <1>10. shown' = shown \cup items /\ repeated' = repeated \cup (shown \cap items) BY <1>8
  <1> HIDE DEF items
  <1>11. \/ pc' = "ask" /\ page' = page + 1 /\ page + 1 \in 1..TotalPages(count, size)
         \/ pc' = "finished" /\ page' = page /\ count <= page * size
    <2>1. CASE page < TotalPages(count, size)
      BY <1>4, <1>5, <1>6, <2>1 DEF QueryPage, getPaginationData, Walking
    <2>2. CASE ~(page < TotalPages(count, size))
      <3>1. page = TotalPages(count, size) BY <1>3, <1>4, <2>2
      <3>2. count <= size * page BY <1>4, <3>1
      <3>3. size * page = page * size BY <1>2, <1>6, SMT
      <3>4. pc' = "finished" /\ page' = page
        BY <1>5, <2>2 DEF QueryPage, getPaginationData
      <3> QED BY <3>2, <3>3, <3>4
    <2> QED BY <2>1, <2>2
  <1> QED BY <1>2, <1>6, <1>9, <1>10, <1>11

LEMMA PagesBeforeNext ==
    ASSUME TypeOK, TypeOK', Modal, Counted, Fed, PagesBefore, [Next]_vars
    PROVE  PagesBefore'
  <1> USE DEF choices, client, feed, tables
  <1> SUFFICES ASSUME Walking', pc' \notin {"off", "finished"}
               PROVE  /\ page' \in 1..TotalPages(Cardinality(Matching'), size')
                      /\ pc' = "findMany" => page' \in 1..TotalPages(count', size')
                      /\ \A x \in present' :
                            \/ x \in shown' \/ Tied(x)'
                            \/ (page' - 1) * size' <= Rank(x)'
                      /\ inserted' \/ \A x \in shown' :
                                        Tied(x)' \/ Rank(x)' < (page' - 1) * size'
      BY DEF PagesBefore
  <1>1. ~Moved' BY DEF Walking
  <1>2. /\ ~Moved /\ size' = size
        /\ Cardinality(Matching) <= Cardinality(Matching')
        /\ \A x \in Items : Rank(x) <= Rank(x)' /\ (Tied(x) => Tied(x)')
        /\ ~Insert => /\ Matching' = Matching
                      /\ \A x : Rank(x)' = Rank(x) /\ Tied(x)' = Tied(x)
    BY <1>1, RowsStay
  <1>3. mode = "walk"
    BY DEF Walking, Next, vars, Login, Expire, Begin, Admit, FindAccount, QueryCount, QueryPage,
           FindRoom, CountBefore, FailRequest, Insert, Emit, Drop, Join, Disconnect, Rename,
           Finished
  <1>4. Walking BY <1>2, <1>3 DEF Walking
  <1>5. size \in Nat \ {0} /\ size \in Int BY <1>4, ListingsAssumption DEF Walking, TypeOK
  <1>6. Cardinality(Matching) \in Nat /\ (\A x : Rank(x) \in Nat) BY ListedIsFinite
  <1>7. Cardinality(Matching') \in Nat /\ (\A x : Rank(x)' \in Nat)
    <2>1. FiniteListing' BY FinitelyListed, PTL
    <2> QED BY <2>1, FS_CardinalityType DEF FiniteListing
  <1>8. /\ TotalPages(Cardinality(Matching), size) \in Nat \ {0}
        /\ TotalPages(Cardinality(Matching'), size) \in Nat \ {0}
        /\ TotalPages(Cardinality(Matching), size) <= TotalPages(Cardinality(Matching'), size)
    BY <1>2, <1>5, <1>6, <1>7, TotalPagesGrow, TotalPagesBounds
  <1>9. CASE Begin
    <2>1. page' = 1 /\ shown' = {} /\ pc' = "ask" BY <1>3, <1>9 DEF Begin, Modal
    <2>2. (page' - 1) * size' = 0 BY <1>2, <1>5, <2>1
    <2>3. page' \in 1..TotalPages(Cardinality(Matching'), size') BY <1>2, <1>8, <2>1
    <2> QED BY <1>7, <2>1, <2>2, <2>3
  <1>10. CASE QueryPage
    <2>1. PICK items \in SUBSET Matching :
             /\ shown' = shown \cup items /\ repeated' = repeated \cup (shown \cap items)
             /\ \A x \in Matching : ~Tied(x) =>
                   (x \in items <=> (page - 1) * size <= Rank(x) /\ Rank(x) < page * size)
             /\ page \in Nat \ {0}
             /\ \/ pc' = "ask" /\ page' = page + 1 /\ page + 1 \in 1..TotalPages(count, size)
                \/ pc' = "finished" /\ page' = page /\ count <= page * size
      BY <1>4, <1>10, WalkPage
    <2>2. pc = "findMany" /\ UNCHANGED <<present, inserted>> /\ ~Insert
      BY <1>10, <2>1 DEF QueryPage, Insert
    <2>3. pc' = "ask" /\ page' = page + 1 /\ page + 1 \in 1..TotalPages(count, size) BY <2>1
    <2>4. count \in Nat /\ count <= Cardinality(Matching) BY <1>2, <2>2 DEF Counted
    <2>5. TotalPages(count, size) <= TotalPages(Cardinality(Matching), size)
      BY <1>5, <1>6, <2>4, TotalPagesGrow
    <2>6. TotalPages(count, size) \in Nat BY <1>5, <2>4, TotalPagesBounds
    <2>7. page' \in 1..TotalPages(Cardinality(Matching'), size')
      BY <1>2, <1>8, <2>1, <2>3, <2>5, <2>6
    <2>8. /\ \A x \in present : x \in shown \/ Tied(x) \/ (page - 1) * size <= Rank(x)
          /\ inserted \/ \A x \in shown : Tied(x) \/ Rank(x) < (page - 1) * size
      BY <1>4, <2>2 DEF PagesBefore
    <2>9. (page' - 1) * size' = page * size BY <1>2, <2>1, <2>3
    <2>10. (page - 1) * size \in Nat /\ page * size \in Nat /\ (page - 1) * size <= page * size
      <3> DEFINE a == page - 1
      <3>1. a \in Nat /\ page = a + 1 BY <2>1
      <3> HIDE DEF a
      <3>2. a * size \in Nat /\ (a + 1) * size = a * size + size BY <1>5, <3>1, SMT
      <3> QED BY <1>5, <3>1, <3>2 DEF a
    <2>11. ASSUME NEW x \in present PROVE x \in shown' \/ Tied(x) \/ page * size <= Rank(x)
      <3>1. x \in Matching BY <1>2, <2>2 DEF Fed
      <3> QED BY <1>6, <2>1, <2>8, <2>10, <3>1
    <2>12. ASSUME ~inserted, NEW x \in shown' PROVE Tied(x) \/ Rank(x) < page * size
      <3>1. CASE x \in shown BY <1>6, <2>8, <2>10, <2>12, <3>1
      <3>2. CASE x \notin shown BY <2>1, <2>12, <3>2
      <3> QED BY <3>1, <3>2
    <2> QED BY <1>2, <2>2, <2>3, <2>7, <2>9, <2>11, <2>12
  <1>11. CASE ~Begin /\ ~QueryPage
    <2>1. /\ pc \notin {"off", "finished"} /\ UNCHANGED <<page, present, shown>>
      BY <1>3, <1>11 DEF Next, vars, Login, Expire, Admit, FindAccount, QueryCount, FindRoom,
         CountBefore, FailRequest, Insert, Emit, Drop, Join, Disconnect, Rename, Finished, Steps,
         Modal
    <2>2. /\ page \in 1..TotalPages(Cardinality(Matching), size)
          /\ pc = "findMany" => page \in 1..TotalPages(count, size)
          /\ \A x \in present : x \in shown \/ Tied(x) \/ (page - 1) * size <= Rank(x)
          /\ inserted \/ \A x \in shown : Tied(x) \/ Rank(x) < (page - 1) * size
      BY <1>4, <2>1 DEF PagesBefore
    <2>3. page' \in 1..TotalPages(Cardinality(Matching'), size') BY <1>2, <1>8, <2>1, <2>2
    <2>4. pc' = "findMany" => page' \in 1..TotalPages(count', size')
      <3>1. CASE QueryCount BY <1>2, <2>1, <2>2, <3>1 DEF QueryCount
      <3>2. CASE ~QueryCount
        <4>1. pc' = "findMany" => pc = "findMany" /\ count' = count
          BY <1>11, <3>2 DEF Next, vars, Login, Expire, Admit, FindAccount, FindRoom, CountBefore,
             FailRequest, Insert, Emit, Drop, Join, Disconnect, Rename, Finished
        <4> QED BY <1>2, <2>1, <2>2, <4>1
      <3> QED BY <3>1, <3>2
    <2>5. (page - 1) * size \in Int BY <1>5, <1>8, <2>2
    <2>6. ASSUME NEW x \in present
          PROVE  x \in shown \/ Tied(x)' \/ (page - 1) * size <= Rank(x)'
      <3>1. x \in Items BY DEF TypeOK
      <3> QED BY <1>2, <1>6, <1>7, <2>2, <2>5, <3>1
    <2>7. inserted' \/ \A x \in shown : Tied(x)' \/ Rank(x)' < (page - 1) * size
      <3>1. CASE Insert
        <4>1. inserted' BY <2>1, <3>1 DEF Insert
        <4> QED BY <4>1
      <3>2. CASE ~Insert
        <4>1. inserted' = inserted
          BY <3>2 DEF Next, vars, Login, Expire, Begin, Admit, FindAccount, QueryCount, QueryPage,
             FindRoom, CountBefore, FailRequest, Emit, Drop, Join, Disconnect, Rename, Finished
        <4> QED BY <1>2, <2>2, <3>2, <4>1
      <3> QED BY <3>1, <3>2
    <2> QED BY <1>2, <2>1, <2>3, <2>4, <2>6, <2>7
  <1> QED BY <1>9, <1>10, <1>11

LEMMA WalkedNext ==
    ASSUME TypeOK, TypeOK', Modal, Counted, Fed, PagesBefore, Walked, [Next]_vars
    PROVE  Walked'
  <1> USE DEF choices, client, feed, tables
  <1> SUFFICES ASSUME Walking'
               PROVE  /\ pc' = "finished" =>
                            raced' \/ \A x \in present' : x \in shown' \/ Tied(x)'
                      /\ inserted' \/ \A x \in repeated' : Tied(x)'
      BY DEF Walked
  <1>1. ~Moved' BY DEF Walking
  <1>2. /\ ~Moved /\ size' = size
        /\ \A x \in Items : Tied(x) => Tied(x)'
        /\ ~Insert => \A x : Tied(x)' = Tied(x)
    BY <1>1, RowsStay
  <1>3. mode = "walk"
    BY DEF Walking, Next, vars, Login, Expire, Begin, Admit, FindAccount, QueryCount, QueryPage,
           FindRoom, CountBefore, FailRequest, Insert, Emit, Drop, Join, Disconnect, Rename,
           Finished
  <1>4. Walking BY <1>2, <1>3 DEF Walking
  <1>5. inserted \/ \A x \in repeated : Tied(x) BY <1>4 DEF Walked
  <1>6. CASE QueryPage
    <2>1. PICK items \in SUBSET Matching :
             /\ shown' = shown \cup items /\ repeated' = repeated \cup (shown \cap items)
             /\ \A x \in Matching : ~Tied(x) =>
                   (x \in items <=> (page - 1) * size <= Rank(x) /\ Rank(x) < page * size)
             /\ page \in Nat \ {0} /\ size \in Nat \ {0}
             /\ \/ pc' = "ask" /\ page' = page + 1 /\ page + 1 \in 1..TotalPages(count, size)
                \/ pc' = "finished" /\ page' = page /\ count <= page * size
      BY <1>4, <1>6, WalkPage
    <2>2. pc = "findMany" /\ UNCHANGED <<present, raced, inserted>> /\ ~Insert
      BY <1>6, <2>1 DEF QueryPage, Insert
    <2>3. /\ \A x \in present : x \in shown \/ Tied(x) \/ (page - 1) * size <= Rank(x)
          /\ inserted \/ \A x \in shown : Tied(x) \/ Rank(x) < (page - 1) * size
      BY <1>4, <2>2 DEF PagesBefore
    <2>4. \A x : Rank(x) \in Nat BY ListedIsFinite
    <2>5. (page - 1) * size \in Int /\ page * size \in Int BY <2>1
    <2>6. ASSUME pc' = "finished", ~raced, NEW x \in present PROVE x \in shown' \/ Tied(x)
      <3>1. x \in Matching BY <1>2, <2>2 DEF Fed
      <3>2. count = Cardinality(Matching) /\ count \in Nat BY <1>2, <2>2, <2>6 DEF Counted
      <3>3. count <= page * size BY <2>1, <2>6
      <3>4. CASE ~Tied(x)
        <4>1. PICK s \in Orders : TRUE BY <1>6 DEF QueryPage
        <4>2. Rank(x) + 1 \in 1..Cardinality(Matching) BY <3>1, <3>4, <4>1, PositionOfUntied
        <4>3. Rank(x) < page * size BY <2>4, <2>5, <3>2, <3>3, <4>2
        <4> QED BY <2>1, <2>3, <3>1, <4>3
      <3> QED BY <3>4
    <2>7. ASSUME ~inserted, NEW x \in repeated' PROVE Tied(x)
      <3>1. CASE x \in repeated BY <1>5, <2>7, <3>1
      <3>2. CASE x \in shown \cap items BY <2>1, <2>3, <2>4, <2>5, <2>7, <3>2
      <3> QED BY <2>1, <2>7, <3>1, <3>2
    <2> QED BY <1>2, <2>2, <2>6, <2>7
  <1>7. CASE ~QueryPage
    <2>1. /\ pc' = "finished" => pc = "finished" /\ UNCHANGED <<present, shown>>
          /\ repeated' = repeated
      BY <1>7 DEF Next, vars, Login, Expire, Begin, Admit, FindAccount, QueryCount, FindRoom,
         CountBefore, FailRequest, Insert, Emit, Drop, Join, Disconnect, Rename, Finished
    <2>2. /\ pc' = "finished" /\ raced => raced'
          /\ inserted => inserted'
      <3>1. raced \in BOOLEAN /\ inserted \in BOOLEAN BY DEF TypeOK
      <3>2. CASE Insert BY <3>1, <3>2 DEF Insert
      <3>3. CASE ~Insert
        <4>1. inserted' = inserted /\ (raced' = raced \/ pc' = "findMany")
          BY <1>7, <3>3 DEF Next, vars, Login, Expire, Begin, Admit, FindAccount, QueryCount,
             FindRoom, CountBefore, FailRequest, Emit, Drop, Join, Disconnect, Rename, Finished
        <4> QED BY <4>1
      <3> QED BY <3>2, <3>3
    <2>3. present \subseteq Items /\ repeated \subseteq Items BY DEF TypeOK
    <2>4. pc = "finished" => raced \/ \A x \in present : x \in shown \/ Tied(x)
      BY <1>4 DEF Walked
    <2> QED BY <1>2, <1>5, <2>1, <2>2, <2>3, <2>4
  <1> QED BY <1>6, <1>7

-----------------------------------------------------------------------------
(* What a client may rely on.                                              *)

LEMMA InitListInv == Init => ListInv /\ FoundPageShowsRoom /\ NoEmptyPage
  <1> SUFFICES ASSUME Init PROVE ListInv /\ FoundPageShowsRoom /\ NoEmptyPage OBVIOUS
  <1> USE DEF Init
  <1>1. number \in Injection(Rooms, Numbers) /\ filter \in Filters
    BY ListingsAssumption DEF FiltersOf
  <1>2. number \in [Rooms -> Numbers] BY <1>1 DEF Injection
  <1>3. log \in Seq(Rows)
    <2>1. << >> \in Seq(Rows) OBVIOUS
    <2>2. log = << >> \/ log \in InitialLogs OBVIOUS
    <2> QED BY <2>1, <2>2, ListingsAssumption
  <1>4. page \in Int BY ListingsAssumption
  <1>5. TypeOK
    <2>1. /\ kind \in Kinds /\ filter \in Filters /\ size \in PageSizes
          /\ mode \in Modes \cup {"show"}
          /\ pc \in {"off", "ask", "finished"} \cup Steps
          /\ page \in Int /\ count \in Int
          /\ target \in Rooms \cup {None}
      BY <1>1, <1>4
    <2>2. reply \in [total : Nat, items : Nat] \cup {None} OBVIOUS
    <2>3. shown = {} /\ repeated = {} /\ outbox = {} /\ pushed = {} /\ lost = {} /\ present = {}
      OBVIOUS
    <2>4. /\ token \in BOOLEAN /\ joined \in BOOLEAN /\ watched \in BOOLEAN
          /\ raced \in BOOLEAN /\ inserted \in BOOLEAN /\ renamed \in BOOLEAN
      OBVIOUS
    <2> HIDE DEF Init
    <2> QED BY <1>2, <1>3, <2>1, <2>2, <2>3, <2>4 DEF TypeOK
  <1>6. mode \in Modes /\ mode # "show" BY ListingsAssumption
  <1>7. Modal BY <1>1, <1>6 DEF Modal
  <1>8. Counted /\ Sought /\ Fed /\ PagesBefore /\ FoundPageShowsRoom /\ NoEmptyPage
    BY <1>6 DEF Counted, Sought, Fed, PagesBefore, FoundPageShowsRoom, NoEmptyPage
  <1>9. Walked BY DEF Walked
  <1> QED BY <1>5, <1>7, <1>8, <1>9 DEF ListInv

THEOREM ListingsHold == Spec => [](ListInv /\ FoundPageShowsRoom /\ NoEmptyPage)
  <1>1. ASSUME ListInv, FoundPageShowsRoom, NoEmptyPage, [Next]_vars
        PROVE  ListInv' /\ FoundPageShowsRoom' /\ NoEmptyPage'
    <2> USE <1>1 DEF ListInv
    <2>1. TypeOK' BY TypesNext
    <2>2. Modal' BY ModalNext
    <2>3. Counted' BY <2>1, CountedNext
    <2>4. Sought' BY <2>1, SoughtNext
    <2>5. Fed' BY <2>1, FedNext
    <2>6. PagesBefore' BY <2>1, PagesBeforeNext
    <2>7. Walked' BY <2>1, WalkedNext
    <2>8. FoundPageShowsRoom' BY FoundNext
    <2>9. NoEmptyPage' BY <2>1, NoEmptyNext
    <2> QED BY <2>1, <2>2, <2>3, <2>4, <2>5, <2>6, <2>7, <2>8, <2>9
  <1> QED BY <1>1, InitListInv, PTL DEF Spec

\* The rows, what the client has been shown and what was pushed to it have their types.
THEOREM ListingTypes == Spec => []TypeOK
  <1>1. ListInv => TypeOK BY DEF ListInv
  <1> QED BY <1>1, ListingsHold, PTL

\* A walk through the pages shows every row that was there from the start, and shows it
\* once, however many rows there are and whatever the page size: a row is missed only
\* if one was stored between the two queries of the last request.
THEOREM WalksShowEachRowOnce == Spec => []WalkShowsEachRowOnce
  <1>1. ListInv => WalkShowsEachRowOnce
    BY DEF ListInv, Walked, Walking, WalkShowsEachRowOnce
  <1> QED BY <1>1, ListingsHold, PTL

\* A screen that joined before it was loaded misses no row that was not lost.
THEOREM ScreensAreComplete == Spec => []ScreenComplete
  <1>1. ASSUME ListInv PROVE ScreenComplete
    <2> SUFFICES ASSUME pc = "finished", mode = "walk", size > 0, watched, ~Moved,
                        NEW x \in Matching, x \notin shown
                 PROVE  \/ kind # "rooms" /\ x \in pushed \cup outbox \cup lost
                        \/ x \in present /\ (raced \/ Tied(x))
        BY DEF ScreenComplete
    <2>1. x \in present => raced \/ Tied(x) BY <1>1 DEF ListInv, Walked, Walking
    <2>2. x \notin present => kind # "rooms" /\ x \in pushed \cup outbox \cup lost
      BY <1>1 DEF ListInv, Fed
    <2> QED BY <2>1, <2>2
  <1> QED BY <1>1, ListingsHold, PTL

\* The page that find-pages answers shows the room, unless a room is renamed.
THEOREM FoundPagesShowRooms == Spec => []FoundPageShowsRoom
  BY ListingsHold, PTL

\* No page of a listing with rows is empty, whatever page is asked for.
THEOREM PagesAreFilled == Spec => []NoEmptyPage
  BY ListingsHold, PTL
=============================================================================
