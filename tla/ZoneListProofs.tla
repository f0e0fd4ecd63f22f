--------------------------- MODULE ZoneListProofs ---------------------------
(***************************************************************************)
(* Proofs about the dashboard, for any number of requests in flight, any   *)
(* zones, page size, user and any failures: paging shows every zone, the   *)
(* delete button of a row belongs to the zone the row shows, and a login   *)
(* starts at the first page. First, what a page of listZones holds, for    *)
(* any zones and page size.                                                *)
(***************************************************************************)
EXTENDS ZoneListSteps, WellFoundedInduction, FiniteSetTheorems

\* Time for a leaf that names no prover.
USE SMTT(30), ZenonT(30)

\* A set of numbers that is not empty has a smallest one.
LEMMA NatMin == ASSUME NEW T \in SUBSET Nat, T # {} PROVE \E x \in T : \A y \in T : x <= y
<1> DEFINE R == OpToRel(<, Nat)
<1>1. IsWellFoundedOn(R, Nat)
  BY Zenon, NatLessThanWellFounded
<1>2. \A x, y \in Nat : <<y, x>> \in R <=> y < x
  BY DEF OpToRel
<1> HIDE DEF R
<1>3. PICK x \in T : \A y \in T : ~(<<y, x>> \in R)
  BY Zenon, <1>1, WFMin
<1>4. \A y \in T : x \in Nat /\ y \in Nat /\ ~(y < x)
  BY Zenon, <1>2, <1>3
<1>5. \A y \in T : x <= y
  BY <1>4
<1> QED BY <1>5

\* A finite set of numbers has a largest one.
LEMMA NatMax ==
  ASSUME NEW S \in SUBSET Nat, IsFiniteSet(S), S # {}
  PROVE \E x \in S : \A y \in S : y <= x
<1> DEFINE HasMax(T) == \E x \in T : \A y \in T : y <= x
<1> DEFINE C == {n \in Nat : \E T \in SUBSET S : T # {} /\ ~HasMax(T) /\ Cardinality(T) = n}
<1>1. SUFFICES ASSUME ~HasMax(S) PROVE FALSE
  OBVIOUS
<1>2. Cardinality(S) \in Nat
  BY FS_CardinalityType
<1>3. C # {}
  BY Zenon, <1>1, <1>2
<1>4. PICK n \in C : \A m \in C : n <= m
  BY Zenon, <1>3, NatMin
<1>5. PICK T \in SUBSET S : T # {} /\ ~HasMax(T) /\ Cardinality(T) = n
  BY <1>4
<1>6. PICK x \in T : TRUE
  BY Zenon, <1>5
<1>7. IsFiniteSet(T)
  BY Zenon, FS_Subset
<1>8. Cardinality(T \ {x}) = n - 1 /\ T \ {x} \in SUBSET S
  BY Zenon, <1>5, <1>7, <1>6, FS_RemoveElement
<1>8a. IsFiniteSet(T \ {x})
  BY Zenon, <1>8, FS_Subset
<1>9. n - 1 \in Nat /\ ~(n <= n-1)
  <2>1. Cardinality(T \ {x}) \in Nat
    BY Zenon, <1>8a, FS_CardinalityType
  <2> QED BY <2>1, <1>8, <1>4
<1>10. n - 1 \notin C
  BY Zenon, <1>4, <1>9
<1>11. T \ {x} # {} => HasMax(T \ {x})
  BY Zenon, <1>8, <1>9, <1>10
<1>12. x \in Nat /\ \A y \in T : y \in Nat
  BY <1>6
<1>13. CASE T \ {x} = {}
  BY <1>13, <1>12, <1>5, <1>6
<1>14. CASE T \ {x} # {}
  <2>1. PICK m \in T \ {x} : \A y \in T \ {x} : y <= m
    BY Zenon, <1>11, <1>14
  <2>2. CASE x <= m
    BY <2>1, <2>2, <1>12, <1>5
  <2>3. CASE m <= x
    <3>1. \A y \in T : y <= x
      BY <2>1, <2>3, <1>12
    <3> QED BY Zenon, <3>1, <1>5, <1>6
  <2> QED BY <2>2, <2>3, <2>1, <1>12
<1> QED BY Zenon, <1>13, <1>14

\* Fewer keys are ahead of a key that comes first.
LEMMA AheadOf ==
  ASSUME NEW S \in SUBSET Nat, IsFiniteSet(S), NEW k \in S, NEW fwd \in BOOLEAN
  PROVE /\ IsFiniteSet(Ahead(S, k, fwd)) /\ Cardinality(Ahead(S, k, fwd)) \in 0..(Cardinality(S) - 1)
        /\ \A j \in Ahead(S, k, fwd) : Cardinality(Ahead(S, j, fwd)) < Cardinality(Ahead(S, k, fwd))
<1>0. \A j \in S : j \in Nat
  OBVIOUS
<1>1. ASSUME NEW T \in SUBSET S, NEW U \in SUBSET T, NEW x \in T, x \notin U
      PROVE  IsFiniteSet(U) /\ Cardinality(U) \in Nat /\ Cardinality(T) \in Nat /\ Cardinality(U) < Cardinality(T)
  <2>1. IsFiniteSet(T) /\ IsFiniteSet(U)
    BY Zenon, FS_Subset
  <2>2. Cardinality(T) \in Nat /\ Cardinality(U) \in Nat
    BY Zenon, <2>1, FS_CardinalityType
  <2>3. Cardinality(U) <= Cardinality(T) /\ Cardinality(U) # Cardinality(T)
    BY Zenon, <1>1, <2>1, FS_Subset
  <2> QED BY <2>1, <2>2, <2>3
<1>2. Ahead(S, k, fwd) \in SUBSET S /\ k \notin Ahead(S, k, fwd)
  BY <1>0 DEF Ahead
<1>3. /\ IsFiniteSet(Ahead(S, k, fwd)) /\ Cardinality(Ahead(S, k, fwd)) \in Nat
      /\ Cardinality(S) \in Nat /\ Cardinality(Ahead(S, k, fwd)) < Cardinality(S)
  BY <1>1, <1>2
<1>4. ASSUME NEW j \in Ahead(S, k, fwd)
      PROVE  Cardinality(Ahead(S, j, fwd)) < Cardinality(Ahead(S, k, fwd))
  <2>0. j \in Nat /\ k \in Nat /\ (IF fwd THEN j < k ELSE j > k)
    BY <1>0 DEF Ahead
  <2>1. Ahead(S, j, fwd) \subseteq Ahead(S, k, fwd)
    <3> SUFFICES ASSUME NEW i \in Ahead(S, j, fwd) PROVE i \in Ahead(S, k, fwd)
      OBVIOUS
    <3>1. i \in S /\ i \in Nat /\ (IF fwd THEN i < j ELSE i > j)
      BY Zenon, <1>0 DEF Ahead
    <3>2. IF fwd THEN i < k ELSE i > k
      BY <2>0, <3>1
    <3> QED BY <3>1, <3>2 DEF Ahead
  <2>2. j \in Ahead(S, k, fwd) /\ j \notin Ahead(S, j, fwd)
    BY <2>0 DEF Ahead
  <2> QED BY Zenon, <1>1, <1>2, <2>1, <2>2
<1> QED BY <1>3, <1>4

\* The place of a key in an iteration numbers the keys from 0 on.
LEMMA Places ==
  ASSUME NEW S \in SUBSET Nat, IsFiniteSet(S), NEW fwd \in BOOLEAN
  PROVE /\ \A j, k \in S : j # k => Cardinality(Ahead(S, j, fwd)) # Cardinality(Ahead(S, k, fwd))
        /\ \A i \in 0..(Cardinality(S) - 1) : \E k \in S : Cardinality(Ahead(S, k, fwd)) = i
<1> DEFINE place == [k \in S |-> Cardinality(Ahead(S, k, fwd))]
<1> DEFINE P == 0..(Cardinality(S) - 1)
<1>1. Cardinality(S) \in Nat
  BY Zenon, FS_CardinalityType
<1>2. \A k \in S : Cardinality(Ahead(S, k, fwd)) \in P
  BY AheadOf
<1>3. ASSUME NEW j \in S, NEW k \in S, j # k
      PROVE  Cardinality(Ahead(S, j, fwd)) # Cardinality(Ahead(S, k, fwd))
  <2>1. j \in Ahead(S, k, fwd) \/ k \in Ahead(S, j, fwd)
    BY <1>3 DEF Ahead
  <2>2. Cardinality(Ahead(S, j, fwd)) \in Int /\ Cardinality(Ahead(S, k, fwd)) \in Int
    BY <1>2, <1>1
  <2> QED BY <2>1, <2>2, AheadOf
<1>4. place \in Injection(S, P)
  BY Zenon, <1>2, <1>3 DEF Injection, IsInjective
<1>5. IsFiniteSet(P) /\ Cardinality(P) = Cardinality(S)
  <2> DEFINE m == Cardinality(S) - 1
  <2>1. 0 \in Int /\ m \in Int /\ Cardinality(S) = IF 0 > m THEN 0 ELSE m - 0 + 1
    BY <1>1
  <2> HIDE DEF m
  <2>2. IsFiniteSet(0..m) /\ Cardinality(0..m) = Cardinality(S)
    BY Zenon, <2>1, FS_Interval
  <2> QED BY <2>2 DEF m
<1>6. place \in Surjection(S, P)
  BY <1>4, <1>5, FS_Injection
<1>7. \A i \in P : \E k \in S : place[k] = i
  BY Zenon, <1>6 DEF Surjection
<1> QED BY Zenon, <1>3, <1>7

\* sort_json keeps the keys of the page.
LEMMA SortJsonKeeps ==
  ASSUME NEW S \in SUBSET Nat, IsFiniteSet(S)
  PROVE  SortJson(S) \in Seq(S) /\ Len(SortJson(S)) = Cardinality(S) /\ Range(SortJson(S)) = S
<1> DEFINE n == Cardinality(S)
<1>1. n \in Nat
  BY FS_CardinalityType
<1>2. \A i \in 1..n : i - 1 \in 0..(n - 1)
  BY <1>1
<1>3. ASSUME NEW i \in 1..n
      PROVE SortJson(S)[i] \in S /\ Cardinality(Ahead(S, SortJson(S)[i], TRUE)) = i - 1
  <2>1. \E k \in S : Cardinality(Ahead(S, k, TRUE)) = i - 1
    BY Zenon, <1>2, Places
  <2> QED BY Zenon, <2>1 DEF SortJson
<1>6. DOMAIN SortJson(S) = 1..n
  BY DEF SortJson
<1>4. SortJson(S) \in Seq(S) /\ Len(SortJson(S)) = n
  <2> DEFINE f == SortJson(S)
  <2>1. f \in [1..n -> S]
    BY <1>3, Zenon DEF SortJson
  <2> HIDE DEF f
  <2> QED BY <1>1, <2>1 DEF f
<1>5. ASSUME NEW k \in S PROVE \E i \in 1..n : SortJson(S)[i] = k
  <2> DEFINE c == Cardinality(Ahead(S, k, TRUE))
  <2>1. c \in 0..(n - 1)
    BY Zenon, AheadOf
  <2> HIDE DEF c
  <2>2. c + 1 \in 1..n /\ (c + 1) - 1 = c
    BY <1>1, <2>1
  <2> DEFINE i == c + 1
  <2>3. SortJson(S)[i] \in S /\ Cardinality(Ahead(S, SortJson(S)[i], TRUE)) = c
    BY Zenon, <1>3, <2>2
  <2>4. SortJson(S)[i] = k
    BY Zenon, <2>3, Places DEF c
  <2> QED BY Zenon, <2>2, <2>4
<1> QED BY Zenon, <1>3, <1>4, <1>5, <1>6 DEF Range

\* Max and Min of FiniteSetsExt are what their names say.
LEMMA MaxIsLargest ==
  ASSUME NEW S \in SUBSET Nat, IsFiniteSet(S), S # {}
  PROVE  Max(S) \in S /\ \A y \in S : y <= Max(S)
<1>1. PICK x \in S : \A y \in S : y <= x
  BY NatMax
<1>2. x \in Nat /\ \A y \in S : y \in Nat
  BY <1>1
<1>3. \A y \in S : x >= y
  BY <1>1, <1>2
<1>4. Max(S) \in S /\ \A y \in S : Max(S) >= y
  BY <1>1, <1>3, Zenon DEF Max
<1> QED BY <1>2, <1>4

\* The same for Min.
LEMMA MinIsSmallest ==
  ASSUME NEW S \in SUBSET Nat, S # {}
  PROVE  Min(S) \in S /\ \A y \in S : Min(S) <= y
<1>1. \E x \in S : \A y \in S : x <= y
  BY NatMin
<1> QED BY <1>1, Zenon DEF Min

\* The first PageSize keys of an iteration.
LEMMA FirstPageIsFirst ==
  ASSUME NEW S \in SUBSET Nat, IsFiniteSet(S), NEW fwd \in BOOLEAN
  PROVE /\ FirstPage(S, fwd) \subseteq S /\ IsFiniteSet(FirstPage(S, fwd))
        /\ Cardinality(FirstPage(S, fwd)) <= PageSize
        /\ Cardinality(S) > PageSize => Cardinality(FirstPage(S, fwd)) = PageSize
        /\ ~(Cardinality(S) > PageSize) => FirstPage(S, fwd) = S
        /\ \A k \in FirstPage(S, fwd) : Ahead(S, k, fwd) \subseteq FirstPage(S, fwd)
<1> DEFINE F == FirstPage(S, fwd)
<1> DEFINE place == [k \in F |-> Cardinality(Ahead(S, k, fwd))]
<1>0. PageSize \in Nat /\ PageSize - 1 \in Int /\ 0 \in Int /\ Cardinality(S) \in Nat
  BY FS_CardinalityType, PageSizeAssumption
<1>1. F \subseteq S /\ IsFiniteSet(F)
  BY FS_Subset DEF FirstPage
<1>2. \A k \in S : /\ Cardinality(Ahead(S, k, fwd)) \in Nat
                   /\ Cardinality(Ahead(S, k, fwd)) < Cardinality(S)
  BY <1>0, AheadOf
<1>3. \A k \in F : Cardinality(Ahead(S, k, fwd)) \in 0..(PageSize - 1)
  <2> TAKE k \in F
  <2>1. Cardinality(Ahead(S, k, fwd)) \in Nat /\ Cardinality(Ahead(S, k, fwd)) < PageSize
    BY Zenon, <1>1, <1>2 DEF FirstPage
  <2> QED BY <1>0, <2>1
<1>4. place \in Injection(F, 0..(PageSize - 1))
  <2>1. \A j, k \in F : j # k => Cardinality(Ahead(S, j, fwd)) # Cardinality(Ahead(S, k, fwd))
    <3>1. \A j, k \in S : j # k => Cardinality(Ahead(S, j, fwd)) # Cardinality(Ahead(S, k, fwd))
      BY Places
    <3> HIDE DEF F
    <3> QED BY Zenon, <1>1, <3>1
  <2>2. place \in [F -> 0..(PageSize - 1)]
    BY Zenon, <1>3
  <2> QED BY Zenon, <2>1, <2>2 DEF Injection, IsInjective
<1>5. IsFiniteSet(0..(PageSize - 1)) /\ Cardinality(0..(PageSize - 1)) = PageSize
  <2>1. /\ IsFiniteSet(0..(PageSize - 1))
        /\ Cardinality(0..(PageSize - 1)) = IF 0 > PageSize - 1 THEN 0 ELSE PageSize - 1 - 0 + 1
    BY Zenon, <1>0, FS_Interval
  <2> QED BY <1>0, <2>1, PageSizeAssumption
<1>6. /\ Cardinality(F) <= PageSize
      /\ Cardinality(F) = PageSize <=> place \in Surjection(F, 0..(PageSize - 1))
  BY <1>4, <1>5, FS_Injection
<1>7. ASSUME Cardinality(S) > PageSize PROVE Cardinality(F) = PageSize
  <2>1. ASSUME NEW i \in 0..(PageSize - 1) PROVE \E k \in F : place[k] = i
    <3>1. i \in 0..(Cardinality(S) - 1) /\ i < PageSize
      BY <1>0, <1>7
    <3>2. PICK k \in S : Cardinality(Ahead(S, k, fwd)) = i
      BY <3>1, Places
    <3>3. k \in F
      BY Zenon, <3>1, <3>2 DEF FirstPage
    <3> QED BY Zenon, <3>2, <3>3
  <2>2. place \in Surjection(F, 0..(PageSize - 1))
    BY Zenon, <1>3, <2>1 DEF Surjection
  <2> QED BY Zenon, <1>6, <2>2
<1>8. ASSUME ~(Cardinality(S) > PageSize) PROVE F = S
  <2>1. \A k \in S : Cardinality(Ahead(S, k, fwd)) < PageSize
    BY <1>0, <1>2, <1>8
  <2> QED BY Zenon, <2>1 DEF FirstPage
<1>9. ASSUME NEW k \in F, NEW j \in Ahead(S, k, fwd) PROVE j \in F
  <2>1. j \in S /\ k \in S
    BY Zenon, <1>1 DEF Ahead
  <2>2. Cardinality(Ahead(S, j, fwd)) < Cardinality(Ahead(S, k, fwd))
    BY Zenon, <2>1, AheadOf
  <2>3. Cardinality(Ahead(S, k, fwd)) < PageSize
    BY DEF FirstPage
  <2>4. Cardinality(Ahead(S, j, fwd)) < PageSize
    BY <1>0, <1>2, <2>1, <2>2, <2>3
  <2> QED BY Zenon, <2>1, <2>4 DEF FirstPage
<1> QED BY <1>1, <1>6, <1>7, <1>8, <1>9

\* What listZones promises to a client that pages by the keys it is given.
THEOREM PageIsComplete ==
  ASSUME NEW keys \in SUBSET (Nat \ {0}), IsFiniteSet(keys), NEW from \in Nat, NEW direction,
         NEW p, p = ListZones(keys, from, direction)
  PROVE  Complete(p, keys, from, direction)
<1> DEFINE forward == from = NoKey \/ direction # "backward"
           below == {k \in keys \union {NoKey} : k <= from}
           landed == Max(below)
           found == IterateFromPrev(keys, from, forward)
           page == FirstPage(found, forward)
<1>0. keys \in SUBSET Nat /\ \A k \in keys : k \in Nat /\ k # 0
  OBVIOUS
<1>1. below \in SUBSET Nat /\ IsFiniteSet(below) /\ below # {}
  <2>1. IsFiniteSet(keys \union {NoKey})
    BY FS_AddElement
  <2>2. NoKey \in below /\ below \in SUBSET (keys \union {NoKey})
    BY DEF NoKey
  <2>3. IsFiniteSet(below)
    BY Zenon, <2>1, <2>2, FS_Subset
  <2>4. keys \union {NoKey} \in SUBSET Nat
    BY <1>0 DEF NoKey
  <2> QED BY <2>2, <2>3, <2>4
<1>2. landed \in Nat /\ landed <= from
  BY Zenon, <1>1, MaxIsLargest
<1>3. found = {k \in keys : IF forward THEN k > landed ELSE k < landed}
  BY Zenon DEF IterateFromPrev
<1> HIDE DEF below, landed, forward
<1>f. forward \in BOOLEAN
  BY DEF forward
<1>4. found \in SUBSET Nat /\ found \in SUBSET keys /\ IsFiniteSet(found)
  BY Zenon, <1>0, <1>3, FS_Subset
<1> HIDE DEF found
<1>5. page \subseteq found /\ IsFiniteSet(page) /\ page \in SUBSET Nat /\ page \in SUBSET keys
  BY Zenon, <1>f, <1>4, FirstPageIsFirst
<1>6. /\ Cardinality(page) <= PageSize
      /\ Cardinality(found) > PageSize => Cardinality(page) = PageSize
      /\ ~(Cardinality(found) > PageSize) => page = found
      /\ \A k \in page : Ahead(found, k, forward) \subseteq page
  BY <1>f, <1>4, FirstPageIsFirst
<1>7. p = [value |-> SortJson(page), more |-> Cardinality(found) > PageSize, keys |-> GetKeys(page)]
  BY Zenon DEF ListZones, found, forward
<1> HIDE DEF page
<1>8. /\ p.value = SortJson(page) /\ p.keys = GetKeys(page)
      /\ p.more = (Cardinality(found) > PageSize)
      /\ p = [value |-> p.value, more |-> p.more, keys |-> p.keys]
  BY <1>7
<1>9. p.value \in Seq(page) /\ Len(p.value) = Cardinality(page) /\ Range(p.value) = page
  BY <1>5, <1>8, SortJsonKeeps
<1>10. p.value \in Seq(keys)
  BY Zenon, <1>5, <1>9, SeqMonotone
<1>11. /\ p.keys \in [kfirst : keys \union {NoKey}, klast : keys \union {NoKey}]
       /\ p.keys.kfirst <= p.keys.klast
       /\ page # {} => p.keys.klast \in page /\ \A y \in page : y <= p.keys.klast
       /\ page = {} => p.keys.klast = NoKey
  <2>1. CASE page = {}
    BY <1>8, <2>1 DEF GetKeys, NoKey
  <2>2. CASE page # {}
    <3>1. /\ Max(page) \in page /\ \A y \in page : y <= Max(page)
          /\ Min(page) \in page
      BY <1>5, <2>2, MaxIsLargest, MinIsSmallest
    <3>2. p.keys = [kfirst |-> Min(page), klast |-> Max(page)]
      BY <1>8, <2>2 DEF GetKeys
    <3> DEFINE lo == Min(page)
               hi == Max(page)
    <3>3. lo \in keys /\ hi \in keys /\ lo <= hi
      BY Zenon, <1>5, <3>1
    <3> HIDE DEF lo, hi
    <3>4. p.keys = [kfirst |-> lo, klast |-> hi] /\ hi \in page /\ \A y \in page : y <= hi
      BY <3>1, <3>2 DEF lo, hi
    <3> QED BY <2>2, <3>3, <3>4
  <2> QED BY <2>1, <2>2
<1>12. Len(p.value) < PageSize => ~p.more
  <2>1. Cardinality(page) \in Nat /\ PageSize \in Nat
    BY <1>5, FS_CardinalityType, PageSizeAssumption
  <2>2. Len(p.value) < PageSize => ~(Cardinality(found) > PageSize)
    BY <1>6, <1>9, <2>1
  <2> QED BY Zenon, <1>8, <2>2
<1>13. ASSUME forward, NEW z \in keys, z > from, z <= p.keys.klast \/ ~p.more PROVE z \in page
  <2>0. z \in Nat /\ z # 0
    BY Zenon, <1>0
  <2>1. z \in found
    BY <1>2, <1>3, <1>13, <2>0
  <2>2. CASE ~p.more
    BY Zenon, <1>6, <1>8, <2>1, <2>2
  <2>3. CASE z <= p.keys.klast
    <3> DEFINE l == p.keys.klast
    <3>1. page # {} /\ l \in page /\ l \in Nat
      <4>1. p.keys.klast \in keys \union {NoKey}
        BY <1>11
      <4> HIDE DEF l
      <4>2. l \in Nat /\ l # NoKey
        BY <1>0, <2>0, <2>3, <4>1 DEF l, NoKey
      <4>3. page # {} => l \in page
        BY Zenon, <1>11 DEF l
      <4>4. page # {}
        BY Zenon, <1>11, <4>2 DEF l
      <4> QED BY <4>2, <4>3, <4>4
    <3> HIDE DEF l
    <3>2. z = l \/ z < l
      BY <2>0, <2>3, <3>1 DEF l
    <3>3. z < l => z \in Ahead(found, l, forward)
      BY <1>13, <2>1 DEF Ahead
    <3> QED BY <1>6, <3>1, <3>2, <3>3
  <2> QED BY Zenon, <1>13, <2>2, <2>3
<1>14. ASSUME ~forward PROVE p.keys.klast <= from
  <2>1. \A k \in page : k \in Nat /\ k < landed
    BY <1>0, <1>3, <1>5, <1>14
  <2>2. CASE page = {}
    BY <1>11, <2>2 DEF NoKey
  <2>3. CASE page # {}
    <3> DEFINE l == p.keys.klast
    <3>1. l \in Nat /\ l < landed
      BY <1>11, <2>1, <2>3
    <3> HIDE DEF l
    <3>2. l <= from
      BY <1>2, <3>1
    <3> QED BY <3>2 DEF l
  <2> QED BY <2>2, <2>3
<1>15. p.more \in BOOLEAN
  BY <1>8
<1> QED BY Zenon, <1>6, <1>8, <1>9, <1>10, <1>11, <1>12, <1>13, <1>14, <1>15 DEF forward, Complete

\* The pages the dashboard is given are such pages.
LEMMA PagesAreComplete == PagesComplete
<1>1. ASSUME NEW there \in SUBSET ZoneNames, NEW from \in Key, NEW direction \in Directions
      PROVE  Complete(ListZones(there, from, direction), there, from, direction)
  <2>1. there \in SUBSET (Nat \ {0}) /\ from \in Nat
    BY ZonesAssumption DEF Key, NoKey
  <2>2. IsFiniteSet(there)
    BY Zenon, ZonesAssumption, FS_Subset
  <2> QED BY <2>1, <2>2, PageIsComplete
<1> QED BY <1>1 DEF PagesComplete

-----------------------------------------------------------------------------
\* The inductive invariant of paging.
THEOREM ListInvariance == Spec => []ListInv
<1>1. ListInv /\ [Next]_vars => ListInv'
  BY NextList, PagesAreComplete
<1> QED BY <1>1, InitList, PTL DEF Spec

\* The list keeps its shape: a page of rows at most, a dialog only over a
\* table, the list itself only in a session and on its route.
THEOREM ListTypes == Spec => []TypeOK
<1>1. ListInv => TypeOK
  BY ZenonT(30) DEF ListInv, TableInv, Types, TableFits, TypeOK, Position, Ui, IsLoggedIn,
         DialogShown, TableShown
<1> QED BY <1>1, ListInvariance, PTL

\* Paging shows everything: when Next is off, every zone that existed ever
\* since the login has been on a page.
THEOREM NothingIsSkipped == Spec => []NoZoneSkipped
<1>1. ListInv => NoZoneSkipped
  BY DEF ListInv, SeenInv, TableSeen, NoZoneSkipped, TableShown
<1> QED BY <1>1, ListInvariance, PTL

\* The delete button of a row carries the name the row shows, unless two
\* listings were in flight together.
THEOREM ButtonsMatchRows == Spec => []ButtonDeletesItsRow
<1>1. ListInv => ButtonDeletesItsRow
  BY DEF ListInv, RowsInv, RowsMatch, ButtonDeletesItsRow, TableShown
<1> QED BY <1>1, ListInvariance, PTL

\* Between the ok of a login and the opening of the list no late answer and no
\* earlier session moves the saved position away from the first page.
THEOREM LoginsStartAtTheTop == Spec => []LoginStartsAtTheTop
<1>1. ListInv => LoginStartsAtTheTop
  BY DEF ListInv, RowsInv, FreshAtTop, LoginStartsAtTheTop
<1> QED BY <1>1, ListInvariance, PTL
=============================================================================
