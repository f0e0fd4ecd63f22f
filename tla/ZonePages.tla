----------------------------- MODULE ZonePages -----------------------------
(***************************************************************************)
(* One page of the zone listing, as the REST API computes it: RestApi::    *)
(* listZones over the database iterator of RocksDbResource.h.              *)
(*                                                                         *)
(* Zones are numbers; their order is the order of the tenant's index keys  *)
(* (key class TZONE), which is also the order the answer is sorted in.     *)
(***************************************************************************)
EXTENDS Integers, FiniteSets, FiniteSetsExt

CONSTANT
    PageSize    \* "limit" of the request (the dashboard asks for 10)

ASSUME PageSizeAssumption == PageSize \in Nat \ {0}

\* The null / "" of a key. It is also the place of the index keys of other
\* classes that sort before the tenant's zones (the tenant's own record does).
NoKey == 0

\* Mutant: Seek in place of SeekForPrev.
IterateFromNext(keys, key, iterateForward) ==
    LET landed == Min({k \in keys \union {NoKey, 1 + Max(keys \union {key})} : k >= key})
    IN  {k \in keys : IF iterateForward THEN k > landed ELSE k < landed}

\* iterateFromPrevT: SeekForPrev lands on the last key at or before `key`,
\* that one is skipped, and the iteration visits the keys beyond it until it
\* meets a key of another class.
IterateFromPrev(keys, key, iterateForward) ==
    LET landed == Max({k \in keys \union {NoKey} : k <= key})
    IN  {k \in keys : IF iterateForward THEN k > landed ELSE k < landed}

\* The keys of an iteration that are visited before k.
Ahead(found, k, forward) == {j \in found : IF forward THEN j < k ELSE j > k}

\* The callback of listZones takes the first PageSize keys it is given.
FirstPage(found, forward) == {k \in found : Cardinality(Ahead(found, k, forward)) < PageSize}

\* getKeys: first and last key of the page in key order, whatever the
\* direction of the iteration; both "" for an empty page.
GetKeys(page) ==
    IF page = {} THEN [kfirst |-> NoKey, klast |-> NoKey]
    ELSE [kfirst |-> Min(page), klast |-> Max(page)]

\* sort_json.
SortJson(page) ==
    [i \in 1..Cardinality(page) |-> CHOOSE k \in page : Cardinality(Ahead(page, k, TRUE)) = i - 1]

\* Mutant: the item that shows there is more is also put on the page.
ListZonesOneMore(keys, from, direction) ==
    LET forward == from = NoKey \/ direction # "backward"
        found == IterateFromPrev(keys, from, forward)
        page == {k \in found : Cardinality(Ahead(found, k, forward)) < PageSize + 1}
    IN  [value |-> SortJson(page),
         more |-> Cardinality(found) > PageSize,
         keys |-> GetKeys(page)]

\* listZones: the direction counts only when `from` is given. The item after
\* the page only sets `more`.
ListZones(keys, from, direction) ==
    LET forward == from = NoKey \/ direction # "backward"
        found == IterateFromPrev(keys, from, forward)
        page == FirstPage(found, forward)
    IN  [value |-> SortJson(page),
         more |-> Cardinality(found) > PageSize,
         keys |-> GetKeys(page)]
=============================================================================
