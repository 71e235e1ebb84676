------------------------------ MODULE Listing ------------------------------
(***************************************************************************)
(* A client walks through the pages of listUsers, getUsersByFilters or     *)
(* listTransactions, which page alike, while documents come to match its   *)
(* filters and cease to.  Every page is two reads, a count and a find.     *)
(*                                                                         *)
(* The values sorted by differ: the database orders equal ones anew for    *)
(* every page.  createdAt, the default, is such a value.                   *)
(***************************************************************************)
EXTENDS Naturals, SequencesExt

CONSTANTS Document,
          DefaultLimit,    \* 10 in the code, for the limit and the offset
          MaxLimit         \* bound: the largest limit asked for

ASSUME LimitAssumption == DefaultLimit \in Nat \ {0} /\ MaxLimit \in Nat
ASSUME DocumentAssumption == IsFiniteSet(Document)

VARIABLES matching,    \* the documents that match, in the order of the sort
          request,     \* the client's: [pc, limit, offset]
          listed,      \* the documents on the pages so far
          owed         \* history: those that matched since the walk began

listingVars == <<matching, request, listed, owed>>

ListingInit ==
    /\ matching \in SetToAllKPermutations(Document)
    /\ request = [pc |-> "idle", limit |-> 0, offset |-> 0]
    /\ listed = {}
    /\ owed = {}
----------------------------------------------------------------------------
\* parseInt(x || 10): a missing limit and 0 are the same.
OrDefault(x) == IF x = 0 THEN DefaultLimit ELSE x

Limit == OrDefault(request.limit)

\* The offset is where the page ends.
SkippedPages(offset, limit) == offset                          \* mutant
Skipped(offset, limit) == IF offset < limit THEN 0 ELSE offset - limit

Page == LET skip == Skipped(OrDefault(request.offset), Limit) IN
        SubSeq(matching, skip + 1, Min({skip + Limit, Len(matching)}))

\* The first page ends at the limit; neither is sent if it is the default.
BeginWalk(limit) ==
    /\ request.pc = "idle"
    /\ request' = [pc |-> "count", limit |-> limit, offset |-> limit]
    /\ listed' = {}
    /\ owed' = ToSet(matching)
    /\ UNCHANGED matching

Count ==
    /\ request.pc = "count"
    /\ request' = [request EXCEPT !.pc = "find"]
    /\ UNCHANGED <<matching, listed, owed>>

\* The next page is asked for.
FindPage ==
    /\ request.pc = "find"
    /\ Page # << >>
    /\ listed' = listed \cup ToSet(Page)
    /\ request' = [request EXCEPT !.pc = "count",
                                  !.offset = OrDefault(@) + Limit]
    /\ UNCHANGED <<matching, owed>>

\* An empty page is "no users found", a 404, which ends the walk.
NotFound ==
    /\ request.pc = "find"
    /\ Page = << >>
    /\ request' = [request EXCEPT !.pc = "done"]
    /\ UNCHANGED <<matching, listed, owed>>

\* A read that throws is answered with the same 404: the client cannot tell.
\* Here it asks again.
FindThrows ==
    /\ request.pc = "find"
    /\ request' = [request EXCEPT !.pc = "count"]
    /\ UNCHANGED <<matching, listed, owed>>

Again ==
    /\ request.pc = "done"
    /\ request' = [request EXCEPT !.pc = "idle"]
    /\ UNCHANGED <<matching, listed, owed>>
----------------------------------------------------------------------------
\* A document is created, or changed so that it matches.
Enter(d, i) ==
    /\ d \notin ToSet(matching)
    /\ matching' = InsertAt(matching, i, d)
    /\ UNCHANGED <<request, listed, owed>>

\* The pages that follow begin one document later than they should: what the
\* walk owes then is what it has listed.
Leave(i) ==
    /\ matching' = RemoveAt(matching, i)
    /\ owed' = IF request.pc \in {"count", "find"} THEN owed \cap listed ELSE owed
    /\ UNCHANGED <<request, listed>>

ListingNext ==
    \/ \E limit \in 0 .. MaxLimit : BeginWalk(limit)
    \/ Count \/ FindPage \/ NotFound \/ FindThrows \/ Again
    \/ \E d \in Document, i \in 1 .. Len(matching) + 1 : Enter(d, i)
    \/ \E i \in DOMAIN matching : Leave(i)

ListingSpec == ListingInit /\ [][ListingNext]_listingVars
----------------------------------------------------------------------------
(* Properties.                                                             *)

\* Walking page by page until the 404 misses no document that matched all the
\* time, wherever others appear between two reads, unless one ceased to match
\* meanwhile.
PagesMissNobody == request.pc = "done" => owed \subseteq listed
=============================================================================
