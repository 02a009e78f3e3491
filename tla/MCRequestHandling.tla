------------------------- MODULE MCRequestHandling -------------------------
(***************************************************************************)
(* RequestHandling for TLC: requests that take every path of handleRequest *)
(* and HandleMessage.                                                      *)
(***************************************************************************)
EXTENDS RequestHandling, TLC

CONSTANTS c1, c2, o1, o2, get, put, v1, v2

TwoConns == {c1, c2}
OneConn  == {c1}
TwoObjs  == {o1, o2}
TwoOps   == {get, put}
TwoValues == {v1, v2}

\* A request that takes the normal path.
Plain(v, n, items) ==
  [ccv |-> v, wellFormed |-> TRUE, sameMajor |-> TRUE, sameMinor |-> TRUE, limit |-> n, items |-> items]

GetItem == [op |-> get, uid |-> v1, extra |-> FALSE]
PutItem == [op |-> put, uid |-> v2, extra |-> TRUE]

\* No items; one item; two items with room for both; two items and room for
\* one only; a request that does not parse; one of another major version.
AllRequests ==
  { Plain(v1, 0, <<>>),
    Plain(v1, 0, <<GetItem>>),
    Plain(v2, 2, <<PutItem, GetItem>>),
    Plain(v2, 1, <<GetItem, PutItem>>),
    [Plain(v1, 0, <<>>) EXCEPT !.wellFormed = FALSE],
    [Plain(v2, 0, <<PutItem>>) EXCEPT !.sameMajor = FALSE, !.sameMinor = FALSE] }

\* Two requests that the mux handles, with items of their own.
FewRequests ==
  { Plain(v1, 0, <<GetItem>>),
    Plain(v2, 2, <<PutItem, GetItem>>) }

Symmetry == Permutations(TwoConns) \cup Permutations(TwoObjs)
=============================================================================
