--------------------------- MODULE MCShareSplits ---------------------------
(* ShareSplits on small instances.  Percentages are in halves of the budget. *)
EXTENDS ShareSplits, TLC

CONSTANTS e1, e2, s1, s2, s3, w1, p1

TwoEditors   == {e1, e2}
TwoShares    == {s1, s2}
ThreeShares  == {s1, s2, s3}
OneWork      == {w1}
OnePhono     == {p1}
HalfAndWhole == {1, 2}

\* A request assigns a parent with a percentage, moves a share from one parent
\* to the other, or changes its type or percentage.
Assigns ==
  [work : OneWork, phonogram : {Keep}, type : {"financial", Keep}, percentage : HalfAndWhole]
    \cup [work : {Keep}, phonogram : OnePhono, type : {Keep}, percentage : HalfAndWhole]

Moves ==
  [work : OneWork, phonogram : {None}, type : {Keep}, percentage : {Keep}]
    \cup [work : {None}, phonogram : OnePhono, type : {Keep}, percentage : {Keep}]

Changes ==
  [work : {Keep}, phonogram : {Keep}, type : {Keep}, percentage : HalfAndWhole]
    \cup [work : {Keep}, phonogram : {Keep}, type : {"registry", "financial"}, percentage : {Keep}]

SomeRequests == Assigns \cup Moves \cup Changes

\* Editors are interchangeable, and so are shares.
Same == Permutations(TwoEditors) \cup Permutations(Shares)
=============================================================================
