----------------------------- MODULE MCRangeScan -----------------------------
(* RangeScan for TLC: two columns, and ranges that restrict both, one or none *)
(* of them.                                                                  *)
EXTENDS RangeScan

MCRanges ==
  {<<0, 0>>, <<0, 1>>, <<1, 0>>, <<Null, 0>>, <<Null, Null>>}
    \X {<<0, 1>>, <<1, 0>>, <<0, Null>>, <<Null, 0>>, <<Null, Null>>}
====
