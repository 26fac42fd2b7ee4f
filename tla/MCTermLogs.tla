----------------------------- MODULE MCTermLogs -----------------------------
(* Small instances of TermLogs: lists of up to two sandboxes.              *)
EXTENDS TermLogs

MCLists == {<<>>, <<"x", "y">>}
MCListsChanging == {<<>>, <<"x">>, <<"x", "y">>}
MCLinesOf == [s \in Streams |-> IF s = 1 THEN 3 ELSE 0]
MCOneLine == [s \in Streams |-> 1]
=============================================================================
