--------------------------- MODULE MCColumnarReader ---------------------------
(***************************************************************************)
(* Instances of ColumnarReader for TLC.                                    *)
(***************************************************************************)
EXTENDS ColumnarReader

MCSchema == <<"timestamp", "json">>
MCSignature == <<2, 0>>
MCExtensions == {<<>>, <<1>>, <<1, 1>>}

\* Timestamps 1, -1, none and one that is infinite; documents of length 0 and
\* 2, none and one that is not UTF-8.
Rows == {<<t, j>> : t \in {<<0, 1>>, <<3, 3>>, Null, <<2, 0>>},
                    j \in {<<1>>, <<1, 2, 1>>, Null, <<1, 3>>}}
OneRow == <<<<0, 1>>, <<1, 2>>>>
TwoRows == <<OneRow, <<Null, <<1, 1>>>>>>

\* None, one or two rows, the second too much for the column or not; a row more
\* than a batch, of documents of either version; rows with a field too short,
\* one column and three.
MCResults ==
  {<<>>, << <<<<0>>, Null>> >>, << <<<<0, 1>>>> >>, << <<Null, Null, Null>> >>} \cup
  {<<r>> : r \in Rows} \cup {<<OneRow, r>> : r \in Rows} \cup
  {TwoRows \o << <<<<0, 2>>, j>> >> : j \in {<<1, 2>>, <<2>>}}

Auto(expected) == [kind |-> "auto", expected |-> expected, copyMin |-> 3,
                   rowWiseMax |-> 2, rowsMin |-> 1, utf8 |-> FALSE, count |-> FALSE]
Forced(kind) == [kind |-> kind, utf8 |-> TRUE, count |-> TRUE]
MCModes == {Auto(0), Auto(1), Forced("copy"), Forced("row")}
=============================================================================
