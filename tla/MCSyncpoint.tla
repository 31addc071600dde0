----------------------------- MODULE MCSyncpoint -----------------------------
(* Nodes 1 and 2 have logged a first syncpoint each, which node 3 has and,  *)
(* for the one of node 1, node 2; nothing is applied at node 1.             *)
EXTENDS Syncpoint

Row(r, o, rlsn) == [recv |-> r, org |-> o, olsn |-> 1, rlsn |-> rlsn]
RowRec(row, l) == [Rec("row", row.recv, l) EXCEPT !.row = {row}]

MCWal ==
    << << Rec("sp", 1, 1) >>,
       << Rec("sp", 2, 1), Rec("F", 1, 1), RowRec(Row(2, 1, 2), 3), RowRec(Row(3, 1, 1), 2),
          RowRec(Row(3, 2, 3), 4) >>,
       << Rec("F", 1, 1), RowRec(Row(3, 1, 1), 2), Rec("F", 2, 1), RowRec(Row(3, 2, 3), 4),
          RowRec(Row(2, 1, 2), 3) >> >>

MCRows == LET all == {Row(2, 1, 2), Row(3, 1, 1), Row(3, 2, 3)} IN << {}, all, all >>

MCPulls == {<<2, 1>>, <<2, 3>>, <<3, 1>>, <<3, 2>>}
=============================================================================
