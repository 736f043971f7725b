------------------------ MODULE MCOperationalMetrics ----------------------
(* An instance of OperationalMetrics for TLC: one block, which two polls    *)
(* may read at the same time, and two blocks of one table.                 *)
EXTENDS OperationalMetrics

MCPlans ==
    LET B(table, signals) == [table |-> table, signals |-> signals]
    IN  {<<B("holding", 2)>>, <<B("holding", 2), B("holding", 1)>>}

MCSplits == {<<0, 1>>, <<1, 0>>}

=============================================================================
