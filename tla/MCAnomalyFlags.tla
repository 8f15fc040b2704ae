--------------------------- MODULE MCAnomalyFlags ---------------------------
(* A small instance of AnomalyFlags for TLC.                                *)
EXTENDS AnomalyFlags

\* A closed day, a quiet one and a busy one: three times the visitors, exactly
\* twice the loans and four times the late loans of the quiet one.  The log of the
\* quiet day has more visitors than the counter, that of the busy one has none.
MCDayNumbers ==
  {[own |-> [visitor |-> 0, loan |-> 0, overdue |-> 0],
    logged |-> 0, active |-> FALSE, lent |-> 1],
   [own |-> [visitor |-> 1, loan |-> 1, overdue |-> 1],
    logged |-> 2, active |-> TRUE, lent |-> 2],
   [own |-> [visitor |-> 3, loan |-> 2, overdue |-> 4],
    logged |-> 0, active |-> TRUE, lent |-> 5]}

\* All days but the first.
MCRanges == {<<2, LastDay>>}

\* A year, and the next one.
MCYears == {Days, {d \in Days : d > 2}}
=============================================================================
