---------------------------- MODULE AccuracyQuery ----------------------------
(***************************************************************************)
(* The numbers of the visualization page: the query of get_model_accuracy  *)
(* over testrecordsdetails2022, and the misclassification rate that the    *)
(* purity charts compute from its rows.  The table is a bag of tests, a    *)
(* function from tests to how often each occurs.  Percentages are in       *)
(* hundredths, the precision of ROUND(.., 2) and toFixed(2).               *)
(***************************************************************************)
EXTENDS Naturals, FiniteSets, FiniteSetsExt

CONSTANTS
    Model,      \* model identifiers
    Category,   \* the values of correct_category and ml_category_final
    Null        \* SQL NULL, in either column

\* A row of the table: which model said what of an item of which category.
Test == [model_id : Model, correct_category : Category \cup {Null},
         ml_category_final : Category \cup {Null}]

Count(table, S) == MapThenSumSet(LAMBDA x : table[x], S)

\* ml_category_final = correct_category is not true when a side is NULL.
Matches(x) == x.correct_category /= Null /\ x.ml_category_final = x.correct_category

\* Mutant of RoundHalfUp: the division truncates.
RoundHalfUp_truncates(a, b) == a \div b

\* ROUND(a / b, 0) of NUMERIC: halves go away from zero.
RoundHalfUp(a, b) == (2 * a + b) \div (2 * b)

\* SELECT ... GROUP BY model_id, correct_category.
Accuracy(table) ==
    LET InGroup(m, c) == {x \in Test : x.model_id = m /\ x.correct_category = c}
        Row(m, c) ==
            LET total == Count(table, InGroup(m, c))
                correct == Count(table, {x \in InGroup(m, c) : Matches(x)})
            IN  [model_id |-> m, correct_category |-> c, total |-> total,
                 correct |-> correct, accuracy_percent |-> RoundHalfUp(correct * 10000, total)]
        Groups == {g \in Model \X (Category \cup {Null}) : Count(table, InGroup(g[1], g[2])) > 0}
    IN  {Row(g[1], g[2]) : g \in Groups}

\* (1 - correct / total) * 100 in binary floating point, then toFixed(2): a
\* half may go either way.
WrongRates(row) ==
    LET exact == (row.total - row.correct) * 10000
        up == RoundHalfUp(exact, row.total)
    IN  IF row.total = 0 THEN {0}
        ELSE IF (2 * exact + row.total) % (2 * row.total) = 0 THEN {up - 1, up} ELSE {up}
=============================================================================
