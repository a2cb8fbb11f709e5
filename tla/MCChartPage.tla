------------------------------ MODULE MCChartPage ------------------------------
EXTENDS ChartPage, TLC

CONSTANTS m1, m2, glass, paper, other, red, blue

\* Two models, one without a test of paper; a test without a category, and a
\* test of a category the page has no label for.
Times(x) ==
    CASE x = [model_id |-> m1, correct_category |-> glass, ml_category_final |-> glass] -> 2
      [] x = [model_id |-> m1, correct_category |-> glass, ml_category_final |-> paper] -> 1
      [] x = [model_id |-> m1, correct_category |-> paper, ml_category_final |-> Null] -> 1
      [] x = [model_id |-> m2, correct_category |-> glass, ml_category_final |-> glass] -> 1
      [] x = [model_id |-> m2, correct_category |-> other, ml_category_final |-> other] -> 1
      [] x = [model_id |-> m2, correct_category |-> Null, ml_category_final |-> Null] -> 1
      [] OTHER -> 0
SmallTables == {[x \in Test |-> Times(x)], [x \in Test |-> 0]}

\* One model's tests of glass, and one test without a category.
GlassTable(right, wrong) ==
    [x \in Test |-> CASE x = [model_id |-> m1, correct_category |-> glass,
                              ml_category_final |-> glass] -> right
                      [] x = [model_id |-> m1, correct_category |-> glass,
                              ml_category_final |-> paper] -> wrong
                      [] x = [model_id |-> m1, correct_category |-> Null,
                              ml_category_final |-> glass] -> 1
                      [] OTHER -> 0]

\* 32 is the least total for which a percentage can end in half a hundredth.
MCTables ==
    SmallTables \cup {GlassTable(n, 32 - n) : n \in 0..32} \cup {GlassTable(n, 3 - n) : n \in 0..3}
=============================================================================
