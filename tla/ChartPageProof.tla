---------------------------- MODULE ChartPageProof ----------------------------
(***************************************************************************)
(* The visualization page keeps its screen current, loses no chart and     *)
(* shows no figures after an error, for every table, every set of labels   *)
(* and every order of the answer and the handlers; and the two rates of a  *)
(* row add up, whatever the counts.                                        *)
(***************************************************************************)
EXTENDS ChartPage, TLAPS

\* Until the answer comes there are no rows: whatever the user draws in the
\* meantime is empty, and that is all an error can leave on the screen.
BlankUntilAnswered == awaiting => raw = {}

ChartInv ==
    /\ TypeOK /\ BlankUntilAnswered
    /\ ScreenIsCurrent /\ DrawnChartsAreListed /\ NoFiguresAfterError

\* What renderCharts leaves in the container satisfies the three properties of
\* the screen, whatever was there before.
LEMMA RedrawSafe ==
    ASSUME renderCharts
    PROVE  ScreenIsCurrent' /\ DrawnChartsAreListed' /\ NoFiguresAfterError'
  <1>1. CASE raw' = ErrorBody
    <2>1. screen' \subseteq {Bare}
      BY <1>1, SMT DEF renderCharts
    <2>2. Drawn' = {}
      BY <2>1, SMT DEF Drawn, Bare
    <2> QED BY <1>1, <2>2, SMT DEF ScreenIsCurrent, DrawnChartsAreListed, NoFiguresAfterError
  <1>2. CASE raw' /= ErrorBody
    <2>1. screen' = AccuracyCharts' /\ charts' = AccuracyCharts'
      BY <1>2, Zenon DEF renderCharts
    <2>2. ASSUME NEW c \in Drawn' PROVE c = Content(c.kind, c.type)' /\ c \in charts'
      <3>1. c \in AccuracyCharts'
        BY <2>1, <2>2, Zenon DEF Drawn
      <3>2. PICK type \in types' : c = Content("accuracy", type)'
        BY <3>1, Zenon DEF AccuracyCharts
      <3>3. c.kind = "accuracy" /\ c.type = type
        BY <3>2, Zenon DEF Content
      <3> QED BY <2>1, <3>1, <3>2, <3>3, Zenon DEF Content
    <2> QED BY <1>2, <2>2, Zenon DEF ScreenIsCurrent, DrawnChartsAreListed, NoFiguresAfterError
  <1> QED BY <1>1, <1>2

\* Steps that leave the page alone leave the properties of the screen alone.
LEMMA ScreenKept ==
    ASSUME ScreenIsCurrent, DrawnChartsAreListed, NoFiguresAfterError,
           UNCHANGED <<raw, controls, charts, screen>>
    PROVE  ScreenIsCurrent' /\ DrawnChartsAreListed' /\ NoFiguresAfterError'
  <1>1. /\ raw' = raw /\ models' = models /\ cats' = cats
        /\ horizontal' = horizontal /\ colors' = colors
        /\ charts' = charts /\ screen' = screen
    BY Zenon DEF controls
  <1>2. Drawn' = Drawn
    BY <1>1, Zenon DEF Drawn, Bare
  <1>3. selectedModels' = selectedModels /\ selectedCats' = selectedCats
    BY <1>1, Zenon DEF selectedModels, selectedCats, Checked
  <1>4. ASSUME NEW kind, NEW type PROVE Content(kind, type)' = Content(kind, type)
    BY <1>1, <1>3, Zenon DEF Content
  <1>5. ScreenIsCurrent'
    BY <1>1, <1>2, <1>4, Zenon DEF ScreenIsCurrent
  <1>6. DrawnChartsAreListed' /\ NoFiguresAfterError'
    BY <1>1, <1>2, Zenon DEF DrawnChartsAreListed, NoFiguresAfterError
  <1> QED BY <1>5, <1>6

\* The rows of the query name models and categories.
LEMMA RowsTyped ==
    ASSUME NEW t
    PROVE  /\ {r.model_id : r \in Accuracy(t)} \subseteq Model
           /\ {r.correct_category : r \in Accuracy(t)} \subseteq Category \cup {Null}
  <1> DEFINE InGroup(m, c) == {x \in Test : x.model_id = m /\ x.correct_category = c}
             total(m, c) == Count(t, InGroup(m, c))
             correct(m, c) == Count(t, {x \in InGroup(m, c) : Matches(x)})
             Row(m, c) == [model_id |-> m, correct_category |-> c, total |-> total(m, c),
                           correct |-> correct(m, c),
                           accuracy_percent |-> RoundHalfUp(correct(m, c) * 10000, total(m, c))]
             Groups == {g \in Model \X (Category \cup {Null}) : total(g[1], g[2]) > 0}
  <1>1. Accuracy(t) = {Row(g[1], g[2]) : g \in Groups}
    BY SMTT(60) DEF Accuracy
  <1>2. ASSUME NEW m, NEW c PROVE Row(m, c).model_id = m /\ Row(m, c).correct_category = c
    BY Zenon
  <1>3. Groups \subseteq Model \X (Category \cup {Null})
    BY Zenon
  <1> HIDE DEF Row, Groups
  <1>4. ASSUME NEW r \in Accuracy(t)
        PROVE  r.model_id \in Model /\ r.correct_category \in Category \cup {Null}
    <2>1. PICK g \in Groups : r = Row(g[1], g[2])
      BY <1>1, <1>4, Zenon
    <2>2. g[1] \in Model /\ g[2] \in Category \cup {Null}
      BY <1>3, <2>1, SMT
    <2> QED BY <1>2, <2>1, <2>2, ZenonT(60)
  <1> QED BY <1>4, SMT

\* The page starts in the invariant: nothing is drawn and no rows are there.
LEMMA ChartInit == Init => ChartInv
  <1> SUFFICES ASSUME Init PROVE ChartInv
    OBVIOUS
  <1>1. Drawn = {}
    BY SMT DEF Init, Drawn, Bare
  <1>2. TypeOK
    BY ChartAssumption, SMT DEF Init, TypeOK, ChartAssumption
  <1> QED BY <1>1, <1>2, SMT DEF Init, ChartInv, BlankUntilAnswered, ScreenIsCurrent,
             DrawnChartsAreListed, NoFiguresAfterError

\* Each answer and each handler keeps the invariant.
LEMMA ChartStep == ChartInv /\ Next => ChartInv'
  <1> SUFFICES ASSUME ChartInv, Next PROVE ChartInv'
    OBVIOUS
  <1> USE DEF ChartInv
  <1>1. CASE AnswerRows
    <2>1. models' = [m \in {r.model_id : r \in raw'} |-> TRUE] /\ raw' = Accuracy(table)
      BY <1>1, Zenon DEF AnswerRows
    <2>2. cats' = [c \in {r.correct_category : r \in raw'} |-> TRUE]
      BY <1>1, Zenon DEF AnswerRows
    <2>3. DOMAIN models' \subseteq Model /\ \A m \in DOMAIN models' : models'[m] \in BOOLEAN
      BY <2>1, RowsTyped, Zenon
    <2>4. DOMAIN cats' \subseteq Category \cup {Null} /\ \A c \in DOMAIN cats' : cats'[c] \in BOOLEAN
      BY <2>1, <2>2, RowsTyped, Zenon
    <2>5. DOMAIN colors' = DOMAIN models'
      BY <1>1, Zenon DEF AnswerRows
    <2>6. TypeOK'
      BY <1>1, <2>1, <2>3, <2>4, <2>5, Zenon DEF TypeOK, AnswerRows
    <2>7. BlankUntilAnswered'
      BY <1>1, Zenon DEF AnswerRows, BlankUntilAnswered
    <2> QED BY <1>1, <2>6, <2>7, RedrawSafe, Zenon DEF AnswerRows
  <1>2. CASE AnswerError
    <2>1. raw = {} /\ raw /= ErrorBody
      BY <1>2, ChartAssumption, Zenon DEF AnswerError, BlankUntilAnswered, ChartAssumption
    <2>2. Drawn' = Drawn
      BY <1>2, Zenon DEF AnswerError, Drawn, Bare
    <2>3. ASSUME NEW c \in Drawn PROVE c.rows = {}
      <3>1. c = Content(c.kind, c.type)
        BY <2>1, Zenon DEF ScreenIsCurrent
      <3>2. Content(c.kind, c.type).rows = {}
        BY <2>1, SMT DEF Content
      <3> QED BY <3>1, <3>2, Zenon
    <2>4. NoFiguresAfterError'
      BY <2>2, <2>3, Zenon DEF NoFiguresAfterError
    <2>5. ScreenIsCurrent' /\ DrawnChartsAreListed' /\ BlankUntilAnswered'
      BY <1>2, <2>2, Zenon DEF AnswerError, ScreenIsCurrent, DrawnChartsAreListed, BlankUntilAnswered
    <2>6. TypeOK'
      BY <1>2, Zenon DEF AnswerError, TypeOK, controls
    <2> QED BY <2>4, <2>5, <2>6
  <1>3. CASE NoAnswer
    <2>1. TypeOK' /\ BlankUntilAnswered'
      BY <1>3, Zenon DEF NoAnswer, TypeOK, controls, BlankUntilAnswered
    <2> QED BY <1>3, <2>1, ScreenKept, Zenon DEF NoAnswer
  <1>4. CASE ToggleModel
    <2>1. PICK k \in DOMAIN models : models' = [models EXCEPT ![k] = ~@]
      BY <1>4, Zenon DEF ToggleModel
    <2>2. DOMAIN models' = DOMAIN models /\ \A x \in DOMAIN models : models'[x] \in BOOLEAN
      BY <2>1, Zenon DEF TypeOK
    <2>3. TypeOK' /\ BlankUntilAnswered'
      BY <1>4, <2>2, Zenon DEF ToggleModel, TypeOK, BlankUntilAnswered
    <2> QED BY <1>4, <2>3, RedrawSafe, Zenon DEF ToggleModel
  <1>5. CASE ToggleCategory
    <2>1. PICK k \in DOMAIN cats : cats' = [cats EXCEPT ![k] = ~@]
      BY <1>5, Zenon DEF ToggleCategory
    <2>2. DOMAIN cats' = DOMAIN cats /\ \A x \in DOMAIN cats : cats'[x] \in BOOLEAN
      BY <2>1, Zenon DEF TypeOK
    <2>3. TypeOK' /\ BlankUntilAnswered'
      BY <1>5, <2>2, Zenon DEF ToggleCategory, TypeOK, BlankUntilAnswered
    <2> QED BY <1>5, <2>3, RedrawSafe, Zenon DEF ToggleCategory
  <1>6. CASE ToggleType
    <2>1. TypeOK' /\ BlankUntilAnswered'
      BY <1>6, SMT DEF ToggleType, TypeOK, BlankUntilAnswered
    <2> QED BY <1>6, <2>1, RedrawSafe, Zenon DEF ToggleType
  <1>7. CASE ChooseColour
    <2>1. TypeOK' /\ BlankUntilAnswered'
      BY <1>7, SMT DEF ChooseColour, TypeOK, BlankUntilAnswered
    <2> QED BY <1>7, <2>1, RedrawSafe, Zenon DEF ChooseColour
  <1>8. CASE toggleOrientation
    <2>1. TypeOK' /\ BlankUntilAnswered'
      BY <1>8, SMT DEF toggleOrientation, TypeOK, BlankUntilAnswered
    <2> QED BY <1>8, <2>1, RedrawSafe, Zenon DEF toggleOrientation
  <1>9. CASE renderPurityChart \/ render3DPurityChart
    <2>1. UNCHANGED <<table, awaiting, raw, controls>>
      BY <1>9, Zenon DEF renderPurityChart, render3DPurityChart
    <2>2. TypeOK' /\ BlankUntilAnswered'
      BY <2>1, Zenon DEF TypeOK, controls, BlankUntilAnswered
    <2>3. ASSUME NEW kind, NEW type PROVE Content(kind, type)' = Content(kind, type)
      BY <2>1, Zenon DEF Content, selectedModels, selectedCats, Checked, controls
    <2>4. CASE raw = ErrorBody
      <3>1. screen' = {Bare} /\ raw' = ErrorBody
        BY <1>9, <2>4, Zenon DEF renderPurityChart, render3DPurityChart
      <3>2. Drawn' = {}
        BY <3>1, SMT DEF Drawn, Bare
      <3> QED BY <2>2, <3>1, <3>2, SMT DEF ScreenIsCurrent, DrawnChartsAreListed, NoFiguresAfterError
    <2>5. CASE raw /= ErrorBody
      <3>1. PICK kind \in {"purity", "3d"}, type \in {"bar", "bar3D"} :
              /\ screen' = {Content(kind, type)}
              /\ kind /= "3d" => charts' = screen'
        BY <1>9, <2>5, Zenon DEF renderPurityChart, render3DPurityChart, PurityChart
      <3>2. ASSUME NEW c \in Drawn'
            PROVE  c = Content(c.kind, c.type)' /\ (c.kind /= "3d" => c \in charts')
        <4>1. c = Content(kind, type) /\ c \in screen'
          BY <3>1, <3>2, Zenon DEF Drawn
        <4>2. c.kind = kind /\ c.type = type
          BY <4>1, Zenon DEF Content
        <4> QED BY <2>3, <3>1, <4>1, <4>2, Zenon
      <3>3. raw' /= ErrorBody
        BY <2>1, <2>5
      <3> QED BY <2>2, <3>2, <3>3, Zenon DEF ScreenIsCurrent, DrawnChartsAreListed, NoFiguresAfterError
    <2> QED BY <2>4, <2>5
  <1> QED BY <1>1, <1>2, <1>3, <1>4, <1>5, <1>6, <1>7, <1>8, <1>9, Zenon DEF Next

\* A stuttering step keeps it too.
LEMMA ChartStutter == ChartInv /\ UNCHANGED vars => ChartInv'
  <1> SUFFICES ASSUME ChartInv, UNCHANGED vars PROVE ChartInv'
    OBVIOUS
  <1>1. UNCHANGED <<raw, controls, charts, screen>>
    BY Zenon DEF vars, controls
  <1>2. TypeOK' /\ BlankUntilAnswered'
    BY Zenon DEF ChartInv, vars, TypeOK, BlankUntilAnswered
  <1> QED BY <1>1, <1>2, ScreenKept, Zenon DEF ChartInv

\* The inductive invariant of the visualization page holds in every state.
THEOREM ChartSafe == Spec => []ChartInv
  <1>1. ChartInv /\ [Next]_vars => ChartInv'
    BY ChartStep, ChartStutter
  <1> QED BY <1>1, ChartInit, PTL DEF Spec

\* The filters name models and categories of the table, every listed model has
\* a colour, and the rows are the query's, none, or an error's body.
THEOREM ChartTyped == Spec => []TypeOK
  <1>1. ChartInv => TypeOK
    BY DEF ChartInv
  <1> QED BY <1>1, ChartSafe, PTL

\* After every handler, and whenever the rows arrive, each chart in the
\* container shows what it would show if it were drawn again.
THEOREM ScreenAlwaysCurrent == Spec => []ScreenIsCurrent
  <1>1. ChartInv => ScreenIsCurrent
    BY DEF ChartInv
  <1> QED BY <1>1, ChartSafe, PTL

\* Every Chart.js chart in the container is in chartData.charts, although
\* render3DPurityChart replaces the container and leaves the list alone.
THEOREM NoChartLost == Spec => []DrawnChartsAreListed
  <1>1. ChartInv => DrawnChartsAreListed
    BY DEF ChartInv
  <1> QED BY <1>1, ChartSafe, PTL

\* A page that was answered with an error shows no figures.
THEOREM ErrorShowsNoFigures == Spec => []NoFiguresAfterError
  <1>1. ChartInv => NoFiguresAfterError
    BY DEF ChartInv
  <1> QED BY <1>1, ChartSafe, PTL

-----------------------------------------------------------------------------
\* q is the number nearest to a / b, the upper one of two.
Nearest(q, a, b) == 2 * b * q <= 2 * a + b /\ 2 * a + b < 2 * b * q + 2 * b

\* RoundHalfUp returns the nearest whole number, the upper one of two.
LEMMA RoundHalfUpIs ==
    ASSUME NEW a \in Nat, NEW b \in Nat \ {0}
    PROVE  RoundHalfUp(a, b) \in Nat /\ Nearest(RoundHalfUp(a, b), a, b)
  <1>1. PICK n \in Nat, d \in Nat \ {0} : n = 2 * a + b /\ d = 2 * b
    BY SMT
  <1>2. n \div d \in Nat /\ d * (n \div d) <= n /\ n < d * (n \div d) + d
    BY SMT
  <1> QED BY <1>1, <1>2, SMT DEF RoundHalfUp, Nearest

\* b / t lies half-way between two numbers.
EndsInHalf(b, t) == (2 * b + t) % (2 * t) = 0

\* Two parts of 100 per cent, both rounded half up, make 100 per cent or one
\* hundredth more, and the latter where the second ends in a half.
Parts(p, q, b, t) == p + q \in {10000, 10001} /\ (EndsInHalf(b, t) => p + q = 10001)

\* Two parts of a whole round to parts of the whole, or to one more.
LEMMA RoundedParts ==
    ASSUME NEW t \in Nat \ {0}, NEW a \in Nat, NEW b \in Nat, a + b = 10000 * t
    PROVE  Parts(RoundHalfUp(a, t), RoundHalfUp(b, t), b, t)
  <1>1. PICK p \in Nat : p = RoundHalfUp(a, t) /\ Nearest(p, a, t)
    BY RoundHalfUpIs, SMT
  <1>2. PICK q \in Nat : q = RoundHalfUp(b, t) /\ Nearest(q, b, t)
    BY RoundHalfUpIs, SMT
  <1>3. t * (p + q) <= 10001 * t /\ 9999 * t < t * (p + q)
    BY <1>1, <1>2, SMT DEF Nearest
  <1>4. p + q <= 10001 /\ 9999 < p + q
    BY <1>3, SMT
  <1>5. ASSUME EndsInHalf(b, t) PROVE p + q = 10001
    <2>1. 2 * b + t = 2 * t * q
      BY <1>2, <1>5, SMT DEF RoundHalfUp, EndsInHalf
    <2>2. t * 10001 < t * (p + q) + t
      BY <1>1, <2>1, SMT DEF Nearest
    <2>3. 10001 < p + q + 1
      BY <2>2, SMT
    <2> QED BY <1>4, <2>3, SMT
  <1>6. p + q \in {10000, 10001}
    BY <1>4, SMT
  <1> QED BY <1>1, <1>2, <1>5, <1>6, SMT DEF Parts

\* Of any number of tests, any number of them right: accuracy_percent and the
\* misclassification rate of the purity charts add up to 100, with at most one
\* hundredth more where both round a half up.
THEOREM RatesOfARow ==
    ASSUME NEW row, row.total \in Nat \ {0}, row.correct \in 0..row.total,
           row.accuracy_percent = RoundHalfUp(row.correct * 10000, row.total)
    PROVE  \A w \in WrongRates(row) : row.accuracy_percent + w \in {10000, 10001}
  <1>1. PICK t \in Nat \ {0}, a \in Nat, b \in Nat :
          /\ t = row.total /\ a = row.correct * 10000 /\ b = (row.total - row.correct) * 10000
          /\ a + b = 10000 * t
    BY SMT
  <1>2. RoundHalfUp(a, t) \in Nat /\ RoundHalfUp(b, t) \in Nat
    BY RoundHalfUpIs, SMT
  <1>3. Parts(RoundHalfUp(a, t), RoundHalfUp(b, t), b, t)
    <2>1. a + b = 10000 * t
      BY <1>1
    <2> QED BY <2>1, RoundedParts, SMT
  <1>4. PICK p \in Nat, q \in Nat : p = RoundHalfUp(a, t) /\ q = RoundHalfUp(b, t)
    BY <1>2, SMT
  <1>5. WrongRates(row) = IF EndsInHalf(b, t) THEN {q - 1, q} ELSE {q}
    BY <1>1, <1>4, SMT DEF WrongRates, EndsInHalf
  <1>6. row.accuracy_percent = p
    BY <1>1, <1>4, SMT
  <1> QED BY <1>3, <1>4, <1>5, <1>6, SMT DEF Parts
=============================================================================
