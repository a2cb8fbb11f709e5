------------------------------ MODULE ChartPage ------------------------------
(***************************************************************************)
(* The visualization page: its one request for the accuracy rows, the      *)
(* filters built from the answer, and the handlers that redraw the chart   *)
(* container (visualization/index.html, purity-chart.js and                *)
(* render3DPurityChart.js).  Handlers run one at a time; the answer to the *)
(* request may come between any two of them, or never.                     *)
(***************************************************************************)
EXTENDS AccuracyQuery

CONSTANTS
    Tables,       \* the contents of the table that are considered
    Charted,      \* the categories the page has a label for
    Type,         \* the chart types on offer, "bar" among them
    Colour,       \* what a colour input can be set to
    ErrorBody     \* the object that is the body of a 500

ASSUME ChartAssumption ==
    /\ Tables \subseteq [Test -> Nat]
    /\ Charted \subseteq Category /\ "bar" \in Type
    /\ ErrorBody /= {}

VARIABLES
    table,        \* testrecordsdetails2022
    awaiting,     \* the request is unanswered
    raw,          \* chartData.raw
    models,       \* the model checkboxes: shown ones, checked or not
    cats,         \* the category checkboxes
    types,        \* the checked chart types
    horizontal,   \* chartData.horizontal
    colors,       \* chartData.colors, for the models that have one
    charts,       \* chartData.charts
    screen        \* the children of the chart container

vars == <<table, awaiting, raw, models, cats, types, horizontal, colors, charts,
          screen>>
controls == <<models, cats, types, horizontal, colors>>

Bare == [kind |-> "bare"]

Checked(box) == {x \in DOMAIN box : box[x]}
selectedModels == {r.model_id : r \in raw} \cap Checked(models)
selectedCats == Charted \cap {r.correct_category : r \in raw} \cap Checked(cats)

\* What a chart drawn now shows.
Content(kind, type) ==
    [kind |-> kind, type |-> type, models |-> selectedModels, cats |-> selectedCats,
     flat |-> kind = "accuracy" /\ type = "bar" /\ horizontal,
     rows |-> {r \in raw : r.model_id \in selectedModels /\ r.correct_category \in selectedCats},
     paint |-> IF kind = "3d" THEN {} ELSE {<<m, colors[m]>> : m \in selectedModels}]

AccuracyCharts == {Content("accuracy", type) : type \in types}
PurityChart == Content("purity", "bar")

TypeOK ==
    /\ table \in Tables
    /\ awaiting \in BOOLEAN
    /\ raw \in {{}, Accuracy(table), ErrorBody}
    /\ DOMAIN models \subseteq Model /\ \A m \in DOMAIN models : models[m] \in BOOLEAN
    /\ DOMAIN cats \subseteq Category \cup {Null} /\ \A c \in DOMAIN cats : cats[c] \in BOOLEAN
    /\ types \subseteq Type /\ horizontal \in BOOLEAN
    /\ DOMAIN colors = DOMAIN models

Init ==
    /\ table \in Tables
    /\ awaiting = TRUE
    /\ raw = {}
    /\ models = <<>> /\ cats = <<>> /\ colors = <<>>
    /\ types = {"bar"} /\ horizontal = TRUE
    /\ charts = {} /\ screen = {}

-----------------------------------------------------------------------------
\* renderCharts destroys the listed charts and draws one per checked type.
\* An error body has no map: the first type's canvas is left without a chart.
renderCharts ==
    IF raw' = ErrorBody
    THEN charts' = {} /\ screen' = IF types' = {} THEN {} ELSE {Bare}
    ELSE charts' = AccuracyCharts' /\ screen' = AccuracyCharts'

\* Mutant of renderPurityChart: the chart is not entered in chartData.charts.
renderPurityChart_unlisted ==
    /\ charts' = {}
    /\ screen' = IF raw = ErrorBody THEN {Bare} ELSE {PurityChart}
    /\ UNCHANGED <<table, awaiting, raw, controls>>

\* renderPurityChart does the same with one chart.
renderPurityChart ==
    /\ IF raw = ErrorBody THEN charts' = {} /\ screen' = {Bare}
                          ELSE charts' = {PurityChart} /\ screen' = {PurityChart}
    /\ UNCHANGED <<table, awaiting, raw, controls>>

\* render3DPurityChart empties the container and leaves chartData.charts.
render3DPurityChart ==
    /\ screen' = {IF raw = ErrorBody THEN Bare ELSE Content("3d", "bar3D")}
    /\ UNCHANGED <<table, awaiting, raw, controls, charts>>

\* Mutant of AnswerRows: the page goes on asking.
AnswerRows_polling ==
    /\ awaiting /\ UNCHANGED awaiting
    /\ raw' = Accuracy(table)
    /\ models' = [m \in {r.model_id : r \in raw'} |-> TRUE]
    /\ cats' = [c \in {r.correct_category : r \in raw'} |-> TRUE]
    /\ colors' \in [DOMAIN models' -> Colour]
    /\ UNCHANGED <<table, types, horizontal>>
    /\ renderCharts

\* The rows arrive: renderControls checks every box and gives new models a
\* colour, then renderCharts.
AnswerRows ==
    /\ awaiting /\ awaiting' = FALSE
    /\ raw' = Accuracy(table)
    /\ models' = [m \in {r.model_id : r \in raw'} |-> TRUE]
    /\ cats' = [c \in {r.correct_category : r \in raw'} |-> TRUE]
    /\ colors' \in [DOMAIN models' -> Colour]
    /\ UNCHANGED <<table, types, horizontal>>
    /\ renderCharts

\* Mutant of AnswerError: the body is stored as a row.
AnswerError_row ==
    /\ awaiting /\ awaiting' = FALSE
    /\ raw' = {ErrorBody}
    /\ UNCHANGED <<table, controls, charts, screen>>

\* A 500 arrives: its body is stored and renderControls throws at once.
AnswerError ==
    /\ awaiting /\ awaiting' = FALSE
    /\ raw' = ErrorBody
    /\ UNCHANGED <<table, controls, charts, screen>>

\* fetch rejects: nothing handles it.
NoAnswer ==
    /\ awaiting /\ awaiting' = FALSE
    /\ UNCHANGED <<table, raw, controls, charts, screen>>

\* The onchange handlers of the checkboxes and colour inputs.
ToggleModel ==
    /\ \E m \in DOMAIN models : models' = [models EXCEPT ![m] = ~@]
    /\ UNCHANGED <<table, awaiting, raw, cats, types, horizontal, colors>>
    /\ renderCharts

ToggleCategory ==
    /\ \E c \in DOMAIN cats : cats' = [cats EXCEPT ![c] = ~@]
    /\ UNCHANGED <<table, awaiting, raw, models, types, horizontal, colors>>
    /\ renderCharts

ToggleType ==
    /\ \E y \in Type : types' = IF y \in types THEN types \ {y} ELSE types \cup {y}
    /\ UNCHANGED <<table, awaiting, raw, models, cats, horizontal, colors>>
    /\ renderCharts

ChooseColour ==
    /\ \E m \in DOMAIN colors, v \in Colour : colors' = [colors EXCEPT ![m] = v]
    /\ UNCHANGED <<table, awaiting, raw, models, cats, types, horizontal>>
    /\ renderCharts

\* Mutant of toggleOrientation: the charts are not drawn again.
toggleOrientation_undrawn ==
    /\ horizontal' = ~horizontal
    /\ UNCHANGED <<table, awaiting, raw, models, cats, types, colors, charts, screen>>

toggleOrientation ==
    /\ horizontal' = ~horizontal
    /\ UNCHANGED <<table, awaiting, raw, models, cats, types, colors>>
    /\ renderCharts

Next ==
    \/ AnswerRows \/ AnswerError \/ NoAnswer
    \/ ToggleModel \/ ToggleCategory \/ ToggleType \/ ChooseColour \/ toggleOrientation
    \/ renderPurityChart \/ render3DPurityChart

Spec == Init /\ [][Next]_vars

-----------------------------------------------------------------------------
Drawn == screen \ {Bare}

\* The screen is never out of date: after every handler each chart in the
\* container shows what it would show if it were drawn again, whichever of the
\* three views is up and whenever the rows arrived (every onchange of
\* visualization/index.html ends in renderCharts).
ScreenIsCurrent ==
    raw /= ErrorBody => \A c \in Drawn : c = Content(c.kind, c.type)

\* No Chart.js chart is lost: one that is in the container is in
\* chartData.charts, so the next renderCharts or renderPurityChart destroys it.
DrawnChartsAreListed ==
    \A c \in Drawn : c.kind /= "3d" => c \in charts

\* A page that was answered with an error shows no figures: what is left in the
\* container was drawn before any rows were there (the answer is used without
\* a look at its status, and renderControls throws).
NoFiguresAfterError ==
    raw = ErrorBody => \A c \in Drawn : c.rows = {}

\* The query counts every test once, divides by no zero, and its percentage
\* and the misclassification rate of the purity charts add up to 100, with at
\* most one hundredth more where both round a half up.
RatesAddUp ==
    LET rows == Accuracy(table)
    IN  /\ MapThenSumSet(LAMBDA r : r.total, rows) = Count(table, Test)
        /\ \A r \in rows :
             /\ r.total > 0 /\ r.correct <= r.total
             /\ \A w \in WrongRates(r) : r.accuracy_percent + w \in {10000, 10001}
=============================================================================
