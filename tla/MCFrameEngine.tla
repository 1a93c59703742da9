--------------------------- MODULE MCFrameEngine ---------------------------
EXTENDS FrameEngine

Layer(rq, fits) == [rq |-> rq, fits |-> fits]
Alike == {<<Layer(rq, fits), Layer(rq, fits)>> : rq \in BOOLEAN, fits \in BOOLEAN}

\* The encoder's last layer drains accumulators, and its last three do not fit the
\* cache; besides the plans of like layers, some whose second layer differs.
MCPlans == Alike \cup {<<Layer(TRUE, TRUE), Layer(FALSE, FALSE)>>,
                       <<Layer(FALSE, FALSE), Layer(TRUE, TRUE)>>}
=============================================================================
