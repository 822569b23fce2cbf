----------------------------- MODULE MCNoCManager -----------------------------
EXTENDS NoCManager

\* Four clusters of 2 x 2 routers. A circuit from corner to corner, by way of a
\* third cluster; one between neighbouring clusters; and one inside a cluster with
\* the same target.
Far == <<<<0, 0>>, <<3, 3>>>>
Near == <<<<2, 2>>, <<1, 3>>>>
Inside == <<<<1, 2>>, <<1, 3>>>>
MCPair == {Far, Near, Inside}
MCReleasable == {Near, Inside}

=============================================================================
