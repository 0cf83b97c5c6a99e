----------------------------- MODULE MCProject -----------------------------
\* Two texts with different bytes and a PDF for TLC; processes are
\* interchangeable.
EXTENDS Project, TLC

CONSTANTS d1, d2, d3, b1, b2

MCFormat == d1 :> "text" @@ d2 :> "text" @@ d3 :> "pdf"
MCOriginal == d1 :> b1 @@ d2 :> b2 @@ d3 :> b1
Symmetry == Permutations(Process)
=============================================================================
