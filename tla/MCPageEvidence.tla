--------------------------- MODULE MCPageEvidence ---------------------------
EXTENDS PageEvidence, TLC

CONSTANTS x, y

\* What the adapters may make of a page.
OneReading == {<<x, "native">>}
TwoReadings == {<<x, "native">>, <<y, "ocr_unreviewed">>}
MayFail == {<<x, "native">>, <<NoText, "failed">>}

Symmetry == Permutations(Process) \cup Permutations(Run) \cup
            Permutations(Proposal)

=============================================================================
