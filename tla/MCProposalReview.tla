-------------------------- MODULE MCProposalReview --------------------------
\* Titles for TLC: "gas" and "Gas" are one concept, "spaced" is another whose
\* slug is theirs, and "other" has a slug of its own; and a project with a
\* single title.
EXTENDS ProposalReview, TLC

CONSTANTS gas, Gas, spaced, other, c1, c2

MCTitle == {gas, Gas, spaced, other}
MCKey == gas :> 1 @@ Gas :> 1 @@ spaced :> 2 @@ other :> 3
MCSlug == gas :> 1 @@ Gas :> 1 @@ spaced :> 1 @@ other :> 2

OneTitle == {gas}
OneKey == gas :> 1
OneSlug == gas :> 1
=============================================================================
