----------------------- MODULE AtomicApplyRefinement -----------------------
(***************************************************************************)
(* The file operation implements AtomicApply as long as nobody edits the   *)
(* vault meanwhile.  The article a reader may rely on is the file, except  *)
(* that an interrupted apply still stands there under the name of what it  *)
(* displaced: recovery will put that back.                                 *)
(***************************************************************************)
EXTENDS FileOperation

InFlight == {r \in Run : Interrupted(r) /\ target = After(r)}

Article ==
  IF InFlight = {} THEN target ELSE Displaced(CHOOSE r \in InFlight : TRUE)

Published(r) == IF r = NoRun THEN NoRun ELSE After(r)

Seen(q) ==
  IF token[q] = NoToken THEN NoRun
  ELSE <<token[q].before, Published(token[q].last)>>

Abstract == INSTANCE AtomicApply WITH
  None     <- NoRun,
  article  <- Article,
  latest   <- Published(lastOp),
  reviewed <- [q \in Proposal |-> Seen(q)],
  applied  <- {After(r) : r \in markers}

\* Every behaviour of open, approve and apply, crashed and recovered any
\* number of times, is a behaviour of the atomic compare-and-swap: recovery
\* never publishes, a commit publishes exactly the reviewed replacement, and
\* nothing else changes the article (VaultWriter::apply, recover_journal).
AppliesAtomically == Abstract!Spec
=============================================================================
