---------------------------- MODULE AtomicApply ----------------------------
(***************************************************************************)
(* What `kc apply` promises of one article, whatever happens between its   *)
(* steps: a publication is a compare-and-swap.  In one step it replaces    *)
(* the article that was reviewed by the proposal's bytes and records the   *)
(* proposal as applied, and no proposal is published twice.  Crashes and   *)
(* recovery are invisible.                                                 *)
(***************************************************************************)
CONSTANTS Proposal,  \* proposals, and the bytes each renders to
          Bytes,     \* contents of the article's path, its absence included
          None       \* no review, no publication yet

VARIABLES article,   \* what the article is
          latest,    \* the proposal published last
          reviewed,  \* [Proposal -> the article and publication a review saw]
          applied    \* the proposals published

vars == <<article, latest, reviewed, applied>>
Review == Bytes \X (Proposal \cup {None})

Init ==
  /\ article \in Bytes
  /\ latest = None
  /\ reviewed = [q \in Proposal |-> None]
  /\ applied = {}

\* A reviewer looks at the article whenever it likes and approves.
Approve(q) ==
  /\ reviewed[q] = None
  /\ \E seen \in Review : reviewed' = [reviewed EXCEPT ![q] = seen]
  /\ UNCHANGED <<article, latest, applied>>

Publish(q) ==
  /\ reviewed[q] = <<article, latest>>
  /\ q \notin applied
  /\ article' = q
  /\ latest' = q
  /\ applied' = applied \cup {q}
  /\ UNCHANGED reviewed

Next == \E q \in Proposal : Approve(q) \/ Publish(q)

Spec == Init /\ [][Next]_vars
=============================================================================
