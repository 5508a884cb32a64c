------------------------------ MODULE TTBounds ------------------------------
(***************************************************************************)
(* tt_common.hpp: the kind of bound a fail-soft alpha-beta score is, when  *)
(* a stored bound answers a new window, and the sizing of both tables.     *)
(***************************************************************************)
EXTENDS Integers

Bounds == {"Exact", "Lower", "Upper"}

\* Mutation: a score equal to alpha counts as exact.
BoundForScoreStrict(score, original_alpha, beta) ==
  IF score < original_alpha THEN "Upper"
  ELSE IF score >= beta THEN "Lower" ELSE "Exact"

BoundForScore(score, original_alpha, beta) ==
  IF score <= original_alpha THEN "Upper"
  ELSE IF score >= beta THEN "Lower" ELSE "Exact"

\* Mutation: a lower bound above alpha is taken for an answer.
ProvesCutoffAboveAlpha(bound, score, alpha, beta) ==
  \/ bound = "Exact"
  \/ bound = "Lower" /\ score > alpha
  \/ bound = "Upper" /\ score <= alpha

ProvesCutoff(bound, score, alpha, beta) ==
  \/ bound = "Exact"
  \/ bound = "Lower" /\ score >= beta
  \/ bound = "Upper" /\ score <= alpha

\* bucket_count_for_entry_count: enough buckets for the entries, rounded up to
\* a power of two, so that a mask of the hash picks one.
BucketCountFor(entry_count, bucket_width) ==
  IF entry_count = 0 \/ bucket_width = 0 THEN 0
  ELSE LET requested == ((entry_count - 1) \div bucket_width) + 1
       IN  CHOOSE c \in { 2 ^ k : k \in 0 .. requested } :
             c >= requested /\ \A d \in { 2 ^ k : k \in 0 .. requested } : d >= requested => c <= d

(***************************************************************************)
(* What the two operators have to do with each other.                      *)
(***************************************************************************)

\* The fail-soft contract: what a score returned for a window says of the
\* true value v of the position searched.
Contract(v, score, alpha, beta) ==
  /\ score <= alpha => v <= score
  /\ score >= beta  => v >= score
  /\ alpha < score /\ score < beta => v = score

\* What a stored bound says of the true value.
BoundHolds(v, bound, score) ==
  /\ bound \in {"Exact", "Upper"} => v <= score
  /\ bound \in {"Exact", "Lower"} => v >= score
=============================================================================
