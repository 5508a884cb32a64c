----------------------------- MODULE ExactTable -----------------------------
(***************************************************************************)
(* ExactTranspositionTable (endgame_tt.hpp): a table of buckets, each a    *)
(* short array of slots, as operators on a table value.                    *)
(*                                                                         *)
(* A 64-bit Zobrist hash is the key in the code; here the key is the       *)
(* position itself, i.e. no two positions of one search share a hash.      *)
(* The low bits that pick the bucket do collide: BucketIndex is arbitrary. *)
(***************************************************************************)
EXTENDS ExactGame, TTBounds

CONSTANTS
  BucketCount,   \* normalized_bucket_count; 0 is a disabled table
  BucketWidth,   \* 8 in the code
  BucketIndex,   \* BucketIndex[p]: the bucket of the hash of p
  Tableless      \* the positions of the games solved without a table

Buckets == 0 .. BucketCount - 1
Slots   == 1 .. BucketWidth

ASSUME TableAssumption ==
  /\ BucketCount \in Nat
  /\ BucketWidth \in Nat \ {0}
  /\ BucketCount > 0 => BucketIndex \in [Positions -> Buckets]
  /\ Tableless \subseteq Positions

\* Whole games are solved without a table.
ASSUME TablelessAssumption ==
  \A p \in Tableless :
    /\ \A m \in Moves[p] : Play[p][m] \in Tableless
    /\ Moves[p] = {} => Pass[p] \in Tableless

EmptySlot == [occupied |-> FALSE]
Entries ==
  [occupied : {TRUE}, hash : Positions, score : Int, empties : 0 .. 60,
   best_move_index : Squares \cup {NoMove}, bound : Bounds]
Tables == [Buckets -> [Slots -> Entries \cup {EmptySlot}]]

EmptyTable == [b \in Buckets |-> [i \in Slots |-> EmptySlot]]
Enabled(hash) == BucketCount > 0 /\ hash \notin Tableless

\* Mutation: any entry of the bucket answers.
HoldsAnyHash(bucket, i, hash) == bucket[i].occupied
Holds(bucket, i, hash) == bucket[i].occupied /\ bucket[i].hash = hash

\* The first slot, in array order, that satisfies a condition.
IsFirst(i, Cond(_)) == Cond(i) /\ \A j \in Slots : j < i => ~Cond(j)

(***************************************************************************)
(* lookup: the matching entry of the bucket, unless it was stored for      *)
(* fewer empty squares.  Matching(t, hash, empties) has at most one member.*)
(***************************************************************************)
Matching(t, hash, empties) ==
  IF ~Enabled(hash) THEN {}
  ELSE LET bucket == t[BucketIndex[hash]]
           HasHash(i) == Holds(bucket, i, hash)
       IN  { bucket[i] : i \in { k \in Slots : /\ IsFirst(k, HasHash)
                                               /\ bucket[k].empties >= empties } }

Cutoffs(t, hash, empties, alpha, beta) ==
  { e \in Matching(t, hash, empties) : ProvesCutoff(e.bound, e.score, alpha, beta) }

\* Mutation: an entry without a move yields a line all the same.
CutoffResultNoCheck(e) ==
  [score |-> e.score, best_move |-> e.best_move_index, pv |-> <<e.best_move_index>>]

\* node_result_from_transposition_entry: the line of a cut node is cut to
\* the stored move.
CutoffResult(e) ==
  [score |-> e.score, best_move |-> e.best_move_index,
   pv |-> IF e.best_move_index = NoMove THEN << >> ELSE <<e.best_move_index>>]

\* Only the move of a lower bound is offered to the move ordering.
BestMoveHint(t, hash, empties) ==
  LET lower == { e \in Matching(t, hash, empties) : e.bound = "Lower" }
  IN  IF lower = {} THEN NoMove ELSE (CHOOSE e \in lower : TRUE).best_move_index

(***************************************************************************)
(* store: the slot that already holds the hash, else the first free slot,  *)
(* else the slot with the fewest empties (the first of equals), which a    *)
(* position with still fewer empties does not displace.                    *)
(***************************************************************************)
ReplacementSlot(bucket, hash, empties, i) ==
  LET HasHash(k) == Holds(bucket, k, hash)
      Free(k)    == ~bucket[k].occupied
      Shallowest(k) == \A j \in Slots : bucket[k].empties <= bucket[j].empties
  IN  IF \E k \in Slots : HasHash(k) THEN IsFirst(i, HasHash)
      ELSE IF \E k \in Slots : Free(k) THEN IsFirst(i, Free)
      ELSE IsFirst(i, Shallowest) /\ empties >= bucket[i].empties

NewEntry(hash, empties, score, original_alpha, beta, best_move) ==
  [occupied |-> TRUE, hash |-> hash, score |-> score, empties |-> empties,
   best_move_index |-> best_move,
   bound |-> BoundForScore(score, original_alpha, beta)]

Store(t, hash, empties, score, original_alpha, beta, best_move) ==
  LET b == BucketIndex[hash]
      entry == NewEntry(hash, empties, score, original_alpha, beta, best_move)
  IN  IF ~Enabled(hash) THEN t
      ELSE [t EXCEPT ![b] = [i \in Slots |->
              IF ReplacementSlot(t[b], hash, empties, i) THEN entry ELSE t[b][i]]]
=============================================================================
