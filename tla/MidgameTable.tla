---------------------------- MODULE MidgameTable ----------------------------
(***************************************************************************)
(* TranspositionTable (search_tt.hpp): the table of the midgame search, as *)
(* operators on a table value.  It outlives a search: an entry says under  *)
(* which mode and evaluator, to which depth and in which generation it was *)
(* stored.                                                                 *)
(*                                                                         *)
(* As in ExactTable the key is the position: no two positions of a session *)
(* share a 64-bit hash.  Their low bits, HashBits, do collide.             *)
(***************************************************************************)
EXTENDS GameTree, TTBounds, FiniteSets

CONSTANTS
  HashBits,         \* HashBits[p]: the low bits of the hash of p
  MidBucketWidth,   \* 4 in the code
  GenerationMax,    \* the greatest std::uint32_t
  Identities,       \* evaluation identities
  MaxDepth          \* bounds the depths asked for

ASSUME MidTableAssumption ==
  /\ HashBits \in [Positions -> Nat]
  /\ MidBucketWidth \in Nat \ {0}
  /\ GenerationMax \in Nat \ {0}
  /\ MaxDepth \in Nat

Modes       == {"FixedDepth", "Iterative", "ExactEndgame"}
Scopes      == [mode : Modes, eval_identity : Identities]
Depths      == 0 .. MaxDepth
Generations == 1 .. GenerationMax
MidSlots    == 1 .. MidBucketWidth

FreeSlot == [occupied |-> FALSE]
MidEntries ==
  [occupied : {TRUE}, hash : Positions, scope : Scopes, generation : Generations,
   depth : Depths, score : Int, best_move_index : Squares \cup {NoMove},
   bound : Bounds]

\* A table has bucket_count buckets; 0 is a disabled table.
MidTables(count) == [0 .. count - 1 -> [MidSlots -> MidEntries \cup {FreeSlot}]]
NewTable(count) == [b \in 0 .. count - 1 |-> [i \in MidSlots |-> FreeSlot]]

\* bucket_index masks the hash: the count is a power of two.
BucketOf(count, hash) == HashBits[hash] % count

\* Mutation: entries of every evaluator and mode match.
SameKeyAnyScope(e, hash, scope) == e.occupied /\ e.hash = hash
SameKey(e, hash, scope) == e.occupied /\ e.hash = hash /\ e.scope = scope

FirstSlot(i, Cond(_)) == Cond(i) /\ \A j \in MidSlots : j < i => ~Cond(j)

\* The matching entry of the bucket, as a set of at most one.
Found(t, count, hash, scope) ==
  IF count = 0 THEN {}
  ELSE LET bucket == t[BucketOf(count, hash)]
           HasKey(i) == SameKey(bucket[i], hash, scope)
       IN  { bucket[i] : i \in { k \in MidSlots : FirstSlot(k, HasKey) } }

\* Mutation: an entry of any depth answers.
AnswersAnyDepth(e, depth, alpha, beta) == ProvesCutoff(e.bound, e.score, alpha, beta)

\* lookup cuts off only with an entry that is deep enough.
Answers(e, depth, alpha, beta) ==
  e.depth >= depth /\ ProvesCutoff(e.bound, e.score, alpha, beta)

(***************************************************************************)
(* Replacement.                                                            *)
(***************************************************************************)

\* generation_age; the counter skips 0 when it wraps (begin_session_search).
GenerationAge(current, stored) ==
  IF current >= stored THEN current - stored
  ELSE current + (GenerationMax - stored)

NextGeneration(g) == IF g = GenerationMax THEN 1 ELSE g + 1

\* replacement_protection_score: depth protects, age wears it off.
Protection(depth, age) == 4 * depth - (IF age <= 8 THEN age ELSE 8)

Weaker(a, b, generation) ==
  LET age(e) == GenerationAge(generation, e.generation)
      score(e) == Protection(e.depth, age(e))
  IN  \/ score(a) < score(b)
      \/ score(a) = score(b) /\ age(a) > age(b)
      \/ score(a) = score(b) /\ age(a) = age(b) /\ a.depth < b.depth

\* select_replacement_entry: the slot of the same key, else a free one, else
\* the weakest unless it is better protected than the entry to come.
ReplacedSlot(bucket, hash, scope, generation, depth, i) ==
  LET HasKey(k)  == SameKey(bucket[k], hash, scope)
      IsFree(k)  == ~bucket[k].occupied
      Weakest(k) == \A j \in MidSlots : ~Weaker(bucket[j], bucket[k], generation)
  IN  IF \E k \in MidSlots : HasKey(k) THEN FirstSlot(i, HasKey)
      ELSE IF \E k \in MidSlots : IsFree(k) THEN FirstSlot(i, IsFree)
      ELSE /\ FirstSlot(i, Weakest)
           /\ Protection(depth, 0) >=
                Protection(bucket[i].depth, GenerationAge(generation, bucket[i].generation))

StoreEntry(t, count, e) ==
  IF count = 0 THEN t
  ELSE LET b == BucketOf(count, e.hash)
       IN  [t EXCEPT ![b] = [i \in MidSlots |->
              IF ReplacedSlot(t[b], e.hash, e.scope, e.generation, e.depth, i)
              THEN e ELSE t[b][i]]]
=============================================================================
