---------------------------- MODULE MoveHistory -----------------------------
(***************************************************************************)
(* History and killer moves (search_ordering.hpp): what the moves that cut *)
(* off a node leave behind for the ordering of other nodes, in this search *)
(* and, as a session keeps it, in those to come.                           *)
(***************************************************************************)
EXTENDS GameTree

CONSTANTS
  HistoryCap,         \* history_cap: 96
  HistoryMaxBonus,    \* history_max_bonus: 12
  KillerFirstBonus,   \* killer_first_bonus: 8
  KillerSecondBonus,  \* killer_second_bonus: 4
  LastBucket          \* the last depth with killers of its own: 64

ASSUME HistoryAssumption ==
  {HistoryCap, HistoryMaxBonus, KillerFirstBonus, KillerSecondBonus, LastBucket} \subseteq Nat

\* depth_bucket
DepthBucket(depth) == IF depth < 0 THEN 0 ELSE IF depth > LastBucket THEN LastBucket ELSE depth

Buckets == 0 .. LastBucket
AtMost(n, bound) == IF n <= bound THEN n ELSE bound

\* HistoryKillerState: a counter for each square, two killers for each depth.
Histories == [Squares -> 0 .. HistoryCap]
KillerPairs == (Squares \cup {NoMove}) \X (Squares \cup {NoMove})
HistoryKillerStates == [history : Histories, killers : [Buckets -> KillerPairs]]

\* HistoryKillerState::reset
NoCutoffs ==
  [history |-> [m \in Squares |-> 0], killers |-> [b \in Buckets |-> <<NoMove, NoMove>>]]

\* depth_history_increment
HistoryIncrement(depth) == IF depth < 1 THEN 1 ELSE depth * depth

\* decay_history
Decayed(history) == [m \in Squares |-> history[m] \div 2]

\* Mutation: only the counter that would pass the cap is halved.
RecordHistoryDecaysOne(history, m, depth) ==
  [history EXCEPT ![m] =
     IF @ > HistoryCap - HistoryIncrement(depth)
     THEN AtMost((@ \div 2) + HistoryIncrement(depth), HistoryCap)
     ELSE @ + HistoryIncrement(depth)]

\* record_history_cutoff: where the counter would pass the cap, all are halved.
RecordHistory(history, m, depth) ==
  LET kept == IF history[m] > HistoryCap - HistoryIncrement(depth) THEN Decayed(history) ELSE history
  IN  [kept EXCEPT ![m] = AtMost(@ + HistoryIncrement(depth), HistoryCap)]

\* record_killer_cutoff: the move is first, what was first is second.
RecordKiller(pair, m) == IF pair[1] = m THEN pair ELSE <<m, pair[1]>>

\* record_history_killer_cutoff
RecordCutoff(cutoffs, m, depth) ==
  [history |-> RecordHistory(cutoffs.history, m, depth),
   killers |-> [cutoffs.killers EXCEPT ![DepthBucket(depth)] = RecordKiller(@, m)]]

\* history_killer_bonus
HistoryKillerBonus(cutoffs, m, depth) ==
  LET pair == cutoffs.killers[DepthBucket(depth)]
  IN  AtMost(cutoffs.history[m], HistoryMaxBonus)
        + (IF pair[1] = m THEN KillerFirstBonus ELSE IF pair[2] = m THEN KillerSecondBonus ELSE 0)
=============================================================================
