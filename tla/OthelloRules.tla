---------------------------- MODULE OthelloRules ----------------------------
(***************************************************************************)
(* The rules of the game (rules.cpp, bitboard_rules.hpp, bitboard_ops.hpp) *)
(* and what the searches carry along beside a board: the same position     *)
(* from the mover's side (SearchPosition) and a Zobrist hash, each updated *)
(* move by move and never computed again from the board.                   *)
(*                                                                         *)
(* A Bitboard is a set of squares.  A hash is the set of the random keys   *)
(* that are combined in it, and exclusive or is symmetric difference: the  *)
(* model identifies two hashes only if they agree for every choice of the  *)
(* keys.                                                                   *)
(***************************************************************************)
EXTENDS Integers, FiniteSets

CONSTANTS
  Width,          \* 8 in the code
  CaptureSteps,   \* the steps of the fill in legal_moves_in_direction: 5
  StartBoards     \* the boards a line of play may start from

ASSUME RulesAssumption ==
  /\ Width \in Nat \ {0}
  /\ CaptureSteps \in Nat

Squares == 0 .. Width * Width - 1
Sides   == {"Black", "White"}
opponent(side) == IF side = "Black" THEN "White" ELSE "Black"

Boards ==
  { b \in [black : SUBSET Squares, white : SUBSET Squares, side_to_move : Sides] :
      b.black \cap b.white = {} }
SearchPositions ==
  [player : SUBSET Squares, opponent_discs : SUBSET Squares, side_to_move : Sides]

discs(board, side) == IF side = "Black" THEN board.black ELSE board.white
Occupied(board) == board.black \cup board.white
EmptyCount(board) == Cardinality(Squares \ Occupied(board))
WithSide(board, side) == [board EXCEPT !.side_to_move = side]

ASSUME StartsAssumption == StartBoards \subseteq Boards

(***************************************************************************)
(* Shifts: every square moves by delta; the squares of one file are masked *)
(* out first, so that nothing wraps round, and what leaves the 64 bits is  *)
(* lost.                                                                   *)
(***************************************************************************)
AFile == { s \in Squares : s % Width = 0 }
HFile == { s \in Squares : s % Width = Width - 1 }
Directions ==
  {[delta |-> 1, masked |-> HFile], [delta |-> -1, masked |-> AFile],
   [delta |-> Width, masked |-> {}], [delta |-> -Width, masked |-> {}],
   [delta |-> Width + 1, masked |-> HFile], [delta |-> Width - 1, masked |-> AFile],
   [delta |-> -(Width - 1), masked |-> HFile], [delta |-> -(Width + 1), masked |-> AFile]}

Shift(bits, d) == { s + d.delta : s \in bits \ d.masked } \cap Squares

(***************************************************************************)
(* Legal moves by a fill from the player's discs, flips by a walk from the *)
(* move: two algorithms for one question.                                  *)
(***************************************************************************)

\* Mutation: the fill stops a step short.
LegalMovesInDirectionShort(player, opp, empty, d) ==
  LET captured[k \in 0 .. CaptureSteps] ==
        IF k = 0 THEN Shift(player, d) \cap opp
        ELSE LET c == captured[k - 1] IN c \cup (Shift(c, d) \cap opp)
  IN  Shift(captured[CaptureSteps - 1], d) \cap empty

LegalMovesInDirection(player, opp, empty, d) ==
  LET captured[k \in 0 .. CaptureSteps] ==
        IF k = 0 THEN Shift(player, d) \cap opp
        ELSE LET c == captured[k - 1] IN c \cup (Shift(c, d) \cap opp)
  IN  Shift(captured[CaptureSteps], d) \cap empty

LegalMovesFor(player, opp) ==
  UNION { LegalMovesInDirection(player, opp, Squares \ (player \cup opp), d) : d \in Directions }

\* next[k] is the square k + 1 steps from the move, as long as the squares
\* before it are the opponent's; the row is flipped if a disc of the player
\* ends it.
FlipsInDirection(move, player, opp, d) ==
  LET next[k \in 0 .. Width] ==
        IF k = 0 THEN Shift({move}, d) ELSE Shift(next[k - 1] \cap opp, d)
      ends == { k \in 1 .. Width : next[k] \cap player # {} }
  IN  UNION { next[k] \cap opp : k \in { i \in 0 .. Width : \E n \in ends : i < n } }

FlipsForKnownEmptyMove(player, opp, move) ==
  UNION { FlipsInDirection(move, player, opp, d) : d \in Directions }

(***************************************************************************)
(* Boards.                                                                 *)
(***************************************************************************)
LegalMoves(board) ==
  LegalMovesFor(discs(board, board.side_to_move), discs(board, opponent(board.side_to_move)))
HasLegalMove(board) == LegalMoves(board) # {}
FlipsOf(board, move) ==
  FlipsForKnownEmptyMove(discs(board, board.side_to_move),
                         discs(board, opponent(board.side_to_move)), move)

\* apply_move refuses an occupied square and a move that flips nothing.
CanApply(board, move) == move \notin Occupied(board) /\ FlipsOf(board, move) # {}

\* The board apply_move returns.
Applied(board, move) ==
  LET flips == FlipsOf(board, move)
      own == {move} \cup flips
  IN  IF board.side_to_move = "Black"
      THEN [black |-> board.black \cup own, white |-> board.white \ flips,
            side_to_move |-> "White"]
      ELSE [black |-> board.black \ flips, white |-> board.white \cup own,
            side_to_move |-> "Black"]

\* Mutation: the second look is at the wrong side.
CanPassWrongSide(board) ==
  ~HasLegalMove(board) /\ ~HasLegalMove(WithSide(board, opponent(board.side_to_move)))

\* pass_turn refuses while there is a move, and when the game is over.
CanPass(board) ==
  /\ ~HasLegalMove(board)
  /\ HasLegalMove(WithSide(board, opponent(board.side_to_move)))
Passed(board) == WithSide(board, opponent(board.side_to_move))

IsGameOver(board) == ~HasLegalMove(board) /\ ~HasLegalMove(Passed(board))

(***************************************************************************)
(* SearchPosition (search_common.hpp).                                     *)
(***************************************************************************)
FromBoard(board) ==
  [player |-> discs(board, board.side_to_move),
   opponent_discs |-> discs(board, opponent(board.side_to_move)),
   side_to_move |-> board.side_to_move]

PositionAfterMove(p, move, flips) ==
  [player |-> p.opponent_discs \ flips,
   opponent_discs |-> p.player \cup {move} \cup flips,
   side_to_move |-> opponent(p.side_to_move)]

\* Mutation: only the side to move changes.
PositionAfterPassKeepsDiscs(p) == [p EXCEPT !.side_to_move = opponent(p.side_to_move)]

PositionAfterPass(p) ==
  [player |-> p.opponent_discs, opponent_discs |-> p.player,
   side_to_move |-> opponent(p.side_to_move)]

(***************************************************************************)
(* Hashes (hash.cpp, hash_update.hpp).                                     *)
(***************************************************************************)
PieceKeys(side, squares) == { <<side, s>> : s \in squares }
SideKey(side) == <<side, -1>>
Xor(a, b) == (a \ b) \cup (b \ a)

ZobristHash(board) ==
  PieceKeys("Black", board.black) \cup PieceKeys("White", board.white)
    \cup {SideKey(board.side_to_move)}

HashAfterPass(h, side) == Xor(Xor(h, {SideKey(side)}), {SideKey(opponent(side))})

\* Mutation: the key of the disc that was flipped away stays.
HashAfterMoveKeepsFlipped(h, side, move, flips) ==
  Xor(Xor(HashAfterPass(h, side), {<<side, move>>}), PieceKeys(side, flips))

\* The loop over the flips toggles two different keys for each of them.
HashAfterMove(h, side, move, flips) ==
  Xor(Xor(Xor(HashAfterPass(h, side), {<<side, move>>}),
          PieceKeys(opponent(side), flips)),
      PieceKeys(side, flips))

(***************************************************************************)
(* A line of play, as a board and as the search carries it.                *)
(***************************************************************************)
VARIABLES
  board,      \* by apply_move and pass_turn
  position,   \* by position_after_move and position_after_pass
  hash        \* by hash_after_move and hash_after_pass

vars == <<board, position, hash>>

Init ==
  /\ board \in StartBoards
  /\ position = FromBoard(board)
  /\ hash = ZobristHash(board)

\* A move the search lists; its flips are found from the position.
PlayMove ==
  \E move \in LegalMovesFor(position.player, position.opponent_discs) :
    LET flips == FlipsForKnownEmptyMove(position.player, position.opponent_discs, move)
    IN  /\ CanApply(board, move)
        /\ board' = Applied(board, move)
        /\ position' = PositionAfterMove(position, move, flips)
        /\ hash' = HashAfterMove(hash, position.side_to_move, move, flips)

PassTurn ==
  /\ CanPass(board)
  /\ board' = Passed(board)
  /\ position' = PositionAfterPass(position)
  /\ hash' = HashAfterPass(hash, position.side_to_move)

Next == PlayMove \/ PassTurn

Spec == Init /\ [][Next]_vars

(***************************************************************************)
(* Properties.                                                             *)
(***************************************************************************)

\* A board stays one: no square ever holds two discs (apply_move).
TypeOK ==
  /\ board \in Boards
  /\ position \in SearchPositions

\* The incremental hash is the hash of the board, whatever line led to it: the
\* assertion of search_node.cpp:139 and :282.
HashIsFull == hash = ZobristHash(board)

\* The position the search carries is the board seen by the side to move.
PositionIsBoard == position = FromBoard(board)

(***************************************************************************)
(* What the two algorithms should compute, by coordinates.                 *)
(***************************************************************************)
File(s) == s % Width
Rank(s) == s \div Width
OnBoard(file, rank) == file \in 0 .. Width - 1 /\ rank \in 0 .. Width - 1
Away(s, df, dr, k) == (Rank(s) + k * dr) * Width + File(s) + k * df
Bracketed(player, opp, s, df, dr) ==
  LET reaches(n) ==
        /\ OnBoard(File(s) + n * df, Rank(s) + n * dr)
        /\ Away(s, df, dr, n) \in player
        /\ \A k \in 1 .. n - 1 : Away(s, df, dr, k) \in opp
  IN  { Away(s, df, dr, k) : k \in { i \in 1 .. Width : \E n \in i + 1 .. Width : reaches(n) } }
AllBracketed(player, opp, s) ==
  UNION { Bracketed(player, opp, s, df, dr) : df \in -1 .. 1, dr \in -1 .. 1 }

\* The walk over bitboards flips exactly the bracketed discs, and the fill
\* finds exactly the empty squares where it flips something: no row wraps
\* round an edge, and no row is too long for the fill's fixed number of steps.
RulesAgree ==
  LET player == discs(board, board.side_to_move)
      opp == discs(board, opponent(board.side_to_move))
      empty == Squares \ Occupied(board)
  IN  /\ \A s \in empty : FlipsOf(board, s) = AllBracketed(player, opp, s)
      /\ LegalMoves(board) = { s \in empty : AllBracketed(player, opp, s) # {} }

\* A ply never empties a square, fills at most one, and hands the turn over;
\* the side to move has not been handed back to a side that could not move.
PlyFillsOne ==
  [][ /\ Occupied(board) \subseteq Occupied(board')
      /\ Cardinality(Occupied(board')) <= Cardinality(Occupied(board)) + 1
      /\ board'.side_to_move = opponent(board.side_to_move)
      /\ Occupied(board') = Occupied(board) => HasLegalMove(board') ]_board
=============================================================================
