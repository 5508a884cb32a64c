---------------------------- MODULE BoardProofs ----------------------------
(***************************************************************************)
(* For boards of every width: a line of play keeps its board, its search   *)
(* position and its incremental hash in step, from every start; boards are *)
(* a game as the searches assume it; and the bitboards' moves and flips    *)
(* are those of the rules, if the fill takes steps enough.                 *)
(*                                                                         *)
(* Then what an evaluator computes from a board: its features are numbers, *)
(* a score is the total of its breakdown, and what becomes of it with the  *)
(* colours exchanged or in a mirror.  The evaluator a tool has loaded is   *)
(* asked about its boards in EvaluatorConfigProofs.                        *)
(***************************************************************************)
EXTENDS Evaluation, FiniteSetTheorems, TLAPS

\* Only the opponent's discs are flipped.
LEMMA FlipsAreOpponents ==
  ASSUME NEW player, NEW opp, NEW move
  PROVE  FlipsForKnownEmptyMove(player, opp, move) \subseteq opp
<1>1. ASSUME NEW d PROVE FlipsInDirection(move, player, opp, d) \subseteq opp
  BY Zenon DEF FlipsInDirection
<1>. QED BY <1>1, Zenon DEF FlipsForKnownEmptyMove

\* Only empty squares are listed.
LEMMA MovesAreEmpty ==
  ASSUME NEW player, NEW opp
  PROVE  LegalMovesFor(player, opp) \subseteq Squares \ (player \cup opp)
<1>1. \A empty, d : LegalMovesInDirection(player, opp, empty, d) \subseteq empty
  BY Zenon DEF LegalMovesInDirection
<1>2. ASSUME NEW s \in LegalMovesFor(player, opp) PROVE s \in Squares \ (player \cup opp)
  <2>1. PICK d \in Directions :
          s \in LegalMovesInDirection(player, opp, Squares \ (player \cup opp), d)
    BY Zenon DEF LegalMovesFor
  <2>. QED BY <1>1, <2>1, Zenon
<1>. QED BY <1>2, Zenon

LEMMA BoardParts ==
  ASSUME NEW b \in Boards
  PROVE  /\ b.black \subseteq Squares
         /\ b.white \subseteq Squares
         /\ b.black \cap b.white = {}
         /\ b.side_to_move \in Sides
         /\ b = [black |-> b.black, white |-> b.white, side_to_move |-> b.side_to_move]
BY DEF Boards

LEMMA MakeBoard ==
  ASSUME NEW x \in SUBSET Squares, NEW y \in SUBSET Squares, NEW s \in Sides, x \cap y = {}
  PROVE  [black |-> x, white |-> y, side_to_move |-> s] \in Boards
BY DEF Boards

\* A legal move leaves a board: no square gets two discs.
LEMMA AppliedIsBoard ==
  ASSUME NEW b \in Boards, NEW m \in Squares \ Occupied(b)
  PROVE  Applied(b, m) \in Boards
<1>. DEFINE flips == FlipsOf(b, m)
<1>1. flips \subseteq discs(b, opponent(b.side_to_move))
  BY FlipsAreOpponents DEF FlipsOf
<1>2. m \notin b.black /\ m \notin b.white
  BY DEF Occupied
<1>3. CASE b.side_to_move = "Black"
  <2>1. flips \subseteq b.white
    BY <1>1, <1>3 DEF discs, opponent
  <2>2. Applied(b, m) = [black |-> b.black \cup ({m} \cup flips), white |-> b.white \ flips,
                         side_to_move |-> "White"]
    BY <1>3 DEF Applied
  <2>. HIDE DEF flips
  <2>3. /\ b.black \cup ({m} \cup flips) \in SUBSET Squares
        /\ b.white \ flips \in SUBSET Squares
        /\ (b.black \cup ({m} \cup flips)) \cap (b.white \ flips) = {}
    BY <2>1, <1>2, BoardParts
  <2>. QED BY <2>2, <2>3, MakeBoard DEF Sides
<1>4. CASE b.side_to_move = "White"
  <2>1. flips \subseteq b.black
    BY <1>1, <1>4 DEF discs, opponent
  <2>2. Applied(b, m) = [black |-> b.black \ flips, white |-> b.white \cup ({m} \cup flips),
                         side_to_move |-> "Black"]
    BY <1>4 DEF Applied
  <2>. HIDE DEF flips
  <2>3. /\ b.black \ flips \in SUBSET Squares
        /\ b.white \cup ({m} \cup flips) \in SUBSET Squares
        /\ (b.black \ flips) \cap (b.white \cup ({m} \cup flips)) = {}
    BY <2>1, <1>2, BoardParts
  <2>. QED BY <2>2, <2>3, MakeBoard DEF Sides
<1>. QED BY <1>3, <1>4, BoardParts DEF Sides

LEMMA PassedIsBoard ==
  ASSUME NEW b \in Boards
  PROVE  /\ Passed(b) \in Boards
         /\ Passed(b) = [black |-> b.black, white |-> b.white,
                         side_to_move |-> opponent(b.side_to_move)]
<1>1. Passed(b) = [black |-> b.black, white |-> b.white,
                   side_to_move |-> opponent(b.side_to_move)]
  BY BoardParts DEF Passed, WithSide
<1>2. opponent(b.side_to_move) \in Sides
  BY DEF opponent, Sides
<1>. QED BY <1>1, <1>2, BoardParts, MakeBoard

(***************************************************************************)
(* The search position.                                                    *)
(***************************************************************************)
LEMMA FromBoardType ==
  ASSUME NEW b \in Boards PROVE FromBoard(b) \in SearchPositions
BY BoardParts DEF FromBoard, SearchPositions, discs

LEMMA PositionFollowsMove ==
  ASSUME NEW b \in Boards, NEW m
  PROVE  PositionAfterMove(FromBoard(b), m, FlipsOf(b, m)) = FromBoard(Applied(b, m))
<1>1. CASE b.side_to_move = "Black"
  BY <1>1 DEF PositionAfterMove, FromBoard, Applied, discs, opponent
<1>2. CASE b.side_to_move = "White"
  BY <1>2 DEF PositionAfterMove, FromBoard, Applied, discs, opponent
<1>. QED BY <1>1, <1>2, BoardParts DEF Sides

LEMMA PositionFollowsPass ==
  ASSUME NEW b \in Boards
  PROVE  PositionAfterPass(FromBoard(b)) = FromBoard(Passed(b))
<1>1. CASE b.side_to_move = "Black"
  BY <1>1, PassedIsBoard DEF PositionAfterPass, FromBoard, discs, opponent
<1>2. CASE b.side_to_move = "White"
  BY <1>2, PassedIsBoard DEF PositionAfterPass, FromBoard, discs, opponent
<1>. QED BY <1>1, <1>2, BoardParts DEF Sides

(***************************************************************************)
(* The hash.  Keys of different sides, squares or kinds differ, so the     *)
(* sets of keys behave like the sets of discs.                             *)
(***************************************************************************)
LEMMA Keys ==
  /\ \A s : \A x, y : PieceKeys(s, x \cup y) = PieceKeys(s, x) \cup PieceKeys(s, y)
  /\ \A s : \A x, y : PieceKeys(s, x \ y) = PieceKeys(s, x) \ PieceKeys(s, y)
  /\ \A s : \A x : PieceKeys(s, {x}) = {<<s, x>>}
  /\ \A x, y : PieceKeys("Black", x) \cap PieceKeys("White", y) = {}
  /\ \A s, t : \A x \in SUBSET Squares : SideKey(s) \notin PieceKeys(t, x)
  /\ SideKey("Black") # SideKey("White")
  /\ \A s : \A x, y : x \subseteq y => PieceKeys(s, x) \subseteq PieceKeys(s, y)
  /\ \A s : \A x, y : x \cap y = {} => PieceKeys(s, x) \cap PieceKeys(s, y) = {}
BY DEF PieceKeys, SideKey, Squares

LEMMA KeysOfThree ==
  ASSUME NEW s, NEW x, NEW y, NEW z
  PROVE  PieceKeys(s, x \cup (y \cup z)) = PieceKeys(s, x) \cup PieceKeys(s, y) \cup PieceKeys(s, z)
BY DEF PieceKeys

\* The algebra of a move: own and opp are the keys of the discs, mine and
\* theirs the keys of the flipped squares on either side.
LEMMA XorOfMove ==
  ASSUME NEW own, NEW opp, NEW mine, NEW theirs, NEW new, NEW me, NEW them,
         own \cap opp = {}, theirs \subseteq opp, own \cap mine = {}, opp \cap mine = {},
         new \cap own = {}, new \cap opp = {}, new \cap mine = {},
         me # them, me \notin own \cup opp \cup mine \cup new,
         them \notin own \cup opp \cup mine \cup new
  PROVE  Xor(Xor(Xor(Xor(Xor(own \cup opp \cup {me}, {me}), {them}), new), theirs), mine)
           = (own \cup new \cup mine) \cup (opp \ theirs) \cup {them}
<1>1. Xor(Xor(own \cup opp \cup {me}, {me}), {them}) = own \cup opp \cup {them}
  BY DEF Xor
<1>2. Xor(own \cup opp \cup {them}, new) = own \cup opp \cup {them} \cup new
  BY DEF Xor
<1>3. Xor(own \cup opp \cup {them} \cup new, theirs) = own \cup (opp \ theirs) \cup {them} \cup new
  BY DEF Xor
<1>4. Xor(own \cup (opp \ theirs) \cup {them} \cup new, mine)
        = own \cup (opp \ theirs) \cup {them} \cup new \cup mine
  BY DEF Xor
<1>. QED BY <1>1, <1>2, <1>3, <1>4

\* A pass toggles both side keys and nothing else.
LEMMA HashFollowsPass ==
  ASSUME NEW b \in Boards
  PROVE  HashAfterPass(ZobristHash(b), b.side_to_move) = ZobristHash(Passed(b))
<1>. DEFINE rest == PieceKeys("Black", b.black) \cup PieceKeys("White", b.white)
            me == SideKey(b.side_to_move)
            them == SideKey(opponent(b.side_to_move))
<1>1. me \notin rest /\ them \notin rest /\ me # them
  BY Keys, BoardParts DEF opponent, Sides
<1>2. ZobristHash(b) = rest \cup {me}
  BY DEF ZobristHash
<1>3. ZobristHash(Passed(b)) = rest \cup {them}
  BY PassedIsBoard DEF ZobristHash
<1>4. HashAfterPass(ZobristHash(b), b.side_to_move) = Xor(Xor(rest \cup {me}, {me}), {them})
  BY <1>2 DEF HashAfterPass
<1>. HIDE DEF rest, me, them
<1>. QED BY <1>1, <1>3, <1>4 DEF Xor

LEMMA HashFollowsMove ==
  ASSUME NEW b \in Boards, NEW m \in Squares \ Occupied(b)
  PROVE  HashAfterMove(ZobristHash(b), b.side_to_move, m, FlipsOf(b, m)) = ZobristHash(Applied(b, m))
<1>. DEFINE side == b.side_to_move
            other == opponent(side)
            flips == FlipsOf(b, m)
            own == PieceKeys(side, discs(b, side))
            opp == PieceKeys(other, discs(b, other))
            mine == PieceKeys(side, flips)
            theirs == PieceKeys(other, flips)
            new == PieceKeys(side, {m})
<1>1. /\ flips \subseteq discs(b, other)
      /\ discs(b, side) \subseteq Squares /\ discs(b, other) \subseteq Squares
      /\ discs(b, side) \cap discs(b, other) = {}
      /\ m \notin discs(b, side) /\ m \notin discs(b, other)
      /\ side \in Sides /\ other \in Sides /\ side # other
  BY FlipsAreOpponents, BoardParts DEF FlipsOf, discs, opponent, Sides, Occupied
<1>2. /\ own \cap opp = {} /\ opp \cap mine = {} /\ new \cap opp = {}
      /\ theirs \subseteq opp
  <2>1. \A x, y : PieceKeys(side, x) \cap PieceKeys(other, y) = {}
    BY <1>1, Keys DEF Sides
  <2>. QED BY <2>1, <1>1, Keys
<1>3. own \cap mine = {} /\ new \cap own = {} /\ new \cap mine = {}
  <2>1. discs(b, side) \cap flips = {} /\ {m} \cap discs(b, side) = {} /\ {m} \cap flips = {}
    BY <1>1
  <2>. QED BY <2>1, Keys
<1>4. /\ SideKey(side) # SideKey(other)
      /\ \A s \in {side, other} : SideKey(s) \notin own \cup opp \cup mine \cup new
  <2>1. flips \in SUBSET Squares /\ {m} \in SUBSET Squares
    BY <1>1
  <2>. QED BY <2>1, <1>1, Keys DEF Sides
<1>5. ZobristHash(b) = own \cup opp \cup {SideKey(side)}
  BY <1>1 DEF ZobristHash, discs, opponent, Sides
<1>6. HashAfterMove(ZobristHash(b), side, m, flips)
        = Xor(Xor(Xor(Xor(Xor(own \cup opp \cup {SideKey(side)}, {SideKey(side)}), {SideKey(other)}),
                      new), theirs), mine)
  BY <1>5, Keys DEF HashAfterMove, HashAfterPass
<1>7. ZobristHash(Applied(b, m)) = (own \cup new \cup mine) \cup (opp \ theirs) \cup {SideKey(other)}
  <2>1. CASE side = "Black"
    <3>1. Applied(b, m) = [black |-> b.black \cup ({m} \cup flips), white |-> b.white \ flips,
                           side_to_move |-> "White"]
      BY <2>1 DEF Applied
    <3>2. /\ own = PieceKeys("Black", b.black) /\ opp = PieceKeys("White", b.white)
          /\ new = PieceKeys("Black", {m}) /\ mine = PieceKeys("Black", flips)
          /\ theirs = PieceKeys("White", flips) /\ other = "White"
      BY <2>1 DEF discs, opponent
    <3>3. PieceKeys("Black", b.black \cup ({m} \cup flips)) = own \cup new \cup mine
      <4>1. PieceKeys("Black", b.black \cup ({m} \cup flips))
              = PieceKeys("Black", b.black) \cup PieceKeys("Black", {m}) \cup PieceKeys("Black", flips)
        BY KeysOfThree
      <4>. QED BY <3>2, <4>1, Zenon
    <3>4. PieceKeys("White", b.white \ flips) = opp \ theirs
      BY <3>2, Keys
    <3>5. ZobristHash(Applied(b, m))
            = PieceKeys("Black", b.black \cup ({m} \cup flips))
                \cup PieceKeys("White", b.white \ flips) \cup {SideKey(other)}
      BY <3>1, <3>2 DEF ZobristHash
    <3>. QED BY <3>3, <3>4, <3>5, Zenon
  <2>2. CASE side = "White"
    <3>1. Applied(b, m) = [black |-> b.black \ flips, white |-> b.white \cup ({m} \cup flips),
                           side_to_move |-> "Black"]
      BY <2>2 DEF Applied
    <3>2. /\ own = PieceKeys("White", b.white) /\ opp = PieceKeys("Black", b.black)
          /\ new = PieceKeys("White", {m}) /\ mine = PieceKeys("White", flips)
          /\ theirs = PieceKeys("Black", flips) /\ other = "Black"
      BY <2>2 DEF discs, opponent
    <3>3. PieceKeys("White", b.white \cup ({m} \cup flips)) = own \cup new \cup mine
      <4>1. PieceKeys("White", b.white \cup ({m} \cup flips))
              = PieceKeys("White", b.white) \cup PieceKeys("White", {m}) \cup PieceKeys("White", flips)
        BY KeysOfThree
      <4>. QED BY <3>2, <4>1, Zenon
    <3>4. PieceKeys("Black", b.black \ flips) = opp \ theirs
      BY <3>2, Keys
    <3>5. ZobristHash(Applied(b, m))
            = PieceKeys("Black", b.black \ flips)
                \cup PieceKeys("White", b.white \cup ({m} \cup flips)) \cup {SideKey(other)}
      BY <3>1, <3>2 DEF ZobristHash
    <3>. HIDE DEF own, opp, new, mine, theirs, other
    <3>. QED BY <3>3, <3>4, <3>5
  <2>. QED BY <2>1, <2>2, <1>1 DEF Sides
<1>. HIDE DEF own, opp, new, mine, theirs, flips, other, side
<1>8. Xor(Xor(Xor(Xor(Xor(own \cup opp \cup {SideKey(side)}, {SideKey(side)}), {SideKey(other)}),
                      new), theirs), mine)
        = (own \cup new \cup mine) \cup (opp \ theirs) \cup {SideKey(other)}
  BY <1>2, <1>3, <1>4, XorOfMove
<1>. QED BY <1>6, <1>7, <1>8 DEF side, flips

(***************************************************************************)
(* Lines of play.                                                          *)
(***************************************************************************)
Inv == board \in Boards /\ PositionIsBoard /\ HashIsFull

LEMMA InitInv == Init => Inv
BY StartsAssumption DEF Init, Inv, PositionIsBoard, HashIsFull

LEMMA NextInv == Inv /\ [Next]_vars => Inv'
<1>. SUFFICES ASSUME Inv, [Next]_vars PROVE Inv'
  OBVIOUS
<1>. USE DEF Inv
<1>1. CASE PlayMove
  <2>1. PICK move \in LegalMovesFor(position.player, position.opponent_discs) :
          LET flips == FlipsForKnownEmptyMove(position.player, position.opponent_discs, move)
          IN  /\ CanApply(board, move)
              /\ board' = Applied(board, move)
              /\ position' = PositionAfterMove(position, move, flips)
              /\ hash' = HashAfterMove(hash, position.side_to_move, move, flips)
    BY <1>1, Zenon DEF PlayMove
  <2>2. /\ position.player = discs(board, board.side_to_move)
        /\ position.opponent_discs = discs(board, opponent(board.side_to_move))
        /\ position.side_to_move = board.side_to_move
    BY DEF PositionIsBoard, FromBoard
  <2>3. FlipsForKnownEmptyMove(position.player, position.opponent_discs, move) = FlipsOf(board, move)
    BY <2>2 DEF FlipsOf
  <2>4. move \in Squares \ Occupied(board)
    BY <2>1, MovesAreEmpty DEF CanApply
  <2>5. board' \in Boards
    BY <2>1, <2>4, AppliedIsBoard
  <2>6. PositionIsBoard'
    BY <2>1, <2>3, PositionFollowsMove DEF PositionIsBoard
  <2>7. HashIsFull'
    BY <2>1, <2>2, <2>3, <2>4, HashFollowsMove DEF HashIsFull
  <2>. QED BY <2>5, <2>6, <2>7
<1>2. CASE PassTurn
  <2>1. position.side_to_move = board.side_to_move
    BY DEF PositionIsBoard, FromBoard
  <2>. QED BY <1>2, <2>1, PassedIsBoard, PositionFollowsPass, HashFollowsPass
           DEF PassTurn, PositionIsBoard, HashIsFull
<1>3. CASE UNCHANGED vars
  BY <1>3 DEF vars, PositionIsBoard, HashIsFull
<1>. QED BY <1>1, <1>2, <1>3 DEF Next

THEOREM LinesKeepInv == Spec => []Inv
BY InitInv, NextInv, PTL DEF Spec

\* No square ever holds two discs.
THEOREM BoardsStayBoards == Spec => []TypeOK
<1>1. Inv => TypeOK
  BY FromBoardType DEF Inv, TypeOK, PositionIsBoard
<1>. QED BY <1>1, LinesKeepInv, PTL

\* The incremental hash is always the hash of the board: no choice of the
\* random keys, no line of moves and passes, and no board size separates them.
THEOREM HashStaysFull == Spec => []HashIsFull
<1>1. Inv => HashIsFull
  BY DEF Inv
<1>. QED BY <1>1, LinesKeepInv, PTL

\* The search's view of the board never drifts from the board.
THEOREM PositionStaysBoard == Spec => []PositionIsBoard
<1>1. Inv => PositionIsBoard
  BY DEF Inv
<1>. QED BY <1>1, LinesKeepInv, PTL

(***************************************************************************)
(* The game the searches run over.                                         *)
(***************************************************************************)
LEMMA SquaresFinite == IsFiniteSet(Squares)
<1>1. Width * Width - 1 \in Int
  BY RulesAssumption
<1>. QED BY <1>1, FS_Interval DEF Squares

\* A move fills its square and no other.
LEMMA MoveFills ==
  ASSUME NEW b \in Boards, NEW m \in Squares \ Occupied(b)
  PROVE  Occupied(Applied(b, m)) = Occupied(b) \cup {m}
<1>. DEFINE flips == FlipsOf(b, m)
<1>1. flips \subseteq discs(b, opponent(b.side_to_move))
  BY FlipsAreOpponents DEF FlipsOf
<1>2. CASE b.side_to_move = "Black"
  <2>1. flips \subseteq b.white
    BY <1>1, <1>2 DEF discs, opponent
  <2>2. /\ Applied(b, m).black = b.black \cup ({m} \cup flips)
        /\ Applied(b, m).white = b.white \ flips
    BY <1>2 DEF Applied
  <2>. HIDE DEF flips
  <2>. QED BY <2>1, <2>2 DEF Occupied
<1>3. CASE b.side_to_move = "White"
  <2>1. flips \subseteq b.black
    BY <1>1, <1>3 DEF discs, opponent
  <2>2. /\ Applied(b, m).black = b.black \ flips
        /\ Applied(b, m).white = b.white \cup ({m} \cup flips)
    BY <1>3 DEF Applied
  <2>. HIDE DEF flips
  <2>. QED BY <2>1, <2>2 DEF Occupied
<1>. QED BY <1>2, <1>3, BoardParts DEF Sides

\* What GameTree assumes of the positions a search visits holds of every board
\* and its legal moves, and of a board whose side to move must pass: moves
\* lead to boards, fill one square and hand the turn over, a pass fills none,
\* and a full board has no move.
THEOREM BoardsAreAGame ==
  ASSUME NEW b \in Boards
  PROVE  /\ LegalMoves(b) \subseteq Squares
         /\ \A m \in LegalMoves(b) :
              /\ Applied(b, m) \in Boards
              /\ EmptyCount(Applied(b, m)) = EmptyCount(b) - 1
              /\ Applied(b, m).side_to_move # b.side_to_move
         /\ Passed(b) \in Boards
         /\ EmptyCount(Passed(b)) = EmptyCount(b)
         /\ Passed(b).side_to_move # b.side_to_move
         /\ EmptyCount(b) \in Nat
         /\ EmptyCount(b) = 0 => LegalMoves(b) = {}
<1>. DEFINE empty == Squares \ Occupied(b)
<1>1. LegalMoves(b) \subseteq empty
  BY MovesAreEmpty, BoardParts DEF LegalMoves, discs, opponent, Occupied, Sides
<1>2. IsFiniteSet(empty) /\ EmptyCount(b) \in Nat
  BY SquaresFinite, FS_Subset, FS_CardinalityType DEF EmptyCount
<1>3. ASSUME NEW m \in LegalMoves(b)
      PROVE  /\ Applied(b, m) \in Boards
             /\ EmptyCount(Applied(b, m)) = EmptyCount(b) - 1
             /\ Applied(b, m).side_to_move # b.side_to_move
  <2>1. m \in empty
    BY <1>1
  <2>2. Squares \ Occupied(Applied(b, m)) = empty \ {m}
    BY <2>1, MoveFills
  <2>3. EmptyCount(Applied(b, m)) = EmptyCount(b) - 1
    BY <1>2, <2>1, <2>2, FS_RemoveElement DEF EmptyCount
  <2>4. Applied(b, m).side_to_move # b.side_to_move
    BY BoardParts DEF Applied, Sides
  <2>. QED BY <2>1, <2>3, <2>4, AppliedIsBoard
<1>4. /\ Passed(b) \in Boards
      /\ EmptyCount(Passed(b)) = EmptyCount(b)
      /\ Passed(b).side_to_move # b.side_to_move
  BY PassedIsBoard, BoardParts DEF EmptyCount, Occupied, opponent, Sides
<1>5. EmptyCount(b) = 0 => LegalMoves(b) = {}
  BY <1>1, <1>2, FS_EmptySet DEF EmptyCount
<1>. QED BY <1>1, <1>2, <1>3, <1>4, <1>5

\* Every ply of every line on a board of any size fills at most one square,
\* empties none, hands the turn over, and if it fills none leaves a side that
\* can move: there are never two passes in a row.
THEOREM PliesFillOne == Spec => PlyFillsOne
<1>. DEFINE Ply == /\ Occupied(board) \subseteq Occupied(board')
                   /\ Cardinality(Occupied(board')) <= Cardinality(Occupied(board)) + 1
                   /\ board'.side_to_move = opponent(board.side_to_move)
                   /\ Occupied(board') = Occupied(board) => HasLegalMove(board')
<1>1. ASSUME Inv, [Next]_vars PROVE [Ply]_board
  <2>1. IsFiniteSet(Occupied(board)) /\ Cardinality(Occupied(board)) \in Nat
    BY <1>1, BoardParts, SquaresFinite, FS_Subset, FS_CardinalityType DEF Inv, Occupied
  <2>2. CASE PlayMove
    <3>1. PICK move \in LegalMovesFor(position.player, position.opponent_discs) :
            CanApply(board, move) /\ board' = Applied(board, move)
      BY <2>2, Zenon DEF PlayMove
    <3>2. move \in Squares \ Occupied(board)
      BY <3>1, MovesAreEmpty DEF CanApply
    <3>3. Occupied(board') = Occupied(board) \cup {move}
      BY <1>1, <3>1, <3>2, MoveFills DEF Inv
    <3>4. Cardinality(Occupied(board')) = Cardinality(Occupied(board)) + 1
      BY <2>1, <3>2, <3>3, FS_AddElement
    <3>5. board'.side_to_move = opponent(board.side_to_move)
      BY <1>1, <3>1, BoardParts DEF Inv, Applied, opponent, Sides
    <3>6. Occupied(board') # Occupied(board)
      BY <3>2, <3>3
    <3>. QED BY <2>1, <3>3, <3>4, <3>5, <3>6
  <2>3. CASE PassTurn
    <3>1. board' = Passed(board) /\ HasLegalMove(Passed(board))
      BY <2>3 DEF PassTurn, CanPass, Passed
    <3>2. board'.black = board.black /\ board'.white = board.white
          /\ board'.side_to_move = opponent(board.side_to_move)
      BY <1>1, <3>1, PassedIsBoard DEF Inv
    <3>. QED BY <2>1, <3>1, <3>2 DEF Occupied
  <2>4. CASE UNCHANGED vars
    BY <2>4 DEF vars
  <2>. QED BY <1>1, <2>2, <2>3, <2>4 DEF Next
<1>. QED BY <1>1, LinesKeepInv, PTL DEF Spec, PlyFillsOne

(***************************************************************************)
(* The two algorithms find what the rules say.  A direction is a step of   *)
(* files and ranks; the squares along it stay on the board or leave it     *)
(* where the masks and the shift out of the 64 bits say so.                *)
(***************************************************************************)

\* Two functions that begin alike, and continue alike where they are alike.
ContinueAlike(f, g, n) ==
  f[0] = g[0] /\ \A i \in 1 .. n : f[i - 1] = g[i - 1] => f[i] = g[i]
Alike(f, g, n) == \A i \in 0 .. n : f[i] = g[i]

\* Every set of naturals has a least element.
LEMMA LeastElement ==
  ASSUME NEW T \in SUBSET Nat, T # {}
  PROVE  \E n \in T : \A m \in T : n <= m
<1> DEFINE R == StrictSubsetOrdering(Nat)
           U == { 1 .. n : n \in T }
<1>1. IsWellFoundedOn(R, FiniteSubsetsOf(Nat))
  BY FS_StrictSubsetOrderingWellFounded
<1>2. U \subseteq FiniteSubsetsOf(Nat) /\ U # {}
  <2> SUFFICES ASSUME NEW n \in T
               PROVE  1 .. n \in FiniteSubsetsOf(Nat)
    OBVIOUS
  <2>1. IsFiniteSet(1 .. n)
    BY FS_Interval
  <2> QED
    BY <2>1 DEF FiniteSubsetsOf
<1>3. PICK x \in U : \A y \in U : <<y, x>> \notin R
  <2> HIDE DEF R, U
  <2> QED
    BY <1>1, <1>2, WFMin
<1>4. PICK n \in T : x = 1 .. n
  OBVIOUS
<1>5. \A m \in T : n <= m
  <2> SUFFICES ASSUME NEW m \in T, m < n
               PROVE  FALSE
    OBVIOUS
  <2>1. 1 .. m \subseteq 1 .. n /\ n \in 1 .. n /\ n \notin 1 .. m
    OBVIOUS
  <2>2. <<1 .. m, 1 .. n>> \in R
    BY <2>1 DEF StrictSubsetOrdering
  <2> QED
    BY <2>2, <1>3, <1>4
<1> QED
  BY <1>5

\* Two functions that begin and continue alike are alike.
LEMMA RecursionUnique ==
  ASSUME NEW n \in Nat, NEW f, NEW g, ContinueAlike(f, g, n)
  PROVE  Alike(f, g, n)
<1> DEFINE T == { k \in 0 .. n : f[k] # g[k] }
<1> SUFFICES ASSUME T # {}
             PROVE  FALSE
  BY DEF Alike
<1>1. T \in SUBSET Nat
  OBVIOUS
<1>2. PICK k \in T : \A m \in T : k <= m
  <2> HIDE DEF T
  <2> QED
    BY <1>1, LeastElement
<1>3. k # 0
  BY DEF ContinueAlike
<1>4. k \in 1 .. n /\ k - 1 \in 0 .. n /\ k - 1 < k
  BY <1>3
<1>5. f[k - 1] = g[k - 1]
  BY <1>2, <1>4
<1> QED
  BY <1>4, <1>5 DEF ContinueAlike

LEMMA Products ==
  ASSUME NEW a \in Int, NEW b \in Int, NEW w \in Nat, a <= b
  PROVE  a * w \in Int /\ b * w \in Int /\ a * w <= b * w
<1>1. b - a \in Nat
  OBVIOUS
<1>2. (b - a) * w >= 0
  BY <1>1
<1> QED
  BY <1>2

LEMMA Coordinates ==
  ASSUME NEW s \in Squares
  PROVE  /\ File(s) \in 0 .. Width - 1 /\ Rank(s) \in 0 .. Width - 1
         /\ s = Rank(s) * Width + File(s)
<1>1. s \in Nat /\ Width \in Nat /\ Width > 0 /\ s < Width * Width
  BY RulesAssumption DEF Squares
<1>2. s = Rank(s) * Width + File(s) /\ File(s) \in 0 .. Width - 1 /\ Rank(s) \in Int
  BY <1>1 DEF File, Rank
<1>3. Rank(s) >= 0
  <2> SUFFICES ASSUME Rank(s) <= -1 PROVE FALSE
    BY <1>2
  <2>1. Rank(s) * Width <= (-1) * Width
    BY <1>1, <1>2, Products
  <2> QED
    BY <2>1, <1>1, <1>2
<1>4. Rank(s) <= Width - 1
  <2> SUFFICES ASSUME Width <= Rank(s) PROVE FALSE
    BY <1>1, <1>2
  <2>1. Width * Width <= Rank(s) * Width
    BY <1>1, <1>2, Products
  <2> QED
    BY <2>1, <1>1, <1>2
<1> QED
  BY <1>1, <1>2, <1>3, <1>4

LEMMA SquareAt ==
  ASSUME NEW f \in 0 .. Width - 1, NEW r \in Int
  PROVE  /\ r * Width + f \in Int
         /\ r * Width + f \in Squares <=> r \in 0 .. Width - 1
         /\ File(r * Width + f) = f /\ Rank(r * Width + f) = r
<1>1. Width \in Nat /\ Width > 0 /\ f \in Nat /\ f < Width
  BY RulesAssumption
<1>2. r * Width \in Int /\ r * Width + f \in Int
  BY <1>1
<1>3. ASSUME r \in 0 .. Width - 1
      PROVE  r * Width + f \in Squares
  <2>1. r * Width <= (Width - 1) * Width /\ 0 * Width <= r * Width
    BY <1>1, <1>3, Products
  <2>2. (Width - 1) * Width = Width * Width - Width
    BY <1>1
  <2> QED
    BY <2>1, <2>2, <1>1, <1>2 DEF Squares
<1>4. ASSUME r < 0
      PROVE  r * Width + f \notin Squares
  <2>1. r * Width <= (-1) * Width
    BY <1>1, <1>4, Products
  <2> QED
    BY <2>1, <1>1, <1>2 DEF Squares
<1>5. ASSUME r >= Width
      PROVE  r * Width + f \notin Squares
  <2>1. Width * Width <= r * Width
    BY <1>1, <1>5, Products
  <2> QED
    BY <2>1, <1>1, <1>2 DEF Squares
<1>6. File(r * Width + f) = f /\ Rank(r * Width + f) = r
  <2> DEFINE s == r * Width + f
             q == Rank(s)
  <2>1. s = q * Width + File(s) /\ File(s) \in 0 .. Width - 1 /\ q \in Int
    BY <1>1, <1>2 DEF File, Rank
  <2>2. ASSUME q < r PROVE FALSE
    <3>1. (q + 1) * Width <= r * Width
      BY <1>1, <2>1, <2>2, Products
    <3>2. (q + 1) * Width = q * Width + Width
      BY <1>1, <2>1
    <3> QED
      BY <3>1, <3>2, <2>1, <1>1, <1>2
  <2>3. ASSUME q > r PROVE FALSE
    <3>1. (r + 1) * Width <= q * Width
      BY <1>1, <2>1, <2>3, Products
    <3>2. (r + 1) * Width = r * Width + Width
      BY <1>1, <2>1
    <3> QED
      BY <3>1, <3>2, <2>1, <1>1, <1>2
  <2>4. q = r
    BY <2>1, <2>2, <2>3
  <2> HIDE DEF q
  <2> QED
    BY <2>1, <2>4, <1>1, <1>2 DEF q
<1> QED
  BY <1>1, <1>2, <1>3, <1>4, <1>5, <1>6

(***************************************************************************)
(* A direction as a step of files and ranks.                               *)
(***************************************************************************)
Unit == -1 .. 1
StepOf(df, dr) ==
  [delta  |-> dr * Width + df,
   masked |-> IF df = 1 THEN HFile ELSE IF df = -1 THEN AFile ELSE {}]
On(s, df, dr, k) == OnBoard(File(s) + k * df, Rank(s) + k * dr)

LEMMA DirectionsAreSteps ==
  /\ \A d \in Directions : \E df, dr \in Unit : <<df, dr>> # <<0, 0>> /\ d = StepOf(df, dr)
  /\ \A df, dr \in Unit : <<df, dr>> # <<0, 0>> => StepOf(df, dr) \in Directions
<1>0. Width \in Nat
  BY RulesAssumption
<1>1. /\ StepOf(1, 0) = [delta |-> 1, masked |-> HFile]
      /\ StepOf(-1, 0) = [delta |-> -1, masked |-> AFile]
      /\ StepOf(0, 1) = [delta |-> Width, masked |-> {}]
      /\ StepOf(0, -1) = [delta |-> -Width, masked |-> {}]
      /\ StepOf(1, 1) = [delta |-> Width + 1, masked |-> HFile]
      /\ StepOf(-1, 1) = [delta |-> Width - 1, masked |-> AFile]
      /\ StepOf(1, -1) = [delta |-> -(Width - 1), masked |-> HFile]
      /\ StepOf(-1, -1) = [delta |-> -(Width + 1), masked |-> AFile]
  <2>1. /\ 0 * Width + 1 = 1 /\ 0 * Width + (-1) = -1 /\ 1 * Width + 0 = Width
        /\ (-1) * Width + 0 = -Width /\ 1 * Width + 1 = Width + 1
        /\ 1 * Width + (-1) = Width - 1 /\ (-1) * Width + 1 = -(Width - 1)
        /\ (-1) * Width + (-1) = -(Width + 1)
    BY <1>0
  <2> QED
    BY <2>1 DEF StepOf
<1>2. \A d \in Directions : \E df, dr \in Unit : <<df, dr>> # <<0, 0>> /\ d = StepOf(df, dr)
  <2> SUFFICES ASSUME NEW d \in Directions
               PROVE  \E df, dr \in Unit : <<df, dr>> # <<0, 0>> /\ d = StepOf(df, dr)
    OBVIOUS
  <2>1. \/ d = StepOf(1, 0) \/ d = StepOf(-1, 0) \/ d = StepOf(0, 1) \/ d = StepOf(0, -1)
        \/ d = StepOf(1, 1) \/ d = StepOf(-1, 1) \/ d = StepOf(1, -1) \/ d = StepOf(-1, -1)
    BY <1>1, Zenon DEF Directions
  <2>2. /\ -1 \in Unit /\ 0 \in Unit /\ 1 \in Unit
    BY DEF Unit
  <2> QED
    BY <2>1, <2>2
<1>3. ASSUME NEW df \in Unit, NEW dr \in Unit, <<df, dr>> # <<0, 0>>
      PROVE  StepOf(df, dr) \in Directions
  <2>1. df \in {-1, 0, 1} /\ dr \in {-1, 0, 1}
    BY DEF Unit
  <2>2. StepOf(1, 0) \in Directions /\ StepOf(-1, 0) \in Directions /\ StepOf(0, 1) \in Directions
        /\ StepOf(0, -1) \in Directions /\ StepOf(1, 1) \in Directions /\ StepOf(-1, 1) \in Directions
        /\ StepOf(1, -1) \in Directions /\ StepOf(-1, -1) \in Directions
    BY <1>1, Zenon DEF Directions
  <2> QED
    BY <2>1, <2>2, <1>3
<1> QED
  BY <1>2, <1>3

\* Positions along a step are linear in the number of steps.
LEMMA StepTimes ==
  ASSUME NEW k \in Int, NEW d \in Unit
  PROVE  /\ k * d \in Int /\ (k + 1) * d = k * d + d /\ 1 * d = d /\ 0 * d = 0 /\ k * (-d) = -(k * d)
         /\ -d \in Unit
<1>1. d = -1 \/ d = 0 \/ d = 1
  BY DEF Unit
<1> QED
  BY <1>1 DEF Unit

\* What is between two squares of the board is on the board.
LEMMA Between ==
  ASSUME NEW s \in Squares, NEW df \in Unit, NEW dr \in Unit, NEW n \in Int, NEW k \in 0 .. n,
         On(s, df, dr, n)
  PROVE  On(s, df, dr, k)
<1>1. /\ df = -1 \/ df = 0 \/ df = 1
      /\ dr = -1 \/ dr = 0 \/ dr = 1
  BY DEF Unit
<1>2. File(s) \in 0 .. Width - 1 /\ Rank(s) \in 0 .. Width - 1 /\ Width \in Nat
  BY Coordinates, RulesAssumption
<1>3. ASSUME NEW a \in 0 .. Width - 1, NEW d \in Unit, a + n * d \in 0 .. Width - 1
      PROVE  a + k * d \in 0 .. Width - 1
  <2>1. d = -1 \/ d = 0 \/ d = 1
    BY DEF Unit
  <2> QED
    BY <2>1, <1>2, <1>3
<1> QED
  BY <1>2, <1>3 DEF On, OnBoard

\* The square k steps away, its file and its rank.
LEMMA AwayIs ==
  ASSUME NEW s \in Squares, NEW df \in Unit, NEW dr \in Unit, NEW k \in Int,
         File(s) + k * df \in 0 .. Width - 1
  PROVE  /\ Away(s, df, dr, k) \in Squares <=> On(s, df, dr, k)
         /\ Away(s, df, dr, k) \in Int
         /\ File(Away(s, df, dr, k)) = File(s) + k * df
         /\ Rank(Away(s, df, dr, k)) = Rank(s) + k * dr
<1>1. /\ k * df \in Int /\ k * dr \in Int /\ File(s) \in Int /\ Rank(s) \in Int /\ Width \in Nat
  BY StepTimes, Coordinates, RulesAssumption
<1> DEFINE r == Rank(s) + k * dr
           f == File(s) + k * df
<1>2. r \in Int /\ f \in 0 .. Width - 1
  BY <1>1
<1>3. Away(s, df, dr, k) = r * Width + f
  <2>1. r * Width \in Int
    BY <1>1, <1>2
  <2> QED
    BY <1>1, <2>1 DEF Away
<1>4. On(s, df, dr, k) <=> r \in 0 .. Width - 1
  BY <1>2 DEF On, OnBoard
<1> HIDE DEF r, f
<1>5. /\ r * Width + f \in Int
      /\ r * Width + f \in Squares <=> r \in 0 .. Width - 1
      /\ File(r * Width + f) = f /\ Rank(r * Width + f) = r
  BY <1>2, SquareAt
<1> QED
  BY <1>3, <1>4, <1>5 DEF r, f

LEMMA AwayOn ==
  ASSUME NEW s \in Squares, NEW df \in Unit, NEW dr \in Unit, NEW k \in Int, On(s, df, dr, k)
  PROVE  /\ Away(s, df, dr, k) \in Squares
         /\ File(Away(s, df, dr, k)) = File(s) + k * df
         /\ Rank(Away(s, df, dr, k)) = Rank(s) + k * dr
<1>1. File(s) + k * df \in 0 .. Width - 1
  BY DEF On, OnBoard
<1> QED
  BY <1>1, AwayIs

\* No step leads nowhere.
LEMMA AwayNone ==
  ASSUME NEW s \in Squares, NEW df \in Unit, NEW dr \in Unit
  PROVE  On(s, df, dr, 0) /\ Away(s, df, dr, 0) = s
<1>1. /\ File(s) \in 0 .. Width - 1 /\ Rank(s) \in 0 .. Width - 1 /\ Width \in Nat
      /\ s = Rank(s) * Width + File(s) /\ 0 * df = 0 /\ 0 * dr = 0
  BY Coordinates, StepTimes, RulesAssumption
<1>2. Rank(s) * Width \in Int /\ Rank(s) + 0 = Rank(s) /\ File(s) + 0 = File(s)
  BY <1>1
<1>3. Away(s, df, dr, 0) = Rank(s) * Width + File(s) + 0
  BY <1>1, <1>2 DEF Away
<1> QED
  BY <1>1, <1>2, <1>3 DEF On, OnBoard

\* Steps add up: from the square k steps away, j more lead j + k steps away.
LEMMA AwayAdds ==
  ASSUME NEW s \in Squares, NEW df \in Unit, NEW dr \in Unit, NEW k \in Int, NEW j \in Int,
         On(s, df, dr, k)
  PROVE  LET q == Away(s, df, dr, k)
         IN  /\ Away(q, df, dr, j) = Away(s, df, dr, k + j)
             /\ On(q, df, dr, j) <=> On(s, df, dr, k + j)
             /\ Away(q, -df, -dr, j) = Away(s, df, dr, k - j)
             /\ On(q, -df, -dr, j) <=> On(s, df, dr, k - j)
<1> DEFINE q == Away(s, df, dr, k)
<1>1. q \in Squares /\ File(q) = File(s) + k * df /\ Rank(q) = Rank(s) + k * dr
  BY AwayOn
<1>2. File(s) \in Int /\ Rank(s) \in Int /\ Width \in Nat
  BY Coordinates, RulesAssumption
<1>3. ASSUME NEW a \in Int, NEW d \in Unit
      PROVE  /\ a + k * d + j * d = a + (k + j) * d
             /\ a + k * d + j * (-d) = a + (k - j) * d
  <2>1. d = -1 \/ d = 0 \/ d = 1
    BY DEF Unit
  <2> QED
    BY <2>1
<1>4. /\ File(q) + j * df = File(s) + (k + j) * df /\ File(q) + j * (-df) = File(s) + (k - j) * df
      /\ Rank(q) + j * dr = Rank(s) + (k + j) * dr /\ Rank(q) + j * (-dr) = Rank(s) + (k - j) * dr
  BY <1>1, <1>2, <1>3
<1>5. ASSUME NEW x \in Int, NEW y \in Int, NEW z \in Int, NEW u \in Int, NEW v \in Int, NEW w \in Int,
             x + y = u + v
      PROVE  z + x + y = z + u + v
  BY <1>5
<1>6. ASSUME NEW e \in Unit, NEW i \in Int
      PROVE  i * e \in Int
  BY StepTimes
<1>7. -df \in Unit /\ -dr \in Unit /\ k + j \in Int /\ k - j \in Int
  BY StepTimes
<1>8. ASSUME NEW z \in Int
      PROVE  /\ z + File(q) + j * df = z + File(s) + (k + j) * df
             /\ z + File(q) + j * (-df) = z + File(s) + (k - j) * df
  <2>1. /\ j * df \in Int /\ j * (-df) \in Int /\ (k + j) * df \in Int /\ (k - j) * df \in Int
        /\ File(q) \in Int
    <3>1. k * df \in Int
      BY <1>6
    <3> QED
      BY <1>6, <1>7, <1>1, <1>2, <3>1
  <2> HIDE DEF q
  <2> QED
    BY <2>1, <1>4, <1>2
<1>9. /\ (Rank(s) + (k + j) * dr) * Width \in Int /\ (Rank(s) + (k - j) * dr) * Width \in Int
  <2>1. (k + j) * dr \in Int /\ (k - j) * dr \in Int
    BY <1>6, <1>7
  <2>2. Rank(s) + (k + j) * dr \in Int /\ Rank(s) + (k - j) * dr \in Int
    BY <2>1, <1>2
  <2> QED
    BY <2>2, <1>2
<1>10. /\ Away(q, df, dr, j) = Away(s, df, dr, k + j)
       /\ Away(q, -df, -dr, j) = Away(s, df, dr, k - j)
  <2> HIDE DEF q
  <2> QED
    BY <1>4, <1>8, <1>9 DEF Away
<1>11. /\ On(q, df, dr, j) <=> On(s, df, dr, k + j)
       /\ On(q, -df, -dr, j) <=> On(s, df, dr, k - j)
  <2> HIDE DEF q
  <2> QED
    BY <1>4 DEF On
<1> QED
  BY <1>10, <1>11

(***************************************************************************)
(* Shifts.                                                                 *)
(***************************************************************************)
LEMMA ShiftOne ==
  ASSUME NEW s \in Squares, NEW df \in Unit, NEW dr \in Unit
  PROVE  Shift({s}, StepOf(df, dr)) = IF On(s, df, dr, 1) THEN {Away(s, df, dr, 1)} ELSE {}
<1> DEFINE d == StepOf(df, dr)
           q == Away(s, df, dr, 1)
<1>1. /\ File(s) \in 0 .. Width - 1 /\ Rank(s) \in 0 .. Width - 1 /\ Width \in Nat
      /\ s = Rank(s) * Width + File(s) /\ 1 * df = df /\ 1 * dr = dr
      /\ df = -1 \/ df = 0 \/ df = 1
  BY Coordinates, StepTimes, RulesAssumption DEF Unit
<1>2. s \in d.masked <=> File(s) + df \notin 0 .. Width - 1
  BY <1>1 DEF StepOf, HFile, AFile, File
<1>3. CASE s \in d.masked
  <2>1. ~On(s, df, dr, 1)
    BY <1>1, <1>2, <1>3 DEF On, OnBoard
  <2>2. {s} \ d.masked = {}
    BY <1>3
  <2> QED
    BY <2>1, <2>2 DEF Shift
<1>4. CASE s \notin d.masked
  <2>1. q \in Squares <=> On(s, df, dr, 1)
    BY <1>1, <1>2, <1>4, AwayIs
  <2>2. s + d.delta = q
    <3>1. d.delta = dr * Width + df
      BY DEF StepOf
    <3>2. (Rank(s) + dr) * Width = Rank(s) * Width + dr * Width
      BY <1>1 DEF Unit
    <3>3. Rank(s) * Width \in Int /\ dr * Width \in Int
      BY <1>1 DEF Unit
    <3> QED
      BY <1>1, <3>1, <3>2, <3>3 DEF Away
  <2>3. Shift({s}, d) = {q} \cap Squares
    <3> HIDE DEF d, q
    <3> QED
      BY <1>4, <2>2 DEF Shift
  <2> HIDE DEF d, q
  <2> QED
    BY <2>1, <2>3 DEF d, q
<1> QED
  BY <1>3, <1>4

LEMMA ShiftIs ==
  ASSUME NEW bits \in SUBSET Squares, NEW df \in Unit, NEW dr \in Unit, NEW q
  PROVE  q \in Shift(bits, StepOf(df, dr))
           <=> \E s \in bits : On(s, df, dr, 1) /\ q = Away(s, df, dr, 1)
<1> DEFINE d == StepOf(df, dr)
<1>1. q \in Shift(bits, d) <=> \E s \in bits : q \in Shift({s}, d)
  <2> HIDE DEF d
  <2> QED
    BY DEF Shift
<1> QED
  BY <1>1, ShiftOne

(***************************************************************************)
(* The walk: a row of opposing discs, and what ends it.                    *)
(***************************************************************************)
RowOf(s, df, dr, opp, k) == \A j \in 1 .. k : On(s, df, dr, j) /\ Away(s, df, dr, j) \in opp
Walk(s, df, dr, opp, k) ==
  IF RowOf(s, df, dr, opp, k) /\ On(s, df, dr, k + 1) THEN {Away(s, df, dr, k + 1)} ELSE {}
WalkFrom(next, s, d, opp) ==
  \A k \in 0 .. Width : next[k] = IF k = 0 THEN Shift({s}, d) ELSE Shift(next[k - 1] \cap opp, d)

LEMMA WalkStep ==
  ASSUME NEW s \in Squares, NEW opp \in SUBSET Squares, NEW df \in Unit, NEW dr \in Unit,
         NEW k \in 1 .. Width
  PROVE  Walk(s, df, dr, opp, k) = Shift(Walk(s, df, dr, opp, k - 1) \cap opp, StepOf(df, dr))
<1> DEFINE q == Away(s, df, dr, k)
           d == StepOf(df, dr)
           Row(j) == RowOf(s, df, dr, opp, j)
           On1(j) == On(s, df, dr, j)
<1>0. Width \in Nat /\ k \in Int /\ (k - 1) + 1 = k
  BY RulesAssumption
<1>1. Row(k) <=> Row(k - 1) /\ On1(k) /\ q \in opp
  BY <1>0 DEF RowOf
<1>2. Walk(s, df, dr, opp, k - 1) = IF Row(k - 1) /\ On1(k) THEN {q} ELSE {}
  BY <1>0 DEF Walk
<1>3. CASE Row(k)
  <2>1. Walk(s, df, dr, opp, k - 1) \cap opp = {q}
    <3> HIDE DEF q, Row, On1
    <3> QED
      BY <1>1, <1>2, <1>3
  <2>2. q \in Squares
    BY <1>1, <1>3
  <2>3. Shift({q}, d) = IF On(q, df, dr, 1) THEN {Away(q, df, dr, 1)} ELSE {}
    BY <2>2, ShiftOne
  <2>4. /\ Away(q, df, dr, 1) = Away(s, df, dr, k + 1)
        /\ On(q, df, dr, 1) <=> On1(k + 1)
    BY <1>0, <1>1, <1>3, AwayAdds
  <2>5. Walk(s, df, dr, opp, k) = IF On1(k + 1) THEN {Away(s, df, dr, k + 1)} ELSE {}
    BY <1>3 DEF Walk
  <2> HIDE DEF q, d, Row, On1
  <2> QED
    BY <2>1, <2>3, <2>4, <2>5 DEF d, q
<1>4. CASE ~Row(k)
  <2>1. Walk(s, df, dr, opp, k - 1) \cap opp = {}
    <3> HIDE DEF q, Row, On1
    <3> QED
      BY <1>1, <1>2, <1>4
  <2>2. Shift({}, d) = {}
    <3> HIDE DEF d
    <3> QED
      BY DEF Shift
  <2> QED
    BY <2>1, <2>2, <1>4 DEF Walk
<1> QED
  BY <1>3, <1>4

LEMMA WalkIs ==
  ASSUME NEW s \in Squares, NEW opp \in SUBSET Squares, NEW df \in Unit, NEW dr \in Unit,
         NEW next, WalkFrom(next, s, StepOf(df, dr), opp)
  PROVE  \A k \in 0 .. Width : next[k] = Walk(s, df, dr, opp, k)
<1> DEFINE walk == [k \in 0 .. Width |-> Walk(s, df, dr, opp, k)]
<1>0. Width \in Nat /\ 0 \in 0 .. Width
  BY RulesAssumption
<1>1. next[0] = walk[0]
  <2>1. RowOf(s, df, dr, opp, 0)
    BY DEF RowOf
  <2>2. walk[0] = IF On(s, df, dr, 1) THEN {Away(s, df, dr, 1)} ELSE {}
    BY <1>0, <2>1 DEF Walk
  <2>3. next[0] = Shift({s}, StepOf(df, dr))
    BY <1>0 DEF WalkFrom
  <2> HIDE DEF walk
  <2> QED
    BY <2>2, <2>3, ShiftOne
<1>2. ASSUME NEW k \in 1 .. Width, next[k - 1] = walk[k - 1]
      PROVE  next[k] = walk[k]
  <2>1. k \in 0 .. Width /\ k - 1 \in 0 .. Width /\ k # 0
    BY <1>0
  <2>2. next[k] = Shift(next[k - 1] \cap opp, StepOf(df, dr))
    BY <2>1 DEF WalkFrom
  <2> QED
    BY <2>1, <2>2, <1>2, WalkStep
<1> HIDE DEF walk
<1>3. ContinueAlike(next, walk, Width)
  BY <1>1, <1>2 DEF ContinueAlike
<1>4. Alike(next, walk, Width)
  BY <1>0, <1>3, RecursionUnique
<1> QED
  BY <1>4 DEF Alike, walk

\* The walk finds the row that Bracketed describes.
LEMMA FlipsAreBracketed ==
  ASSUME NEW s \in Squares, NEW player \in SUBSET Squares, NEW opp \in SUBSET Squares,
         player \cap opp = {}, NEW df \in Unit, NEW dr \in Unit, <<df, dr>> # <<0, 0>>
  PROVE  FlipsInDirection(s, player, opp, StepOf(df, dr)) = Bracketed(player, opp, s, df, dr)
<1> DEFINE d == StepOf(df, dr)
           Body(f) == [k \in 0 .. Width |-> IF k = 0 THEN Shift({s}, d) ELSE Shift(f[k - 1] \cap opp, d)]
           next == CHOOSE f : f = Body(f)
           walk == [k \in 0 .. Width |-> Walk(s, df, dr, opp, k)]
           ends == { k \in 1 .. Width : next[k] \cap player # {} }
           reaches(n) == /\ OnBoard(File(s) + n * df, Rank(s) + n * dr)
                         /\ Away(s, df, dr, n) \in player
                         /\ \A k \in 1 .. n - 1 : Away(s, df, dr, k) \in opp
<1>0. Width \in Nat /\ 0 \in 0 .. Width
  BY RulesAssumption
<1>1. walk = Body(walk)
  <2>1. ASSUME NEW k \in 0 .. Width
        PROVE  walk[k] = IF k = 0 THEN Shift({s}, d) ELSE Shift(walk[k - 1] \cap opp, d)
    <3>1. CASE k = 0
      <4>1. RowOf(s, df, dr, opp, 0)
        BY DEF RowOf
      <4>2. walk[0] = IF On(s, df, dr, 1) THEN {Away(s, df, dr, 1)} ELSE {}
        BY <1>0, <4>1 DEF Walk
      <4> HIDE DEF walk
      <4> QED
        BY <3>1, <4>2, ShiftOne
    <3>2. CASE k # 0
      <4>1. k \in 1 .. Width /\ k - 1 \in 0 .. Width
        BY <1>0, <3>2
      <4> QED
        BY <4>1, <3>2, WalkStep
    <3> QED
      BY <3>1, <3>2
  <2> QED
    BY <2>1, Zenon
<1>2. next = Body(next)
  <2> HIDE DEF Body, walk
  <2> QED
    BY <1>1
<1>3. WalkFrom(next, s, d, opp)
  <2>1. \A k \in 0 .. Width : Body(next)[k] = IF k = 0 THEN Shift({s}, d) ELSE Shift(next[k - 1] \cap opp, d)
    OBVIOUS
  <2> HIDE DEF next, Body, d
  <2> QED
    BY <1>2, <2>1 DEF WalkFrom
<1>4. \A k \in 0 .. Width : next[k] = Walk(s, df, dr, opp, k)
  <2> HIDE DEF next
  <2> QED
    BY <1>3, WalkIs
<1>5. FlipsInDirection(s, player, opp, d)
        = UNION { next[k] \cap opp : k \in { i \in 0 .. Width : \E n \in ends : i < n } }
  <2> HIDE DEF d
  <2> QED
    BY Zenon DEF FlipsInDirection
<1>6. Bracketed(player, opp, s, df, dr)
        = { Away(s, df, dr, k) : k \in { i \in 1 .. Width : \E n \in i + 1 .. Width : reaches(n) } }
  BY DEF Bracketed
<1> HIDE DEF next, d, Body, walk
<1>7. ASSUME NEW n \in 0 .. Width
      PROVE  next[n] \cap player # {} <=> reaches(n + 1)
  <2>1. next[n] = IF RowOf(s, df, dr, opp, n) /\ On(s, df, dr, n + 1)
                  THEN {Away(s, df, dr, n + 1)} ELSE {}
    BY <1>4 DEF Walk
  <2>2. RowOf(s, df, dr, opp, n) /\ On(s, df, dr, n + 1)
          <=> On(s, df, dr, n + 1) /\ \A k \in 1 .. n : Away(s, df, dr, k) \in opp
    <3>1. ASSUME On(s, df, dr, n + 1), NEW k \in 1 .. n
          PROVE  On(s, df, dr, k)
      <4>1. k \in 0 .. n + 1 /\ n + 1 \in Int
        BY <1>0
      <4> QED
        BY <4>1, <3>1, Between
    <3> QED
      BY <3>1 DEF RowOf
  <2>3. (n + 1) - 1 = n
    BY <1>0
  <2> QED
    BY <2>1, <2>2, <2>3 DEF On
<1>8. ASSUME NEW n \in Nat, reaches(n)
      PROVE  n < Width
  <2>1. File(s) \in 0 .. Width - 1 /\ Rank(s) \in 0 .. Width - 1
    BY Coordinates
  <2>2. /\ df = -1 \/ df = 0 \/ df = 1
        /\ dr = -1 \/ dr = 0 \/ dr = 1
        /\ df # 0 \/ dr # 0
    BY DEF Unit
  <2> QED
    BY <2>1, <2>2, <1>8, <1>0 DEF OnBoard
<1>9. ASSUME NEW q
      PROVE  q \in FlipsInDirection(s, player, opp, d) <=> q \in Bracketed(player, opp, s, df, dr)
  <2>1. ASSUME q \in FlipsInDirection(s, player, opp, d)
        PROVE  q \in Bracketed(player, opp, s, df, dr)
    <3>1. PICK i \in 0 .. Width, n \in ends : i < n /\ q \in next[i] \cap opp
      BY <2>1, <1>5
    <3>2. n \in 0 .. Width /\ n \in 1 .. Width /\ next[n] \cap player # {}
      BY <3>1, <1>0
    <3>3. reaches(n + 1)
      BY <3>2, <1>7
    <3>4. q = Away(s, df, dr, i + 1)
      BY <3>1, <1>4 DEF Walk
    <3>5. n + 1 < Width /\ i + 1 \in 1 .. Width /\ n + 1 \in (i + 1) + 1 .. Width
      <4>1. n + 1 < Width
        BY <3>2, <3>3, <1>8
      <4> QED
        BY <4>1, <3>1, <3>2, <1>0
    <3> HIDE DEF reaches
    <3> QED
      BY <3>3, <3>4, <3>5, <1>6
  <2>2. ASSUME q \in Bracketed(player, opp, s, df, dr)
        PROVE  q \in FlipsInDirection(s, player, opp, d)
    <3>1. PICK k \in 1 .. Width : q = Away(s, df, dr, k) /\ \E m \in k + 1 .. Width : reaches(m)
      <4> HIDE DEF reaches
      <4> QED
        BY <2>2, <1>6
    <3>9. PICK m \in k + 1 .. Width : reaches(m)
      BY <3>1
    <3>2. k - 1 \in 0 .. Width /\ m - 1 \in 1 .. Width /\ m - 1 \in 0 .. Width /\ k - 1 < m - 1
          /\ (m - 1) + 1 = m /\ (k - 1) + 1 = k /\ m \in Int
      BY <3>1, <1>0
    <3>3. m - 1 \in ends
      BY <3>9, <3>2, <1>7
    <3>4. RowOf(s, df, dr, opp, k - 1) /\ On(s, df, dr, k) /\ Away(s, df, dr, k) \in opp
      <4>1. On(s, df, dr, m)
        BY <3>9 DEF On
      <4>2. ASSUME NEW j \in 1 .. m - 1
            PROVE  On(s, df, dr, j) /\ Away(s, df, dr, j) \in opp
        <5>1. j \in 0 .. m
          BY <3>2
        <5> QED
          BY <5>1, <4>1, <3>9, <3>2, Between
      <4>3. k \in 1 .. m - 1 /\ \A j \in 1 .. k - 1 : j \in 1 .. m - 1
        BY <3>1, <1>0
      <4> HIDE DEF reaches
      <4> QED
        BY <4>2, <4>3 DEF RowOf
    <3>5. q \in next[k - 1] \cap opp
      BY <3>1, <3>2, <3>4, <1>4 DEF Walk
    <3> HIDE DEF ends, reaches
    <3> QED
      BY <3>2, <3>3, <3>5, <1>5
  <2> QED
    BY <2>1, <2>2
<1> QED
  BY <1>9 DEF d

(***************************************************************************)
(* The fill: after k steps, the rows of at most k + 1 opposing discs that  *)
(* begin behind a disc of the player.                                      *)
(***************************************************************************)
Filled(player, opp, df, dr, k) ==
  { q \in Squares : \E p \in player : \E n \in 1 .. k + 1 :
      RowOf(p, df, dr, opp, n) /\ q = Away(p, df, dr, n) }

LEMMA RowGrows ==
  ASSUME NEW s, NEW df, NEW dr, NEW opp, NEW n \in Nat
  PROVE  RowOf(s, df, dr, opp, n + 1)
           <=> RowOf(s, df, dr, opp, n) /\ On(s, df, dr, n + 1) /\ Away(s, df, dr, n + 1) \in opp
BY DEF RowOf

LEMMA FillBegins ==
  ASSUME NEW player \in SUBSET Squares, NEW opp \in SUBSET Squares,
         NEW df \in Unit, NEW dr \in Unit
  PROVE  Shift(player, StepOf(df, dr)) \cap opp = Filled(player, opp, df, dr, 0)
<1>1. ASSUME NEW p
      PROVE  RowOf(p, df, dr, opp, 1) <=> On(p, df, dr, 1) /\ Away(p, df, dr, 1) \in opp
  BY DEF RowOf
<1>2. \A q : q \in Filled(player, opp, df, dr, 0)
               <=> q \in Squares /\ \E p \in player : RowOf(p, df, dr, opp, 1) /\ q = Away(p, df, dr, 1)
  <2>1. 1 .. 0 + 1 = {1}
    OBVIOUS
  <2> QED
    BY <2>1 DEF Filled
<1>3. \A q : q \in Shift(player, StepOf(df, dr))
               <=> \E p \in player : On(p, df, dr, 1) /\ q = Away(p, df, dr, 1)
  BY ShiftIs
<1> QED
  BY <1>1, <1>2, <1>3

LEMMA FillGoesOn ==
  ASSUME NEW player \in SUBSET Squares, NEW opp \in SUBSET Squares,
         NEW df \in Unit, NEW dr \in Unit, NEW k \in Nat \ {0}
  PROVE  Filled(player, opp, df, dr, k)
           = Filled(player, opp, df, dr, k - 1)
               \cup (Shift(Filled(player, opp, df, dr, k - 1), StepOf(df, dr)) \cap opp)
<1> DEFINE old == Filled(player, opp, df, dr, k - 1)
           new == Filled(player, opp, df, dr, k)
           Row(p, n) == RowOf(p, df, dr, opp, n)
           At(p, n) == Away(p, df, dr, n)
<1>1. /\ \A q : q \in new <=> q \in Squares /\ \E p \in player : \E n \in 1 .. k + 1 : Row(p, n) /\ q = At(p, n)
      /\ \A q : q \in old <=> q \in Squares /\ \E p \in player : \E n \in 1 .. k : Row(p, n) /\ q = At(p, n)
  <2>1. (k - 1) + 1 = k
    OBVIOUS
  <2> QED
    BY <2>1 DEF Filled
<1>2. old \in SUBSET Squares
  BY DEF Filled
<1>3. \A q : q \in Shift(old, StepOf(df, dr)) <=> \E o \in old : On(o, df, dr, 1) /\ q = At(o, 1)
  <2> HIDE DEF old
  <2> QED
    BY <1>2, ShiftIs
<1>4. ASSUME NEW p \in Squares, NEW n \in Nat, n >= 1, Row(p, n)
      PROVE  /\ At(p, n) \in Squares
             /\ At(At(p, n), 1) = At(p, n + 1)
             /\ On(At(p, n), df, dr, 1) <=> On(p, df, dr, n + 1)
  <2>1. On(p, df, dr, n)
    BY <1>4 DEF RowOf
  <2> QED
    BY <2>1, AwayOn, AwayAdds
<1>5. ASSUME NEW q \in new
      PROVE  q \in old \cup (Shift(old, StepOf(df, dr)) \cap opp)
  <2>1. PICK p \in player, n \in 1 .. k + 1 : Row(p, n) /\ q = At(p, n)
    BY <1>1
  <2>2. CASE n \in 1 .. k
    BY <2>1, <2>2, <1>1
  <2>3. CASE n = k + 1
    <3>1. Row(p, k) /\ On(p, df, dr, k + 1) /\ q \in opp
      BY <2>1, <2>3, RowGrows
    <3>2. /\ At(p, k) \in Squares /\ At(At(p, k), 1) = q
          /\ On(At(p, k), df, dr, 1)
      <4> HIDE DEF Row, At
      <4> QED
        BY <3>1, <2>1, <2>3, <1>4
    <3>3. At(p, k) \in old
      <4>1. k \in 1 .. k
        OBVIOUS
      <4> HIDE DEF old, Row, At
      <4> QED
        BY <1>1, <3>1, <3>2, <4>1
    <3> HIDE DEF old, Row, At
    <3> QED
      BY <3>1, <3>2, <3>3, <1>3
  <2> QED
    BY <2>2, <2>3
<1>6. ASSUME NEW q \in old
      PROVE  q \in new
  <2>1. PICK p \in player, n \in 1 .. k : Row(p, n) /\ q = At(p, n)
    BY <1>1
  <2>2. n \in 1 .. k + 1
    OBVIOUS
  <2> HIDE DEF old, new, Row, At
  <2> QED
    BY <2>1, <2>2, <1>1
<1>7. ASSUME NEW q \in Shift(old, StepOf(df, dr)) \cap opp
      PROVE  q \in new
  <2>1. PICK o \in old : On(o, df, dr, 1) /\ q = At(o, 1)
    BY <1>3
  <2>2. PICK p \in player, n \in 1 .. k : Row(p, n) /\ o = At(p, n)
    BY <1>1
  <2>3. q = At(p, n + 1) /\ On(p, df, dr, n + 1)
    <3> HIDE DEF old, new, Row, At
    <3> QED
      BY <2>1, <2>2, <1>4
  <2>4. Row(p, n + 1)
    BY <2>2, <2>3, <1>7, RowGrows
  <2>5. n + 1 \in 1 .. k + 1 /\ q \in Squares
    BY <1>7
  <2> HIDE DEF old, new, Row, At
  <2> QED
    BY <2>3, <2>4, <2>5, <1>1
<1> HIDE DEF old, new
<1>8. new = old \cup (Shift(old, StepOf(df, dr)) \cap opp)
  BY <1>5, <1>6, <1>7
<1> QED
  BY <1>8 DEF old, new

\* A row of opposing discs, no longer than the fill follows, ends before q.
RowTo(player, opp, df, dr, q) ==
  \E p \in player : \E n \in 1 .. CaptureSteps + 1 :
    RowOf(p, df, dr, opp, n) /\ On(p, df, dr, n + 1) /\ q = Away(p, df, dr, n + 1)

\* The squares the fill finds.
LEMMA MovesInDirection ==
  ASSUME NEW player \in SUBSET Squares, NEW opp \in SUBSET Squares, NEW empty \in SUBSET Squares,
         NEW df \in Unit, NEW dr \in Unit, NEW q
  PROVE  q \in LegalMovesInDirection(player, opp, empty, StepOf(df, dr))
           <=> q \in empty /\ RowTo(player, opp, df, dr, q)
<1> DEFINE d == StepOf(df, dr)
           Fill(k) == Filled(player, opp, df, dr, k)
           Body(f) == [k \in 0 .. CaptureSteps |->
                         IF k = 0 THEN Shift(player, d) \cap opp
                         ELSE f[k - 1] \cup (Shift(f[k - 1], d) \cap opp)]
           captured == CHOOSE f : f = Body(f)
           filled == [k \in 0 .. CaptureSteps |-> Fill(k)]
<1>0. CaptureSteps \in Nat /\ 0 \in 0 .. CaptureSteps /\ CaptureSteps \in 0 .. CaptureSteps
  BY RulesAssumption
<1>1. Fill(0) = Shift(player, d) \cap opp
  BY FillBegins
<1>2. ASSUME NEW k \in 1 .. CaptureSteps
      PROVE  Fill(k) = Fill(k - 1) \cup (Shift(Fill(k - 1), d) \cap opp)
  <2>1. k \in Nat \ {0}
    BY <1>0
  <2> QED
    BY <2>1, FillGoesOn
<1> HIDE DEF Fill, d
<1>3. filled = Body(filled)
  <2>1. ASSUME NEW k \in 0 .. CaptureSteps
        PROVE  filled[k] = IF k = 0 THEN Shift(player, d) \cap opp
                           ELSE filled[k - 1] \cup (Shift(filled[k - 1], d) \cap opp)
    <3>1. CASE k = 0
      BY <3>1, <1>1
    <3>2. CASE k # 0
      <4>1. k \in 1 .. CaptureSteps /\ k - 1 \in 0 .. CaptureSteps
        BY <1>0, <3>2
      <4> QED
        BY <4>1, <3>2, <1>2
    <3> QED
      BY <3>1, <3>2
  <2> QED
    BY <2>1, Zenon
<1>4. captured = Body(captured)
  <2> HIDE DEF Body, filled
  <2> QED
    BY <1>3
<1>5. \A k \in 0 .. CaptureSteps :
        captured[k] = IF k = 0 THEN Shift(player, d) \cap opp
                      ELSE captured[k - 1] \cup (Shift(captured[k - 1], d) \cap opp)
  <2>1. \A k \in 0 .. CaptureSteps :
          Body(captured)[k] = IF k = 0 THEN Shift(player, d) \cap opp
                              ELSE captured[k - 1] \cup (Shift(captured[k - 1], d) \cap opp)
    OBVIOUS
  <2> HIDE DEF captured, Body
  <2> QED
    BY <1>4, <2>1
<1>6. LegalMovesInDirection(player, opp, empty, d) = Shift(captured[CaptureSteps], d) \cap empty
  BY Zenon DEF LegalMovesInDirection
<1> HIDE DEF captured, Body
<1>7. captured[CaptureSteps] = Fill(CaptureSteps)
  <2>1. captured[0] = filled[0]
    BY <1>0, <1>1, <1>5
  <2>2. ASSUME NEW k \in 1 .. CaptureSteps, captured[k - 1] = filled[k - 1]
        PROVE  captured[k] = filled[k]
    <3>1. k \in 0 .. CaptureSteps /\ k - 1 \in 0 .. CaptureSteps /\ k # 0
      BY <1>0
    <3> QED
      BY <3>1, <2>2, <1>2, <1>5
  <2> HIDE DEF filled
  <2>3. ContinueAlike(captured, filled, CaptureSteps)
    BY <2>1, <2>2 DEF ContinueAlike
  <2>4. Alike(captured, filled, CaptureSteps)
    BY <1>0, <2>3, RecursionUnique
  <2> QED
    BY <1>0, <2>4 DEF Alike, filled
<1>8. Fill(CaptureSteps) \in SUBSET Squares
  BY DEF Fill, Filled
<1>9. q \in Shift(Fill(CaptureSteps), d)
        <=> \E o \in Fill(CaptureSteps) : On(o, df, dr, 1) /\ q = Away(o, df, dr, 1)
  BY <1>8, ShiftIs DEF d
<1>10. ASSUME NEW p \in player, NEW n \in 1 .. CaptureSteps + 1, RowOf(p, df, dr, opp, n)
       PROVE  /\ Away(p, df, dr, n) \in Squares
              /\ Away(Away(p, df, dr, n), df, dr, 1) = Away(p, df, dr, n + 1)
              /\ On(Away(p, df, dr, n), df, dr, 1) <=> On(p, df, dr, n + 1)
  <2>1. On(p, df, dr, n) /\ n \in Int /\ p \in Squares
    BY <1>0, <1>10 DEF RowOf
  <2> QED
    BY <2>1, AwayOn, AwayAdds
<1>11. (\E o \in Fill(CaptureSteps) : On(o, df, dr, 1) /\ q = Away(o, df, dr, 1))
         <=> \E p \in player : \E n \in 1 .. CaptureSteps + 1 :
               /\ RowOf(p, df, dr, opp, n) /\ On(p, df, dr, n + 1)
               /\ q = Away(p, df, dr, n + 1)
  <2>1. \A o : o \in Fill(CaptureSteps)
                 <=> o \in Squares /\ \E p \in player : \E n \in 1 .. CaptureSteps + 1 :
                       RowOf(p, df, dr, opp, n) /\ o = Away(p, df, dr, n)
    BY DEF Fill, Filled
  <2>2. ASSUME NEW o \in Fill(CaptureSteps), On(o, df, dr, 1), q = Away(o, df, dr, 1)
        PROVE  \E p \in player : \E n \in 1 .. CaptureSteps + 1 :
               /\ RowOf(p, df, dr, opp, n) /\ On(p, df, dr, n + 1)
               /\ q = Away(p, df, dr, n + 1)
    <3>1. PICK p \in player, n \in 1 .. CaptureSteps + 1 :
            RowOf(p, df, dr, opp, n) /\ o = Away(p, df, dr, n)
      BY <2>1, <2>2
    <3> QED
      BY <3>1, <2>2, <1>10
  <2>3. ASSUME NEW p \in player, NEW n \in 1 .. CaptureSteps + 1,
               RowOf(p, df, dr, opp, n), On(p, df, dr, n + 1), q = Away(p, df, dr, n + 1)
        PROVE  \E o \in Fill(CaptureSteps) : On(o, df, dr, 1) /\ q = Away(o, df, dr, 1)
    <3>1. Away(p, df, dr, n) \in Fill(CaptureSteps)
      BY <2>1, <2>3, <1>10
    <3> QED
      BY <3>1, <2>3, <1>10
  <2> QED
    BY <2>2, <2>3
<1> QED
  BY <1>6, <1>7, <1>9, <1>11 DEF d, RowTo

(***************************************************************************)
(* The two agree.                                                          *)
(***************************************************************************)
Reaches(player, opp, s, df, dr, n) ==
  /\ On(s, df, dr, n) /\ Away(s, df, dr, n) \in player
  /\ \A k \in 1 .. n - 1 : Away(s, df, dr, k) \in opp

LEMMA BracketedSome ==
  ASSUME NEW player, NEW opp, NEW s, NEW df, NEW dr
  PROVE  Bracketed(player, opp, s, df, dr) # {}
           <=> \E n \in 2 .. Width : Reaches(player, opp, s, df, dr, n)
<1> DEFINE reaches(n) == /\ OnBoard(File(s) + n * df, Rank(s) + n * dr)
                         /\ Away(s, df, dr, n) \in player
                         /\ \A k \in 1 .. n - 1 : Away(s, df, dr, k) \in opp
<1>0. Width \in Nat
  BY RulesAssumption
<1>1. \A n : reaches(n) <=> Reaches(player, opp, s, df, dr, n)
  BY DEF Reaches, On
<1>2. Bracketed(player, opp, s, df, dr)
        = { Away(s, df, dr, k) : k \in { i \in 1 .. Width : \E n \in i + 1 .. Width : reaches(n) } }
  BY DEF Bracketed
<1> HIDE DEF reaches
<1>3. Bracketed(player, opp, s, df, dr) # {} <=> \E i \in 1 .. Width : \E n \in i + 1 .. Width : reaches(n)
  BY <1>2
<1>4. ASSUME NEW i \in 1 .. Width, NEW n \in i + 1 .. Width PROVE n \in 2 .. Width
  BY <1>0
<1>5. ASSUME NEW n \in 2 .. Width PROVE 1 \in 1 .. Width /\ n \in 1 + 1 .. Width
  BY <1>0
<1> QED
  BY <1>1, <1>3, <1>4, <1>5

\* From the empty square, the row that the fill came along is bracketed.
LEMMA MovesFlip ==
  ASSUME NEW player \in SUBSET Squares, NEW opp \in SUBSET Squares,
         NEW df \in Unit, NEW dr \in Unit, <<df, dr>> # <<0, 0>>,
         NEW p \in player, NEW n \in Nat, n >= 1, RowOf(p, df, dr, opp, n), On(p, df, dr, n + 1)
  PROVE  Bracketed(player, opp, Away(p, df, dr, n + 1), -df, -dr) # {}
<1> DEFINE q == Away(p, df, dr, n + 1)
<1>0. n + 1 \in Int /\ p \in Squares /\ Width \in Nat
  BY RulesAssumption
<1>1. \A j \in Int : /\ Away(q, -df, -dr, j) = Away(p, df, dr, (n + 1) - j)
                     /\ On(q, -df, -dr, j) <=> On(p, df, dr, (n + 1) - j)
  BY <1>0, AwayAdds
<1> HIDE DEF q
<1>2. On(q, -df, -dr, n + 1) /\ Away(q, -df, -dr, n + 1) \in player
  <2>1. (n + 1) - (n + 1) = 0 /\ n + 1 \in Int
    OBVIOUS
  <2>2. On(p, df, dr, 0) /\ Away(p, df, dr, 0) = p
    BY AwayNone
  <2>3. Away(q, -df, -dr, n + 1) = p /\ On(q, -df, -dr, n + 1)
    BY <1>1, <2>1, <2>2
  <2> QED
    BY <2>3
<1>3. \A k \in 1 .. (n + 1) - 1 : Away(q, -df, -dr, k) \in opp
  <2> TAKE k \in 1 .. (n + 1) - 1
  <2>1. (n + 1) - k \in 1 .. n /\ k \in Int
    OBVIOUS
  <2>2. Away(p, df, dr, (n + 1) - k) \in opp
    BY <2>1 DEF RowOf
  <2> QED
    BY <1>1, <2>1, <2>2
<1>4. n + 1 \in 2 .. Width
  <2>1. File(p) \in 0 .. Width - 1 /\ Rank(p) \in 0 .. Width - 1
    BY Coordinates
  <2>2. /\ df = -1 \/ df = 0 \/ df = 1
        /\ dr = -1 \/ dr = 0 \/ dr = 1
        /\ df # 0 \/ dr # 0
    BY DEF Unit
  <2>3. n + 1 < Width
    BY <2>1, <2>2, <1>0 DEF On, OnBoard
  <2> QED
    BY <2>3, <1>0
<1>5. Reaches(player, opp, q, -df, -dr, n + 1)
  BY <1>2, <1>3 DEF Reaches
<1> QED
  BY <1>4, <1>5, BracketedSome DEF q

\* A bracketed row is short enough for the fill to come back along it.
LEMMA FlipsAreMoves ==
  ASSUME CaptureSteps >= Width - 3,
         NEW player \in SUBSET Squares, NEW opp \in SUBSET Squares, NEW q \in Squares,
         NEW df \in Unit, NEW dr \in Unit, <<df, dr>> # <<0, 0>>,
         Bracketed(player, opp, q, df, dr) # {}
  PROVE  RowTo(player, opp, -df, -dr, q)
<1>0. Width \in Nat /\ CaptureSteps \in Nat
  BY RulesAssumption
<1>1. PICK m \in 2 .. Width : Reaches(player, opp, q, df, dr, m)
  BY BracketedSome
<1> DEFINE p == Away(q, df, dr, m)
           n == m - 1
<1>2. p \in player /\ On(q, df, dr, m) /\ m \in Int
  BY <1>0, <1>1 DEF Reaches
<1>3. \A j \in Int : /\ Away(p, -df, -dr, j) = Away(q, df, dr, m - j)
                     /\ On(p, -df, -dr, j) <=> On(q, df, dr, m - j)
  BY <1>2, AwayAdds
<1> HIDE DEF p
<1>4. n \in 1 .. CaptureSteps + 1
  <2>1. File(q) \in 0 .. Width - 1 /\ Rank(q) \in 0 .. Width - 1
    BY Coordinates
  <2>2. /\ df = -1 \/ df = 0 \/ df = 1
        /\ dr = -1 \/ dr = 0 \/ dr = 1
        /\ df # 0 \/ dr # 0
    BY DEF Unit
  <2>3. m < Width
    BY <2>1, <2>2, <1>0, <1>2 DEF On, OnBoard
  <2> QED
    BY <2>3, <1>0
<1>5. RowOf(p, -df, -dr, opp, n)
  <2> SUFFICES ASSUME NEW j \in 1 .. n
               PROVE  On(p, -df, -dr, j) /\ Away(p, -df, -dr, j) \in opp
    BY DEF RowOf
  <2>1. m - j \in 1 .. m - 1 /\ m - j \in 0 .. m /\ j \in Int
    BY <1>0
  <2>2. On(q, df, dr, m - j)
    BY <1>2, <2>1, Between
  <2>3. Away(q, df, dr, m - j) \in opp
    BY <1>1, <2>1 DEF Reaches
  <2> QED
    BY <1>3, <2>1, <2>2, <2>3
<1>6. On(p, -df, -dr, n + 1) /\ q = Away(p, -df, -dr, n + 1)
  <2>1. n + 1 = m /\ m - m = 0
    BY <1>2
  <2>2. On(q, df, dr, 0) /\ Away(q, df, dr, 0) = q
    BY AwayNone
  <2> QED
    BY <1>2, <1>3, <2>1, <2>2
<1> HIDE DEF n
<1> QED
  BY <1>2, <1>4, <1>5, <1>6 DEF RowTo

LEMMA NotBracketedHere ==
  ASSUME NEW player, NEW opp, NEW s \in Squares, s \notin player
  PROVE  Bracketed(player, opp, s, 0, 0) = {}
<1>1. \A n \in 2 .. Width : Away(s, 0, 0, n) = s
  <2> TAKE n \in 2 .. Width
  <2>1. /\ n * 0 = 0 /\ s = Rank(s) * Width + File(s) /\ Rank(s) \in Int /\ File(s) \in Int
        /\ Width \in Nat
    BY Coordinates, RulesAssumption
  <2>2. Rank(s) * Width \in Int /\ Rank(s) + 0 = Rank(s)
    BY <2>1
  <2> QED
    BY <2>1, <2>2 DEF Away
<1> QED
  BY <1>1, BracketedSome DEF Reaches

\* On every board, of any width, the walk flips what is bracketed.
LEMMA FlipsAgree ==
  ASSUME NEW player \in SUBSET Squares, NEW opp \in SUBSET Squares, player \cap opp = {},
         NEW s \in Squares \ player
  PROVE  FlipsForKnownEmptyMove(player, opp, s) = AllBracketed(player, opp, s)
<1>1. ASSUME NEW d \in Directions
      PROVE  FlipsInDirection(s, player, opp, d) \subseteq AllBracketed(player, opp, s)
  <2>1. PICK df \in Unit, dr \in Unit : <<df, dr>> # <<0, 0>> /\ d = StepOf(df, dr)
    BY DirectionsAreSteps
  <2>2. FlipsInDirection(s, player, opp, d) = Bracketed(player, opp, s, df, dr)
    BY <2>1, FlipsAreBracketed
  <2> QED
    BY <2>2 DEF AllBracketed, Unit
<1>2. ASSUME NEW df \in Unit, NEW dr \in Unit
      PROVE  Bracketed(player, opp, s, df, dr) \subseteq FlipsForKnownEmptyMove(player, opp, s)
  <2>1. CASE <<df, dr>> # <<0, 0>>
    <3>1. StepOf(df, dr) \in Directions
      BY <2>1, DirectionsAreSteps
    <3>2. FlipsInDirection(s, player, opp, StepOf(df, dr)) = Bracketed(player, opp, s, df, dr)
      BY <2>1, FlipsAreBracketed
    <3> QED
      BY <3>1, <3>2, Zenon DEF FlipsForKnownEmptyMove
  <2>2. CASE <<df, dr>> = <<0, 0>>
    BY <2>2, NotBracketedHere
  <2> QED
    BY <2>1, <2>2
<1>3. FlipsForKnownEmptyMove(player, opp, s) \subseteq AllBracketed(player, opp, s)
  BY <1>1, Zenon DEF FlipsForKnownEmptyMove
<1>4. AllBracketed(player, opp, s) \subseteq FlipsForKnownEmptyMove(player, opp, s)
  <2>1. \A x \in AllBracketed(player, opp, s) : \E df, dr \in Unit : x \in Bracketed(player, opp, s, df, dr)
    BY DEF AllBracketed, Unit
  <2> QED
    BY <2>1, <1>2
<1> QED
  BY <1>3, <1>4

LEMMA MovesLie ==
  ASSUME NEW player \in SUBSET Squares, NEW opp \in SUBSET Squares, NEW empty \in SUBSET Squares,
         NEW df \in Unit, NEW dr \in Unit,
         NEW q \in LegalMovesInDirection(player, opp, empty, StepOf(df, dr))
  PROVE  /\ q \in empty
         /\ RowTo(player, opp, df, dr, q)
BY MovesInDirection

\* And the fill lists the empty squares where something is bracketed, if it has
\* a step for every disc but one that a row can have.
LEMMA MovesAgree ==
  ASSUME CaptureSteps >= Width - 3,
         NEW player \in SUBSET Squares, NEW opp \in SUBSET Squares
  PROVE  LegalMovesFor(player, opp)
           = { s \in Squares \ (player \cup opp) : AllBracketed(player, opp, s) # {} }
<1> DEFINE empty == Squares \ (player \cup opp)
<1>1. ASSUME NEW s \in LegalMovesFor(player, opp)
      PROVE  s \in empty /\ AllBracketed(player, opp, s) # {}
  <2>1. PICK d \in Directions : s \in LegalMovesInDirection(player, opp, empty, d)
    BY <1>1, Zenon DEF LegalMovesFor
  <2>2. PICK df \in Unit, dr \in Unit : <<df, dr>> # <<0, 0>> /\ d = StepOf(df, dr)
    BY DirectionsAreSteps
  <2>3. /\ s \in empty
        /\ RowTo(player, opp, df, dr, s)
    <3>1. empty \in SUBSET Squares
      OBVIOUS
    <3> HIDE DEF empty
    <3> QED
      BY <2>1, <2>2, <3>1, MovesLie
  <2>4. PICK p \in player, n \in 1 .. CaptureSteps + 1 :
          RowOf(p, df, dr, opp, n) /\ On(p, df, dr, n + 1) /\ s = Away(p, df, dr, n + 1)
    BY <2>3 DEF RowTo
  <2>5. n \in Nat /\ n >= 1
    BY RulesAssumption
  <2>6. Bracketed(player, opp, s, -df, -dr) # {}
    BY <2>2, <2>4, <2>5, MovesFlip
  <2>7. -df \in -1 .. 1 /\ -dr \in -1 .. 1
    BY DEF Unit
  <2>8. AllBracketed(player, opp, s) # {}
    BY <2>6, <2>7 DEF AllBracketed
  <2> QED
    BY <2>3, <2>8
<1>2. ASSUME NEW s \in empty, AllBracketed(player, opp, s) # {}
      PROVE  s \in LegalMovesFor(player, opp)
  <2>1. PICK df \in Unit, dr \in Unit : Bracketed(player, opp, s, df, dr) # {}
    BY <1>2 DEF AllBracketed, Unit
  <2>2. <<df, dr>> # <<0, 0>>
    BY <2>1, NotBracketedHere
  <2>3. -df \in Unit /\ -dr \in Unit /\ <<-df, -dr>> # <<0, 0>>
    BY <2>2 DEF Unit
  <2>4. s \in Squares /\ empty \in SUBSET Squares
    OBVIOUS
  <2>5. RowTo(player, opp, -df, -dr, s)
    BY <2>1, <2>2, <2>4, FlipsAreMoves
  <2>6. s \in LegalMovesInDirection(player, opp, empty, StepOf(-df, -dr))
    <3> HIDE DEF empty
    <3> QED
      BY <2>3, <2>4, <2>5, MovesInDirection
  <2>7. StepOf(-df, -dr) \in Directions
    BY <2>3, DirectionsAreSteps
  <2> QED
    BY <2>6, <2>7, Zenon DEF LegalMovesFor
<1> QED
  BY <1>1, <1>2

\* The walk over bitboards flips exactly what the rules say, and the fill finds
\* exactly the squares where something is flipped, on boards of every width, if
\* the fill has a step for every disc but one that a row can bracket: on the
\* 8 by 8 board it takes 5, and a row holds at most 6.
THEOREM MovesAndFlipsAgree ==
  ASSUME CaptureSteps >= Width - 3
  PROVE  Spec => []RulesAgree
<1>1. ASSUME Inv PROVE RulesAgree
  <2> DEFINE player == discs(board, board.side_to_move)
             opp == discs(board, opponent(board.side_to_move))
  <2>1. /\ player \in SUBSET Squares /\ opp \in SUBSET Squares /\ player \cap opp = {}
        /\ Occupied(board) = player \cup opp
    BY <1>1, BoardParts DEF Inv, discs, opponent, Occupied, Sides
  <2>2. /\ \A s : FlipsOf(board, s) = FlipsForKnownEmptyMove(player, opp, s)
        /\ LegalMoves(board) = LegalMovesFor(player, opp)
    BY DEF FlipsOf, LegalMoves
  <2> HIDE DEF player, opp
  <2>3. \A s \in Squares \ (player \cup opp) : FlipsOf(board, s) = AllBracketed(player, opp, s)
    BY <2>1, <2>2, FlipsAgree
  <2>4. LegalMoves(board) = { s \in Squares \ (player \cup opp) : AllBracketed(player, opp, s) # {} }
    BY <2>1, <2>2, MovesAgree
  <2> QED
    BY <2>1, <2>3, <2>4, Zenon DEF RulesAgree, player, opp
<1> QED
  BY <1>1, LinesKeepInv, PTL

(***************************************************************************)
(* Sums over finite sets: the library's fold, made independent of the      *)
(* order in which it takes the elements.                                   *)
(***************************************************************************)
IsSum(I, g, S) ==
  I = [s \in SUBSET S |-> IF s = {} THEN 0
         ELSE LET x == CHOOSE x \in s : TRUE IN g[x] + I[s \ {x}]]
SumOfAll(g, S) == (CHOOSE I : IsSum(I, g, S))[S]

Small(S, n) == { s \in SUBSET S : Cardinality(s) <= n }
SumUpTo(I, g, S, n) ==
  \A s \in Small(S, n) :
    I[s] = IF s = {} THEN 0 ELSE LET x == CHOOSE x \in s : TRUE IN g[x] + I[s \ {x}]

LEMMA OneLess ==
  ASSUME NEW S, IsFiniteSet(S), NEW s \in SUBSET S, NEW x \in s
  PROVE  /\ IsFiniteSet(s) /\ IsFiniteSet(s \ {x}) /\ s \ {x} \in SUBSET S
         /\ Cardinality(s) \in Nat /\ Cardinality(s \ {x}) \in Nat
         /\ Cardinality(s) = Cardinality(s \ {x}) + 1
<1>1. IsFiniteSet(s)
  BY FS_Subset
<1>2. IsFiniteSet(s \ {x}) /\ Cardinality(s \ {x}) = Cardinality(s) - 1
  BY <1>1, FS_RemoveElement
<1>3. Cardinality(s) \in Nat /\ Cardinality(s \ {x}) \in Nat
  BY <1>1, <1>2, FS_CardinalityType
<1> QED
  BY <1>1, <1>2, <1>3

LEMMA SomeElement == \A s : s # {} => (CHOOSE x \in s : TRUE) \in s
OBVIOUS

LEMMA SumsUpTo ==
  ASSUME NEW S, IsFiniteSet(S), NEW g, NEW n \in Nat
  PROVE  \E I : SumUpTo(I, g, S, n)
<1> DEFINE T == { k \in Nat : ~\E I : SumUpTo(I, g, S, k) }
<1> SUFFICES ASSUME T # {}
             PROVE  FALSE
  OBVIOUS
<1>1. PICK k \in T : \A m \in T : k <= m
  <2>1. T \in SUBSET Nat
    OBVIOUS
  <2> HIDE DEF T
  <2> QED
    BY <2>1, LeastElement
<1>2. CASE k = 0
  <2>1. \A s \in Small(S, 0) : s = {}
    <3> SUFFICES ASSUME NEW s \in Small(S, 0), NEW x \in s
                 PROVE  FALSE
      OBVIOUS
    <3>1. s \in SUBSET S /\ Cardinality(s) <= 0
      BY DEF Small
    <3>2. /\ Cardinality(s \ {x}) \in Nat
          /\ Cardinality(s) = Cardinality(s \ {x}) + 1
      BY <3>1, OneLess
    <3> QED
      BY <3>1, <3>2
  <2>2. SumUpTo([s \in SUBSET S |-> 0], g, S, 0)
    BY <2>1 DEF SumUpTo, Small
  <2> QED
    BY <1>2, <2>2
<1>3. CASE k # 0
  <2>1. k - 1 \in Nat /\ k - 1 \notin T
    BY <1>1, <1>3
  <2>2. PICK I : SumUpTo(I, g, S, k - 1)
    BY <2>1
  <2> DEFINE Pick(s) == CHOOSE x \in s : TRUE
             J == [s \in SUBSET S |-> IF Cardinality(s) <= k - 1 THEN I[s]
                                       ELSE g[Pick(s)] + I[s \ {Pick(s)}]]
  <2>3. ASSUME NEW s \in Small(S, k)
        PROVE  J[s] = IF s = {} THEN 0 ELSE g[Pick(s)] + J[s \ {Pick(s)}]
    <3>1. s \in SUBSET S /\ Cardinality(s) <= k /\ IsFiniteSet(s) /\ Cardinality(s) \in Nat
      BY FS_Subset, FS_CardinalityType DEF Small
    <3>2. CASE s = {}
      <4>1. Cardinality(s) = 0
        BY <3>2, FS_EmptySet
      <4>2. s \in Small(S, k - 1)
        BY <2>1, <3>1, <4>1 DEF Small
      <4>3. I[s] = 0
        BY <2>2, <3>2, <4>2 DEF SumUpTo
      <4> QED
        BY <2>1, <3>1, <3>2, <4>1, <4>3
    <3>3. CASE s # {}
      <4> DEFINE x == Pick(s)
      <4>1. x \in s
        BY <3>3, SomeElement
      <4> HIDE DEF x
      <4>2. s \ {x} \in SUBSET S /\ Cardinality(s \ {x}) \in Nat /\ Cardinality(s) = Cardinality(s \ {x}) + 1
        BY <3>1, <4>1, OneLess
      <4>3. Cardinality(s \ {x}) <= k - 1
        BY <1>1, <3>1, <4>2
      <4>4. J[s \ {x}] = I[s \ {x}]
        BY <4>2, <4>3
      <4>5. CASE Cardinality(s) <= k - 1
        <5>1. s \in Small(S, k - 1)
          BY <3>1, <4>5 DEF Small
        <5>2. I[s] = g[x] + I[s \ {x}]
          BY <2>2, <3>3, <5>1 DEF SumUpTo, x
        <5>3. J[s] = I[s]
          BY <3>1, <4>5
        <5> QED
          BY <3>3, <4>4, <5>2, <5>3 DEF x
      <4>6. CASE ~(Cardinality(s) <= k - 1)
        <5>1. J[s] = g[x] + I[s \ {x}]
          BY <3>1, <4>6 DEF x
        <5> QED
          BY <3>3, <4>4, <5>1 DEF x
      <4> QED
        BY <4>5, <4>6
    <3> QED
      BY <3>2, <3>3
  <2>4. SumUpTo(J, g, S, k)
    <3> HIDE DEF J
    <3> QED
      BY <2>3 DEF SumUpTo
  <2> QED
    BY <2>4, <1>1
<1> QED
  BY <1>2, <1>3

LEMMA SumExists ==
  ASSUME NEW S, IsFiniteSet(S), NEW g
  PROVE  \E I : IsSum(I, g, S)
<1> DEFINE n == Cardinality(S)
<1>1. n \in Nat
  BY FS_CardinalityType
<1>2. PICK I : SumUpTo(I, g, S, n)
  <2> HIDE DEF n
  <2> QED
    BY <1>1, SumsUpTo
<1>3. Small(S, n) = SUBSET S
  <2> SUFFICES ASSUME NEW s \in SUBSET S
               PROVE  Cardinality(s) <= n
    BY DEF Small
  <2> QED
    BY FS_Subset
<1> DEFINE Pick(s) == CHOOSE x \in s : TRUE
           J == [s \in SUBSET S |-> I[s]]
<1>4. \A s \in SUBSET S : I[s] = IF s = {} THEN 0 ELSE g[Pick(s)] + I[s \ {Pick(s)}]
  BY <1>2, <1>3 DEF SumUpTo
<1>5. \A s \in SUBSET S : J[s] = I[s] /\ J[s \ {Pick(s)}] = I[s \ {Pick(s)}]
  OBVIOUS
<1>6. IsSum(J, g, S)
  <2>1. \A s \in SUBSET S : J[s] = IF s = {} THEN 0 ELSE g[Pick(s)] + J[s \ {Pick(s)}]
    <3> HIDE DEF J, Pick
    <3> QED
      BY <1>4, <1>5
  <2>2. J = [s \in SUBSET S |-> J[s]]
    OBVIOUS
  <2> HIDE DEF J
  <2>3. [s \in SUBSET S |-> J[s]] = [s \in SUBSET S |-> IF s = {} THEN 0 ELSE g[Pick(s)] + J[s \ {Pick(s)}]]
    BY <2>1
  <2> QED
    BY <2>2, <2>3 DEF IsSum
<1> QED
  BY <1>6

SumsDown(I, g, S) ==
  /\ I[{}] = 0
  /\ \A s \in SUBSET S : s # {} => \E x \in s : I[s] = g[x] + I[s \ {x}]
LEMMA SumSteps ==
  ASSUME NEW S, NEW g, NEW I, IsSum(I, g, S)
  PROVE  SumsDown(I, g, S)
<1> DEFINE Pick(s) == CHOOSE x \in s : TRUE
<1>1. \A s \in SUBSET S : I[s] = IF s = {} THEN 0 ELSE g[Pick(s)] + I[s \ {Pick(s)}]
  BY DEF IsSum
<1>2. \A s : s # {} => Pick(s) \in s
  BY SomeElement
<1> HIDE DEF Pick
<1>3. I[{}] = 0
  BY <1>1
<1>4. ASSUME NEW s \in SUBSET S, s # {}
      PROVE  \E x \in s : I[s] = g[x] + I[s \ {x}]
  BY <1>1, <1>2, <1>4
<1> QED
  BY <1>3, <1>4 DEF SumsDown

\* A sum of integers takes its elements in any order.
LEMMA SumTyped ==
  ASSUME NEW S, IsFiniteSet(S), NEW g, NEW I, IsSum(I, g, S), \A x \in S : g[x] \in Int
  PROVE  \A s \in SUBSET S : I[s] \in Int
<1> DEFINE Bad == { s \in SUBSET S : I[s] \notin Int }
           T == { Cardinality(s) : s \in Bad }
<1> SUFFICES ASSUME Bad # {}
             PROVE  FALSE
  OBVIOUS
<1>1. T \in SUBSET Nat /\ T # {}
  BY FS_Subset, FS_CardinalityType
<1>2. PICK k \in T : \A m \in T : k <= m
  <2> HIDE DEF T
  <2> QED
    BY <1>1, LeastElement
<1>3. PICK s \in Bad : k = Cardinality(s)
  OBVIOUS
<1>4. s # {}
  <2>1. I[{}] = 0
    BY SumSteps DEF SumsDown
  <2>2. 0 \in Int
    OBVIOUS
  <2> QED
    BY <2>1, <2>2
<1>5. PICK x \in s : I[s] = g[x] + I[s \ {x}]
  BY <1>4, SumSteps DEF SumsDown
<1>6. s \ {x} \in SUBSET S /\ Cardinality(s \ {x}) \in Nat /\ Cardinality(s) = Cardinality(s \ {x}) + 1
  BY OneLess
<1>7. s \ {x} \notin Bad
  <2> SUFFICES ASSUME s \ {x} \in Bad
               PROVE  FALSE
    OBVIOUS
  <2>1. k <= Cardinality(s \ {x})
    BY <1>2
  <2> QED
    BY <1>3, <1>6, <2>1
<1>8. I[s \ {x}] \in Int /\ g[x] \in Int
  BY <1>6, <1>7
<1> QED
  BY <1>5, <1>8

LEMMA SumTakes ==
  ASSUME NEW S, IsFiniteSet(S), NEW g, NEW I, IsSum(I, g, S), \A x \in S : g[x] \in Int
  PROVE  \A s \in SUBSET S : \A x \in s : I[s] = g[x] + I[s \ {x}]
<1> DEFINE Good(s) == \A x \in s : I[s] = g[x] + I[s \ {x}]
           Bad == { s \in SUBSET S : ~Good(s) }
           T == { Cardinality(s) : s \in Bad }
<1> SUFFICES ASSUME Bad # {}
             PROVE  FALSE
  OBVIOUS
<1>1. T \in SUBSET Nat /\ T # {}
  BY FS_Subset, FS_CardinalityType
<1>2. PICK k \in T : \A m \in T : k <= m
  <2> HIDE DEF T
  <2> QED
    BY <1>1, LeastElement
<1>3. PICK s \in Bad : k = Cardinality(s)
  OBVIOUS
<1>4. PICK x \in s : I[s] # g[x] + I[s \ {x}]
  OBVIOUS
<1>5. PICK y \in s : I[s] = g[y] + I[s \ {y}]
  <2>1. s \in SUBSET S /\ s # {}
    BY <1>4
  <2> QED
    BY <2>1, SumSteps DEF SumsDown
<1>6. x # y
  BY <1>4, <1>5
<1>7. s \in SUBSET S /\ s \ {y} \in SUBSET S /\ Cardinality(s \ {y}) \in Nat
      /\ Cardinality(s) = Cardinality(s \ {y}) + 1
  BY OneLess
<1>8. s \ {x} \in SUBSET S /\ Cardinality(s \ {x}) \in Nat
      /\ Cardinality(s) = Cardinality(s \ {x}) + 1
  BY OneLess
<1>9. s \ {y} \notin Bad
  <2> SUFFICES ASSUME s \ {y} \in Bad
               PROVE  FALSE
    OBVIOUS
  <2>1. k <= Cardinality(s \ {y})
    BY <1>2
  <2> QED
    BY <1>3, <1>7, <2>1
<1>10. s \ {x} \notin Bad
  <2> SUFFICES ASSUME s \ {x} \in Bad
               PROVE  FALSE
    OBVIOUS
  <2>1. k <= Cardinality(s \ {x})
    BY <1>2
  <2> QED
    BY <1>3, <1>8, <2>1
<1> DEFINE r == (s \ {y}) \ {x}
<1>11. r = (s \ {x}) \ {y} /\ r \in SUBSET S
  OBVIOUS
<1>12. I[s \ {y}] = g[x] + I[r]
  BY <1>6, <1>7, <1>9
<1>13. I[s \ {x}] = g[y] + I[r]
  BY <1>6, <1>8, <1>10, <1>11
<1>14. I[r] \in Int /\ g[x] \in Int /\ g[y] \in Int
  BY <1>7, <1>11, SumTyped
<1> HIDE DEF r
<1>15. g[y] + (g[x] + I[r]) = g[x] + (g[y] + I[r])
  BY <1>14
<1> QED
  BY <1>4, <1>5, <1>12, <1>13, <1>15

\* There is one sum of what is in it.
LEMMA SumsAgree ==
  ASSUME NEW S, IsFiniteSet(S), NEW A \in SUBSET S, NEW g, NEW I, NEW J,
         IsSum(I, g, S), IsSum(J, g, A), \A x \in S : g[x] \in Int
  PROVE  I[A] = J[A]
<1> DEFINE Bad == { s \in SUBSET A : I[s] # J[s] }
           T == { Cardinality(s) : s \in Bad }
<1> SUFFICES ASSUME Bad # {}
             PROVE  FALSE
  OBVIOUS
<1>0. IsFiniteSet(A)
  BY FS_Subset
<1>1. T \in SUBSET Nat /\ T # {}
  BY <1>0, FS_Subset, FS_CardinalityType
<1>2. PICK k \in T : \A m \in T : k <= m
  <2> HIDE DEF T
  <2> QED
    BY <1>1, LeastElement
<1>3. PICK s \in Bad : k = Cardinality(s)
  OBVIOUS
<1>4. s # {}
  <2>1. I[{}] = 0 /\ J[{}] = 0
    BY SumSteps DEF SumsDown
  <2> QED
    BY <2>1
<1>5. PICK x \in s : J[s] = g[x] + J[s \ {x}]
  <2>1. s \in SUBSET A
    OBVIOUS
  <2>2. SumsDown(J, g, A)
    BY SumSteps, Zenon
  <2> QED
    BY <1>4, <2>1, <2>2, Zenon DEF SumsDown
<1>6. s \ {x} \in SUBSET A /\ Cardinality(s \ {x}) \in Nat /\ Cardinality(s) = Cardinality(s \ {x}) + 1
  BY <1>0, OneLess
<1>7. s \ {x} \notin Bad
  <2> SUFFICES ASSUME s \ {x} \in Bad
               PROVE  FALSE
    OBVIOUS
  <2>1. k <= Cardinality(s \ {x})
    BY <1>2
  <2> QED
    BY <1>3, <1>6, <2>1
<1>8. I[s \ {x}] = J[s \ {x}]
  BY <1>6, <1>7
<1>9. I[s] = g[x] + I[s \ {x}]
  <2>1. s \in SUBSET S
    OBVIOUS
  <2> QED
    BY <2>1, SumTakes
<1> QED
  BY <1>5, <1>8, <1>9

\* What adds nothing may be left out.
LEMMA SumDropsZeros ==
  ASSUME NEW S, IsFiniteSet(S), NEW A \in SUBSET S, NEW g, NEW I, IsSum(I, g, S),
         \A x \in S : g[x] \in Int, \A x \in S \ A : g[x] = 0
  PROVE  I[S] = I[A]
<1> DEFINE Bad == { s \in SUBSET S : A \subseteq s /\ I[s] # I[A] }
           T == { Cardinality(s) : s \in Bad }
<1> SUFFICES ASSUME Bad # {}
             PROVE  FALSE
  OBVIOUS
<1>1. T \in SUBSET Nat /\ T # {}
  BY FS_Subset, FS_CardinalityType
<1>2. PICK k \in T : \A m \in T : k <= m
  <2> HIDE DEF T
  <2> QED
    BY <1>1, LeastElement
<1>3. PICK s \in Bad : k = Cardinality(s)
  OBVIOUS
<1>4. PICK x \in s : x \notin A
  OBVIOUS
<1>5. s \in SUBSET S /\ s \ {x} \in SUBSET S /\ Cardinality(s \ {x}) \in Nat
      /\ Cardinality(s) = Cardinality(s \ {x}) + 1
  BY OneLess
<1>6. s \ {x} \notin Bad
  <2> SUFFICES ASSUME s \ {x} \in Bad
               PROVE  FALSE
    OBVIOUS
  <2>1. k <= Cardinality(s \ {x})
    BY <1>2
  <2> QED
    BY <1>3, <1>5, <2>1
<1>7. I[s \ {x}] = I[A]
  BY <1>4, <1>5, <1>6
<1>8. I[s] = g[x] + I[s \ {x}]
  BY <1>5, SumTakes
<1>9. g[x] = 0 /\ I[s \ {x}] \in Int
  BY <1>4, <1>5, SumTyped
<1>10. I[s] = I[s \ {x}]
  BY <1>8, <1>9
<1> QED
  BY <1>3, <1>7, <1>10

\* What SumOf is once its fold is written out.
LEMMA SumOfAllIs ==
  ASSUME NEW S, IsFiniteSet(S), NEW g, \A x \in S : g[x] \in Int
  PROVE  /\ SumOfAll(g, S) \in Int
         /\ \A J : IsSum(J, g, S) => J[S] = SumOfAll(g, S)
<1> DEFINE I == CHOOSE I : IsSum(I, g, S)
<1>1. IsSum(I, g, S)
  BY SumExists, Zenon
<1>2. SumOfAll(g, S) = I[S]
  BY DEF SumOfAll
<1> HIDE DEF I
<1>3. I[S] \in Int
  BY <1>1, SumTyped
<1>4. \A J : IsSum(J, g, S) => J[S] = I[S]
  BY <1>1, SumsAgree
<1> QED
  BY <1>2, <1>3, <1>4

LEMMA SumWithoutZeros ==
  ASSUME NEW S, IsFiniteSet(S), NEW A \in SUBSET S, NEW g,
         \A x \in S : g[x] \in Int, \A x \in S \ A : g[x] = 0
  PROVE  SumOfAll(g, S) = SumOfAll(g, A)
<1>1. IsFiniteSet(A)
  BY FS_Subset
<1>2. PICK I : IsSum(I, g, S)
  BY SumExists
<1>3. PICK J : IsSum(J, g, A)
  BY <1>1, SumExists
<1>4. I[S] = I[A]
  BY <1>2, SumDropsZeros
<1>5. I[A] = J[A]
  BY <1>2, <1>3, SumsAgree
<1>6. I[S] = SumOfAll(g, S)
  BY <1>2, SumOfAllIs
<1>7. J[A] = SumOfAll(g, A)
  BY <1>1, <1>3, SumOfAllIs
<1> QED
  BY <1>4, <1>5, <1>6, <1>7

LEMMA SumOfOne ==
  ASSUME NEW g, NEW y, g[y] \in Int
  PROVE  SumOfAll(g, {y}) = g[y]
<1>1. IsFiniteSet({y})
  BY FS_Singleton
<1>2. PICK I : IsSum(I, g, {y})
  BY <1>1, SumExists
<1>3. SumsDown(I, g, {y})
  BY <1>2, SumSteps
<1>4. I[{y}] = g[y] + I[{}]
  <2>1. PICK x \in {y} : I[{y}] = g[x] + I[{y} \ {x}]
    BY <1>3 DEF SumsDown
  <2>2. x = y /\ {y} \ {x} = {}
    OBVIOUS
  <2> QED
    BY <2>1, <2>2
<1>5. I[{}] = 0
  BY <1>3 DEF SumsDown
<1>6. I[{y}] = g[y]
  BY <1>4, <1>5
<1> QED
  BY <1>1, <1>2, <1>6, SumOfAllIs

LEMMA SumOfIs ==
  ASSUME NEW D, IsFiniteSet(D), NEW f, DOMAIN f = D, \A x \in D : f[x] \in Int
  PROVE  SumOf(f) = SumOfAll(f, D) /\ SumOf(f) \in Int
<1> DEFINE J == CHOOSE I : IsSum(I, f, D)
<1>1. SumOf(f) = SumOfAll(f, D)
  BY Zenon DEF SumOf, MapThenSumSet, MapThenFoldSet, SumOfAll, IsSum
<1> QED
  BY <1>1, SumOfAllIs

LEMMA RangesFinite == \A n \in {2, 3, 4, 6, 8} : IsFiniteSet(1 .. n)
BY FS_Interval

LEMMA FourFinite ==
  /\ \A a, b : IsFiniteSet({a, b})
  /\ \A a, b, c, d : IsFiniteSet({a, b, c, d})
<1>1. ASSUME NEW a, NEW b
      PROVE  IsFiniteSet({a, b})
  <2>1. {a, b} = {a} \cup {b}
    OBVIOUS
  <2>2. IsFiniteSet({a}) /\ IsFiniteSet({b})
    BY FS_Singleton, Zenon
  <2> QED
    BY <2>1, <2>2, FS_Union, Zenon
<1>2. ASSUME NEW a, NEW b, NEW c, NEW d
      PROVE  IsFiniteSet({a, b, c, d})
  <2>1. {a, b, c, d} = {a, b} \cup {c, d}
    OBVIOUS
  <2>2. IsFiniteSet({a, b}) /\ IsFiniteSet({c, d})
    BY <1>1, Zenon
  <2> QED
    BY <2>1, <2>2, FS_Union, Zenon
<1> QED
  BY <1>1, <1>2

LEMMA FeaturesFinite == IsFiniteSet(Features)
<1> DEFINE A == {"disc_difference", "mobility", "potential_mobility", "corner_occupancy"}
           B == {"corner_access", "x_square_danger", "frontier", "corner_local_2x3"}
           C == {"corner_2x3_pattern", "edge_stability_lite", "edge_8_pattern", "pattern_table"}
<1>1. Features = A \cup B \cup C
  BY DEF Features
<1>2. IsFiniteSet(A) /\ IsFiniteSet(B) /\ IsFiniteSet(C)
  BY FourFinite
<1> HIDE DEF A, B, C
<1>3. IsFiniteSet(A \cup B)
  BY <1>2, FS_Union
<1> QED
  BY <1>1, <1>2, <1>3, FS_Union

LEMMA FamiliesFinite == IsFiniteSet(Families)
<1> DEFINE A == {"corner_2x3", "corner_3x3", "edge_8", "edge_x_10"}
           B == {"row_8", "column_8", "diagonal_4", "diagonal_5"}
           C == {"diagonal_6", "diagonal_7", "diagonal_8", "inner_row_8"}
           D == {"corner_2x4", "corner_2x4"}
<1>1. Families = A \cup B \cup C \cup D
  BY DEF Families, PatternSquares
<1>2. IsFiniteSet(A) /\ IsFiniteSet(B) /\ IsFiniteSet(C) /\ IsFiniteSet(D)
  BY FourFinite
<1> HIDE DEF A, B, C, D
<1>3. IsFiniteSet(A \cup B)
  BY <1>2, FS_Union
<1>4. IsFiniteSet(A \cup B \cup C)
  BY <1>2, <1>3, FS_Union
<1> QED
  BY <1>1, <1>2, <1>4, FS_Union

LEMMA InstancesFinite ==
  ASSUME NEW family \in Families
  PROVE  IsFiniteSet(DOMAIN PatternSquares[family])
<1> DEFINE Four(x) == \E a, b, c, d : x = <<a, b, c, d>>
<1>1. \A x : Four(x) => DOMAIN x = 1 .. 4
  OBVIOUS
<1>2. /\ Four(PatternSquares["corner_2x3"])
      /\ Four(PatternSquares["corner_3x3"])
      /\ Four(PatternSquares["edge_8"])
      /\ Four(PatternSquares["edge_x_10"])
      /\ Four(PatternSquares["diagonal_4"])
      /\ Four(PatternSquares["diagonal_5"])
      /\ Four(PatternSquares["diagonal_6"])
      /\ Four(PatternSquares["diagonal_7"])
      /\ Four(PatternSquares["inner_row_8"])
      /\ Four(PatternSquares["corner_2x4"])
  <2>1. Four(PatternSquares["corner_2x3"])
    BY Zenon DEF PatternSquares, Corner2x3Squares
  <2>2. Four(PatternSquares["corner_3x3"])
    BY Zenon DEF PatternSquares
  <2>3. Four(PatternSquares["edge_8"])
    BY Zenon DEF PatternSquares
  <2>4. Four(PatternSquares["edge_x_10"])
    BY Zenon DEF PatternSquares, EdgeX10Squares
  <2>5. Four(PatternSquares["diagonal_4"])
    BY Zenon DEF PatternSquares
  <2>6. Four(PatternSquares["diagonal_5"])
    BY Zenon DEF PatternSquares
  <2>7. Four(PatternSquares["diagonal_6"])
    BY Zenon DEF PatternSquares
  <2>8. Four(PatternSquares["diagonal_7"])
    BY Zenon DEF PatternSquares
  <2>9. Four(PatternSquares["inner_row_8"])
    BY Zenon DEF PatternSquares
  <2>10. Four(PatternSquares["corner_2x4"])
    BY Zenon DEF PatternSquares
  <2> QED
    BY <2>1, <2>2, <2>3, <2>4, <2>5, <2>6, <2>7, <2>8, <2>9, <2>10
<1>3. DOMAIN PatternSquares["diagonal_8"] = 1 .. 2
  <2>1. PatternSquares["diagonal_8"] = <<Line8(0, 9), Line8(7, 7)>>
    BY Zenon DEF PatternSquares
  <2> QED
    BY <2>1
<1>4. DOMAIN PatternSquares["row_8"] = 1 .. 8 /\ DOMAIN PatternSquares["column_8"] = 1 .. 8
  BY Zenon DEF PatternSquares
<1>5. family \in {"corner_2x3", "corner_3x3", "edge_8", "edge_x_10", "row_8", "column_8", "diagonal_4",
                  "diagonal_5", "diagonal_6", "diagonal_7", "diagonal_8", "inner_row_8", "corner_2x4"}
  BY DEF Families, PatternSquares
<1> HIDE DEF Four
<1>6. DOMAIN PatternSquares[family] \in {1 .. 2, 1 .. 4, 1 .. 8}
  BY <1>1, <1>2, <1>3, <1>4, <1>5
<1> QED
  BY <1>6, RangesFinite

LEMMA SignedIs == \A index, k : Signed(index, k) \in {-1, 0, 1}
BY DEF Signed

LEMMA ClampTyped == \A v, b \in Int : Clamp(v, b) \in Int
BY DEF Clamp

LEMMA Corner2x3Typed == \A index : Corner2x3RuleValue(index) \in Int
<1> SUFFICES ASSUME NEW index
             PROVE  Corner2x3RuleValue(index) \in Int
  OBVIOUS
<1> DEFINE c(k) == Signed(index, k)
<1>1. \A k : c(k) \in Int
  BY SignedIs
<1> DEFINE c0 == c(0) c1 == c(1) c2 == c(2) c3 == c(3) c4 == c(4) c5 == c(5)
           v == IF c0 = 0 THEN -(c1 + c3) - 3 * c4 - c2 ELSE 4 * c0 + (c1 + c3) + c2 + c5
<1>2. Corner2x3RuleValue(index) = Clamp(v, 6)
  BY Zenon DEF Corner2x3RuleValue
<1>3. c0 \in Int /\ c1 \in Int /\ c2 \in Int /\ c3 \in Int /\ c4 \in Int /\ c5 \in Int
  BY <1>1
<1> HIDE DEF c0, c1, c2, c3, c4, c5
<1>4. v \in Int
  BY <1>3
<1> HIDE DEF v
<1> QED
  BY <1>2, <1>4, ClampTyped

LEMMA FromCornerTyped ==
  ASSUME NEW cell, \A k \in 0 .. 7 : cell[k] \in Int
  PROVE  FromCorner(cell) \in Int
<1> DEFINE chain == { k \in 1 .. 3 : \A j \in 1 .. k : cell[j] = cell[0] }
           n == Cardinality(chain)
<1>1. IsFiniteSet(1 .. 3)
  BY RangesFinite
<1>2. n \in Int
  BY <1>1, FS_Subset, FS_CardinalityType
<1> HIDE DEF n
<1>3. cell[0] \in Int /\ cell[1] \in Int /\ cell[2] \in Int
  OBVIOUS
<1> QED
  BY <1>2, <1>3 DEF FromCorner, n

LEMMA Edge8Typed == \A index : Edge8RuleValue(index) \in Int
<1> SUFFICES ASSUME NEW index
             PROVE  Edge8RuleValue(index) \in Int
  OBVIOUS
<1> DEFINE cell == [k \in 0 .. 7 |-> Signed(index, k)]
           reversed == [k \in 0 .. 7 |-> cell[7 - k]]
           sum == SumOf([k \in 1 .. 6 |-> cell[k]])
           inner == IF cell[0] = 0 /\ cell[7] = 0 THEN sum ELSE 0
           full == IF \A k \in 1 .. 7 : cell[k] = cell[0] THEN 3 * cell[0] ELSE 0
           v == 2 * (cell[0] + cell[7]) + FromCorner(cell) + FromCorner(reversed) - inner + full
<1>1. \A k \in 0 .. 7 : cell[k] \in Int
  BY SignedIs
<1>2. \A k \in 0 .. 7 : reversed[k] \in Int
  BY <1>1
<1>3. Edge8RuleValue(index) = Clamp(v, 10)
  BY Zenon DEF Edge8RuleValue
<1> HIDE DEF cell
<1>4. sum \in Int
  <2> DEFINE part == [k \in 1 .. 6 |-> cell[k]]
  <2>1. IsFiniteSet(1 .. 6) /\ DOMAIN part = 1 .. 6 /\ \A k \in 1 .. 6 : part[k] \in Int
    BY <1>1, RangesFinite
  <2> HIDE DEF part
  <2>2. SumOf(part) \in Int
    BY <2>1, SumOfIs
  <2> QED
    BY <2>2 DEF part
<1> HIDE DEF sum, reversed
<1>5. FromCorner(cell) \in Int /\ FromCorner(reversed) \in Int
  BY <1>1, <1>2, FromCornerTyped
<1>6. inner \in Int /\ full \in Int /\ cell[0] + cell[7] \in Int
  BY <1>1, <1>4
<1> HIDE DEF inner, full
<1>7. v \in Int
  BY <1>5, <1>6
<1> HIDE DEF v
<1> QED
  BY <1>3, <1>7, ClampTyped

LEMMA SumOfTyped ==
  ASSUME NEW f, IsFiniteSet(DOMAIN f), \A x \in DOMAIN f : f[x] \in Int
  PROVE  SumOf(f) \in Int
<1> DEFINE D == DOMAIN f
<1>1. IsFiniteSet(D) /\ DOMAIN f = D /\ \A x \in D : f[x] \in Int
  OBVIOUS
<1> HIDE DEF D
<1> QED
  BY <1>1, SumOfIs

LEMMA IndexesAre ==
  ASSUME NEW player, NEW opp, NEW family \in Families
  PROVE  IsFiniteSet(DOMAIN PatternIndexes(player, opp, family))
<1>1. DOMAIN PatternIndexes(player, opp, family) = DOMAIN PatternSquares[family]
  BY Zenon DEF PatternIndexes
<1> QED
  BY <1>1, InstancesFinite

LEMMA RuleSumsTyped ==
  ASSUME NEW player, NEW opp
  PROVE  /\ SumOfEntries(PatternIndexes(player, opp, "corner_2x3"), Corner2x3RuleValue) \in Int
         /\ SumOfEntries(PatternIndexes(player, opp, "edge_8"), Edge8RuleValue) \in Int
<1>1. "corner_2x3" \in Families /\ "edge_8" \in Families
  BY DEF Families, PatternSquares
<1>2. ASSUME NEW indexes, IsFiniteSet(DOMAIN indexes)
      PROVE  SumOfEntries(indexes, Corner2x3RuleValue) \in Int
  <2> DEFINE f == [i \in DOMAIN indexes |-> Corner2x3RuleValue(indexes[i])]
  <2>1. SumOfEntries(indexes, Corner2x3RuleValue) = SumOf(f)
    BY DEF SumOfEntries
  <2>2. IsFiniteSet(DOMAIN f) /\ \A x \in DOMAIN f : f[x] \in Int
    BY <1>2, Corner2x3Typed
  <2> HIDE DEF f
  <2> QED
    BY <2>1, <2>2, SumOfTyped
<1>3. ASSUME NEW indexes, IsFiniteSet(DOMAIN indexes)
      PROVE  SumOfEntries(indexes, Edge8RuleValue) \in Int
  <2> DEFINE f == [i \in DOMAIN indexes |-> Edge8RuleValue(indexes[i])]
  <2>1. SumOfEntries(indexes, Edge8RuleValue) = SumOf(f)
    BY DEF SumOfEntries
  <2>2. IsFiniteSet(DOMAIN f) /\ \A x \in DOMAIN f : f[x] \in Int
    BY <1>3, Edge8Typed
  <2> HIDE DEF f
  <2> QED
    BY <2>1, <2>2, SumOfTyped
<1> QED
  BY <1>1, <1>2, <1>3, IndexesAre

(***************************************************************************)
(* Learned tables.                                                         *)
(***************************************************************************)
\* Numbers, and nothing else, to weigh a board with.
IntegerTable(bundle) ==
  \A family \in Families : \A index \in DOMAIN bundle[family] : bundle[family][index] \in Int
NoneOrOne(tables) == tables = {} \/ \E bundle : tables = {bundle} /\ IntegerTable(bundle)
IntegerTables(config) ==
  NoneOrOne(config.pattern_tables) /\ \A p \in Phases : NoneOrOne(config.phase_tables[p])
Weighable(config) ==
  IntegerTables(config) /\ \A p \in Phases, f \in Features : config.weights[p][f] \in Int

LEMMA TableScoreTyped ==
  ASSUME NEW player, NEW opp, NEW bundle, IntegerTable(bundle)
  PROVE  PatternTableScore(player, opp, bundle) \in Int
<1> DEFINE Entry(family, index) == TableEntry(bundle, family, index)
           Own(family) == SumOfEntries(PatternIndexes(player, opp, family), LAMBDA index : TableEntry(bundle, family, index))
           f == [family \in ActiveFamilies(bundle) |-> Own(family)]
<1>1. PatternTableScore(player, opp, bundle) = SumOf(f)
  BY Zenon DEF PatternTableScore
<1>2. ActiveFamilies(bundle) \subseteq Families
  BY DEF ActiveFamilies
<1>3. IsFiniteSet(ActiveFamilies(bundle))
  BY <1>2, FamiliesFinite, FS_Subset
<1>4. ASSUME NEW family \in Families
      PROVE  Own(family) \in Int
  <2> DEFINE indexes == PatternIndexes(player, opp, family)
             e == [i \in DOMAIN indexes |-> TableEntry(bundle, family, indexes[i])]
  <2>1. Own(family) = SumOf(e)
    BY Zenon DEF SumOfEntries
  <2>2. \A index : TableEntry(bundle, family, index) \in Int
    BY DEF TableEntry, IntegerTable
  <2>3. IsFiniteSet(DOMAIN indexes)
    BY IndexesAre
  <2>4. DOMAIN e = DOMAIN indexes
    OBVIOUS
  <2>5. \A i \in DOMAIN e : e[i] \in Int
    BY <2>2
  <2> HIDE DEF e, indexes, Own
  <2> QED
    BY <2>1, <2>3, <2>4, <2>5, SumOfTyped
<1> HIDE DEF Own
<1>5. DOMAIN f = ActiveFamilies(bundle) /\ \A x \in DOMAIN f : f[x] \in Int
  BY <1>2, <1>4
<1> HIDE DEF f
<1> QED
  BY <1>1, <1>3, <1>5, SumOfTyped

TablesSum(player, opp, config, phase) ==
  SumOf([b \in TablesFor(config, phase) |-> PatternTableScore(player, opp, b)])

LEMMA TablesSumTyped ==
  ASSUME NEW player, NEW opp, NEW config, IntegerTables(config), NEW phase \in Phases
  PROVE  TablesSum(player, opp, config, phase) \in Int
<1> DEFINE T == TablesFor(config, phase)
           f == [b \in T |-> PatternTableScore(player, opp, b)]
<1>1. NoneOrOne(T)
  BY DEF TablesFor, IntegerTables
<1>2. IsFiniteSet(T)
  BY <1>1, FS_EmptySet, FS_Singleton DEF NoneOrOne
<1>3. \A b \in T : IntegerTable(b)
  BY <1>1 DEF NoneOrOne
<1> HIDE DEF T
<1>4. DOMAIN f = T /\ \A x \in DOMAIN f : f[x] \in Int
  BY <1>3, TableScoreTyped
<1>5. TablesSum(player, opp, config, phase) = SumOf(f)
  BY Zenon DEF TablesSum, T
<1> HIDE DEF f
<1> QED
  BY <1>2, <1>4, <1>5, SumOfTyped

(***************************************************************************)
(* What a feature is worth is a number.                                    *)
(***************************************************************************)
LEMMA DifferenceTyped ==
  ASSUME NEW S \in SUBSET Squares, NEW T \in SUBSET Squares
  PROVE  Difference(S, T) \in Int
<1>1. IsFiniteSet(S) /\ IsFiniteSet(T)
  BY SquaresFinite, FS_Subset
<1>2. Cardinality(S) \in Nat /\ Cardinality(T) \in Nat
  BY <1>1, FS_CardinalityType
<1> QED
  BY <1>2 DEF Difference

LEMMA StableAre == \A discsOf : StableEdgeSquares(discsOf) \subseteq discsOf
<1>1. ASSUME NEW discsOf, NEW ray
      PROVE  AnchoredRay(discsOf, ray) \subseteq discsOf
  <2> SUFFICES ASSUME NEW n \in 0 .. 6, \A j \in 0 .. n : ray[1] + j * ray[2] \in discsOf
               PROVE  ray[1] + n * ray[2] \in discsOf
    BY Zenon DEF AnchoredRay
  <2>1. n \in 0 .. n
    OBVIOUS
  <2> QED
    BY <2>1
<1> SUFFICES ASSUME NEW discsOf, NEW s \in StableEdgeSquares(discsOf)
             PROVE  s \in discsOf
  BY Zenon
<1>2. PICK ray : s \in AnchoredRay(discsOf, ray)
  BY Zenon DEF StableEdgeSquares
<1> QED
  BY <1>1, <1>2

LEMMA CornerLocalTyped ==
  ASSUME NEW discsOf \in SUBSET Squares, NEW occupied
  PROVE  CornerLocalValue(discsOf, occupied) \in Int
<1> DEFINE c(corner) == Cardinality(CSquares(corner) \cap discsOf)
           x(corner) == Cardinality({ s \in XSquares \cap discsOf : CornerOf(s) = corner })
           v(corner) == IF corner \notin occupied THEN -2 * x(corner) - c(corner)
                        ELSE IF corner \in discsOf THEN c(corner) ELSE 0
           f == [corner \in Corners |-> v(corner)]
<1>1. CornerLocalValue(discsOf, occupied) = SumOf(f)
  BY Zenon DEF CornerLocalValue
<1>2. ASSUME NEW corner
      PROVE  c(corner) \in Int /\ x(corner) \in Int
  <2>1. \A S : S \subseteq discsOf => Cardinality(S) \in Int
    BY SquaresFinite, FS_Subset, FS_CardinalityType
  <2> QED
    BY <2>1
<1> HIDE DEF c, x
<1>3. \A corner : v(corner) \in Int
  BY <1>2
<1> HIDE DEF v
<1>4. DOMAIN f = Corners /\ \A k \in DOMAIN f : f[k] \in Int
  BY <1>3
<1>5. IsFiniteSet(Corners)
  BY FourFinite DEF Corners
<1> HIDE DEF f
<1> QED
  BY <1>1, <1>4, <1>5, SumOfTyped

LEMMA RawValueTyped ==
  ASSUME NEW player \in SUBSET Squares, NEW opp \in SUBSET Squares, NEW config,
         IntegerTables(config), NEW phase \in Phases, NEW feature \in Features
  PROVE  RawValue(feature, player, opp, config, phase) \in Int
<1> DEFINE v == RawValue(feature, player, opp, config, phase)
           occupied == player \cup opp
           empty == EmptySquares(player, opp)
<1>1. /\ LegalMovesFor(player, opp) \in SUBSET Squares
      /\ LegalMovesFor(opp, player) \in SUBSET Squares
  BY MovesAreEmpty
<1>2. empty \in SUBSET Squares
  BY DEF EmptySquares
<1>3. CASE feature \in {"disc_difference", "mobility", "corner_occupancy", "corner_access"}
  <2>1. CASE feature = "disc_difference"
    BY <2>1, DifferenceTyped, Zenon DEF RawValue
  <2>2. CASE feature = "mobility"
    <3>1. v = Difference(LegalMovesFor(player, opp), LegalMovesFor(opp, player))
      BY <2>2 DEF RawValue
    <3> QED
      BY <1>1, <3>1, DifferenceTyped
  <2>3. CASE feature = "corner_occupancy"
    <3>1. v = Difference(player \cap Corners, opp \cap Corners)
      BY <2>3 DEF RawValue
    <3> QED
      BY <3>1, DifferenceTyped
  <2>4. CASE feature = "corner_access"
    <3>1. v = Difference(LegalMovesFor(player, opp) \cap Corners, LegalMovesFor(opp, player) \cap Corners)
      BY <2>4 DEF RawValue
    <3> QED
      BY <1>1, <3>1, DifferenceTyped
  <2> QED
    BY <1>3, <2>1, <2>2, <2>3, <2>4
<1>4. CASE feature \in {"potential_mobility", "x_square_danger", "frontier", "edge_stability_lite"}
  <2>1. CASE feature = "potential_mobility"
    <3>1. v = Difference(AdjacentSquares(opp) \cap empty, AdjacentSquares(player) \cap empty)
      BY <2>1 DEF RawValue
    <3> QED
      BY <1>2, <3>1, DifferenceTyped
  <2>2. CASE feature = "x_square_danger"
    <3>1. v = Difference(DangerousXSquares(opp, occupied), DangerousXSquares(player, occupied))
      BY <2>2 DEF RawValue
    <3>2. \A discsOf \in SUBSET Squares : DangerousXSquares(discsOf, occupied) \in SUBSET Squares
      BY DEF DangerousXSquares
    <3> QED
      BY <3>1, <3>2, DifferenceTyped
  <2>3. CASE feature = "frontier"
    <3>1. v = Difference(opp \cap AdjacentSquares(empty), player \cap AdjacentSquares(empty))
      BY <2>3 DEF RawValue
    <3> QED
      BY <3>1, DifferenceTyped
  <2>4. CASE feature = "edge_stability_lite"
    <3>1. v = Difference(StableEdgeSquares(player), StableEdgeSquares(opp))
      BY <2>4 DEF RawValue
    <3>2. StableEdgeSquares(player) \in SUBSET Squares /\ StableEdgeSquares(opp) \in SUBSET Squares
      BY StableAre
    <3> QED
      BY <3>1, <3>2, DifferenceTyped
  <2> QED
    BY <1>4, <2>1, <2>2, <2>3, <2>4
<1>5. CASE feature \in {"corner_local_2x3", "corner_2x3_pattern", "edge_8_pattern", "pattern_table"}
  <2>1. CASE feature = "corner_local_2x3"
    <3>1. v = CornerLocalValue(player, occupied) - CornerLocalValue(opp, occupied)
      BY <2>1 DEF RawValue
    <3>2. CornerLocalValue(player, occupied) \in Int /\ CornerLocalValue(opp, occupied) \in Int
      BY CornerLocalTyped
    <3> QED
      BY <3>1, <3>2
  <2>2. CASE feature = "corner_2x3_pattern"
    <3>1. v = SumOfEntries(PatternIndexes(player, opp, "corner_2x3"), Corner2x3RuleValue)
      BY <2>2 DEF RawValue
    <3> QED
      BY <3>1, RuleSumsTyped
  <2>3. CASE feature = "edge_8_pattern"
    <3>1. v = SumOfEntries(PatternIndexes(player, opp, "edge_8"), Edge8RuleValue)
      BY <2>3 DEF RawValue
    <3> QED
      BY <3>1, RuleSumsTyped
  <2>4. CASE feature = "pattern_table"
    <3>1. v = TablesSum(player, opp, config, phase)
      BY <2>4 DEF RawValue, TablesSum
    <3> QED
      BY <3>1, TablesSumTyped
  <2> QED
    BY <1>5, <2>1, <2>2, <2>3, <2>4
<1> QED
  BY <1>3, <1>4, <1>5 DEF Features

(***************************************************************************)
(* The fast path, and features that have no weight.                        *)
(***************************************************************************)
LEMMA SumsOfWeighted ==
  ASSUME NEW player \in SUBSET Squares, NEW opp \in SUBSET Squares, NEW config, IntegerTables(config),
         NEW phase \in Phases, \A f \in Features : config.weights[phase][f] \in Int,
         NEW computed \in SUBSET Features, NEW kept \in SUBSET computed,
         \A f \in computed \ kept : config.weights[phase][f] = 0
  PROVE  WeightedSum(player, opp, config, phase, computed) = WeightedSum(player, opp, config, phase, kept)
<1> DEFINE t(f) == RawValue(f, player, opp, config, phase) * config.weights[phase][f]
           g == [f \in Features |-> t(f)]
           Only(S) == [f \in S |-> t(f)]
<1>1. ASSUME NEW f \in Features
      PROVE  t(f) \in Int /\ (config.weights[phase][f] = 0 => t(f) = 0)
  <2>1. RawValue(f, player, opp, config, phase) \in Int
    BY RawValueTyped
  <2> QED
    BY <2>1
<1>2. \A S : WeightedSum(player, opp, config, phase, S) = SumOf(Only(S))
  BY Zenon DEF WeightedSum
<1> HIDE DEF t
<1>3. ASSUME NEW S \in SUBSET Features
      PROVE  SumOf(Only(S)) = SumOfAll(g, S)
  <2> DEFINE o == Only(S)
  <2>1. IsFiniteSet(S)
    BY FeaturesFinite, FS_Subset
  <2>2. DOMAIN o = S /\ \A f \in S : o[f] \in Int /\ o[f] = g[f]
    BY <1>1
  <2>3. \A f \in S : g[f] \in Int
    BY <1>1
  <2> HIDE DEF o, g
  <2>4. SumOf(o) = SumOfAll(o, S)
    BY <2>1, <2>2, SumOfIs
  <2>5. SumOfAll(o, S) = SumOfAll(g, S)
    <3>1. PICK I : IsSum(I, o, S)
      BY <2>1, SumExists
    <3>2. IsSum(I, g, S)
      <4> DEFINE B(f, s) == IF s = {} THEN 0 ELSE LET x == CHOOSE x \in s : TRUE IN f[x] + I[s \ {x}]
      <4>1. \A s \in SUBSET S : B(o, s) = B(g, s)
        BY <2>2, SomeElement
      <4>2. I = [s \in SUBSET S |-> B(o, s)]
        BY <3>1, Zenon DEF IsSum
      <4>3. IsSum(I, g, S) <=> I = [s \in SUBSET S |-> B(g, s)]
        BY Zenon DEF IsSum
      <4> HIDE DEF B
      <4> QED
        BY <4>1, <4>2, <4>3
    <3>3. I[S] = SumOfAll(o, S)
      BY <2>1, <2>2, <3>1, SumOfAllIs
    <3>4. I[S] = SumOfAll(g, S)
      BY <2>1, <2>3, <3>2, SumOfAllIs
    <3> QED
      BY <3>3, <3>4
  <2> QED
    BY <2>4, <2>5 DEF o
<1>4. \A f \in computed : g[f] \in Int
  BY <1>1
<1>5. \A f \in computed \ kept : g[f] = 0
  BY <1>1
<1>6. IsFiniteSet(computed)
  BY FeaturesFinite, FS_Subset
<1> HIDE DEF g
<1>7. SumOfAll(g, computed) = SumOfAll(g, kept)
  BY <1>4, <1>5, <1>6, SumWithoutZeros
<1> HIDE DEF Only
<1>8. kept \in SUBSET Features
  OBVIOUS
<1> QED
  BY <1>2, <1>3, <1>7, <1>8

LEMMA SumOfTables ==
  ASSUME NEW player \in SUBSET Squares, NEW opp \in SUBSET Squares, NEW config, Weighable(config),
         NEW phase \in Phases
  PROVE  WeightedSum(player, opp, config, phase, {"pattern_table"})
           = TablesSum(player, opp, config, phase) * config.weights[phase]["pattern_table"]
<1> DEFINE pt == "pattern_table"
           t(f) == RawValue(f, player, opp, config, phase) * config.weights[phase][f]
           g == [f \in {pt} |-> t(f)]
<1>1. RawValue(pt, player, opp, config, phase) = TablesSum(player, opp, config, phase)
  BY DEF RawValue, TablesSum
<1>2. pt \in Features
  BY DEF Features
<1>3. t(pt) = TablesSum(player, opp, config, phase) * config.weights[phase][pt]
  BY <1>1
<1>4. t(pt) \in Int
  <2>1. RawValue(pt, player, opp, config, phase) \in Int /\ config.weights[phase][pt] \in Int
    BY <1>2, RawValueTyped DEF Weighable
  <2> QED
    BY <2>1
<1>5. WeightedSum(player, opp, config, phase, {pt}) = SumOf(g)
  BY Zenon DEF WeightedSum
<1> HIDE DEF t
<1>6. DOMAIN g = {pt} /\ g[pt] = t(pt)
  OBVIOUS
<1>7. IsFiniteSet({pt})
  BY FS_Singleton
<1> HIDE DEF g, pt
<1>8. SumOf(g) = SumOfAll(g, {pt})
  BY <1>4, <1>6, <1>7, SumOfIs
<1>9. SumOfAll(g, {pt}) = g[pt]
  BY <1>4, <1>6, SumOfOne
<1> QED
  BY <1>3, <1>5, <1>6, <1>8, <1>9 DEF pt

\* With a fast path or without, the score is the total of the breakdown.
LEMMA ScoresAgree ==
  ASSUME NEW player \in SUBSET Squares, NEW opp \in SUBSET Squares, NEW config, Weighable(config),
         NEW fast \in SUBSET FastPathPhases(config)
  PROVE  ScoreOnly(player, opp, config, fast) = Breakdown(player, opp, config).total
<1> DEFINE phase == PhaseOf(Cardinality(player \cup opp), config)
           W == Weighted(config, phase)
           Sum(S) == WeightedSum(player, opp, config, phase, S)
           total == Breakdown(player, opp, config).total
           score == ScoreOnly(player, opp, config, fast)
<1>1. phase \in Phases
  BY DEF PhaseOf, Phases
<1>2. total = IF GameOver(player, opp) THEN TerminalScore(player, opp) ELSE Sum(W \cup ShownUnweighted)
  BY DEF Breakdown
<1>3. score = IF phase \in fast THEN FastPathScore(player, opp, config, phase)
              ELSE IF GameOver(player, opp) THEN TerminalScore(player, opp) ELSE Sum(W)
  BY Zenon DEF ScoreOnly
<1>4. FastPathScore(player, opp, config, phase)
        = IF GameOver(player, opp) THEN TerminalScore(player, opp)
          ELSE TablesSum(player, opp, config, phase) * config.weights[phase]["pattern_table"]
  BY Zenon DEF FastPathScore, TablesSum
<1>5. phase \in fast => W \subseteq {"pattern_table"}
  BY DEF FastPathPhases
<1> HIDE DEF phase
<1>6. W \in SUBSET Features /\ W \cup ShownUnweighted \in SUBSET Features /\ {"pattern_table"} \in SUBSET Features
  BY DEF Weighted, ShownUnweighted, Features
<1>7. \A f \in Features \ W : config.weights[phase][f] = 0
  BY DEF Weighted
<1>8. IntegerTables(config) /\ \A f \in Features : config.weights[phase][f] \in Int
  BY <1>1 DEF Weighable
<1> HIDE DEF W
<1>9. Sum(W \cup ShownUnweighted) = Sum(W)
  <2>1. \A f \in (W \cup ShownUnweighted) \ W : config.weights[phase][f] = 0
    BY <1>6, <1>7
  <2> QED
    BY <1>1, <1>6, <1>8, <2>1, SumsOfWeighted
<1>10. ASSUME phase \in fast
       PROVE  Sum(W) = TablesSum(player, opp, config, phase) * config.weights[phase]["pattern_table"]
  <2>1. \A f \in {"pattern_table"} \ W : config.weights[phase][f] = 0
    BY <1>6, <1>7
  <2>2. W \in SUBSET {"pattern_table"}
    BY <1>5, <1>10
  <2>3. Sum({"pattern_table"}) = Sum(W)
    BY <1>1, <1>6, <1>8, <2>1, <2>2, SumsOfWeighted
  <2> QED
    BY <1>1, <2>3, SumOfTables
<1> HIDE DEF Sum, total, score
<1>11. score = total
  BY <1>2, <1>3, <1>4, <1>9, <1>10
<1> QED
  BY <1>11 DEF score, total

LEMMA EvaluatesTotal ==
  ASSUME NEW player \in SUBSET Squares, NEW opp \in SUBSET Squares, NEW config, Weighable(config)
  PROVE  Evaluate(player, opp, config) = Breakdown(player, opp, config).total
<1>1. {} \in SUBSET FastPathPhases(config)
  OBVIOUS
<1> QED
  BY <1>1, ScoresAgree DEF Evaluate

(***************************************************************************)
(* Patterns: the index of a few squares is their states to base 3.         *)
(***************************************************************************)
Running(I, n, a) == I = [k \in 0 .. n |-> IF k = 0 THEN 0 ELSE I[k - 1] + a[k]]

LEMMA RunningExists ==
  ASSUME NEW n \in Nat, NEW a
  PROVE  \E I : Running(I, n, a)
<1> DEFINE T == { m \in Nat : ~\E I : Running(I, m, a) }
<1> SUFFICES ASSUME T # {}
             PROVE  FALSE
  OBVIOUS
<1>1. PICK m \in T : \A k \in T : m <= k
  <2>1. T \in SUBSET Nat
    OBVIOUS
  <2> HIDE DEF T
  <2> QED
    BY <2>1, LeastElement
<1>2. CASE m = 0
  <2> DEFINE I == [k \in 0 .. 0 |-> 0]
  <2>1. \A k \in 0 .. 0 : k = 0
    OBVIOUS
  <2>2. Running(I, 0, a)
    BY <2>1 DEF Running
  <2> QED
    BY <1>2, <2>2
<1>3. CASE m # 0
  <2>1. m - 1 \in Nat /\ m - 1 \notin T
    BY <1>1, <1>3
  <2>2. PICK I : Running(I, m - 1, a)
    BY <2>1
  <2> DEFINE J == [k \in 0 .. m |-> IF k = m THEN I[m - 1] + a[m] ELSE I[k]]
  <2>3. \A k \in 0 .. m - 1 : I[k] = IF k = 0 THEN 0 ELSE I[k - 1] + a[k]
    BY <2>2 DEF Running
  <2>4. ASSUME NEW k \in 0 .. m
        PROVE  J[k] = IF k = 0 THEN 0 ELSE J[k - 1] + a[k]
    <3>1. CASE k = m
      <4>1. J[k] = I[m - 1] + a[m] /\ J[k - 1] = I[m - 1] /\ k # 0
        BY <1>3, <2>1, <3>1
      <4> QED
        BY <3>1, <4>1
    <3>2. CASE k # m
      <4>1. k \in 0 .. m - 1 /\ J[k] = I[k] /\ (k # 0 => k - 1 \in 0 .. m - 1 /\ J[k - 1] = I[k - 1])
        BY <2>1, <3>2
      <4> QED
        BY <2>3, <4>1
    <3> QED
      BY <3>1, <3>2
  <2>5. J = [k \in 0 .. m |-> J[k]]
    OBVIOUS
  <2> HIDE DEF J
  <2>6. Running(J, m, a)
    BY <2>4, <2>5 DEF Running
  <2> QED
    BY <1>1, <2>6
<1> QED
  BY <1>2, <1>3

\* The index is a running sum of its digits.
Sums(I, player, opp, squares, n) ==
  /\ PatternIndex(player, opp, squares) = I[n] /\ I[0] = 0
  /\ \A k \in 1 .. n : I[k] = I[k - 1] + CellState(player, opp, squares[k]) * 3 ^ (k - 1)

LEMMA IndexRuns ==
  ASSUME NEW player, NEW opp, NEW squares, NEW n \in Nat, Len(squares) = n
  PROVE  \E I : Sums(I, player, opp, squares, n)
<1> DEFINE a == [k \in 1 .. n |-> CellState(player, opp, squares[k]) * 3 ^ (k - 1)]
           R(I) == I = [k \in 0 .. n |-> IF k = 0 THEN 0
                          ELSE I[k - 1] + CellState(player, opp, squares[k]) * 3 ^ (k - 1)]
           I == CHOOSE I : R(I)
<1>1. PatternIndex(player, opp, squares) = I[n]
  BY Zenon DEF PatternIndex
<1>2. \E J : R(J)
  <2>1. PICK J : Running(J, n, a)
    BY RunningExists
  <2> DEFINE B(k) == IF k = 0 THEN 0 ELSE J[k - 1] + CellState(player, opp, squares[k]) * 3 ^ (k - 1)
             C(k) == IF k = 0 THEN 0 ELSE J[k - 1] + a[k]
  <2>2. \A k \in 0 .. n : B(k) = C(k)
    <3>1. \A k \in 0 .. n : k # 0 => k \in 1 .. n
      OBVIOUS
    <3> QED
      BY <3>1, Zenon
  <2>3. J = [k \in 0 .. n |-> C(k)]
    BY <2>1, Zenon DEF Running
  <2>4. R(J) <=> J = [k \in 0 .. n |-> B(k)]
    BY Zenon
  <2> HIDE DEF B, C, R
  <2> QED
    BY <2>2, <2>3, <2>4
<1> HIDE DEF R
<1>3. R(I)
  BY <1>2, Zenon
<1> HIDE DEF I
<1>4. \A k \in 0 .. n : I[k] = IF k = 0 THEN 0 ELSE I[k - 1] + CellState(player, opp, squares[k]) * 3 ^ (k - 1)
  BY <1>3, Zenon DEF R
<1>5. 0 \in 0 .. n /\ \A k \in 1 .. n : k \in 0 .. n /\ k # 0
  OBVIOUS
<1>6. I[0] = 0 /\ \A k \in 1 .. n : I[k] = I[k - 1] + CellState(player, opp, squares[k]) * 3 ^ (k - 1)
  BY <1>4, <1>5, Zenon
<1> QED
  BY <1>1, <1>6 DEF Sums

\* A quotient loses what stands below it.
LEMMA DivAt ==
  ASSUME NEW p \in Nat \ {0}, NEW low \in Nat, low < p, NEW m \in Nat
  PROVE  (low + p * m) \div p = m
<1> DEFINE x == low + p * m
           q == x \div p
<1>1. p * m \in Nat
  OBVIOUS
<1>2. x \in Nat /\ q \in Nat /\ p * q <= x /\ x < p * q + p
  BY <1>1
<1>3. p * m <= x /\ x < p * m + p
  BY <1>1
<1> HIDE DEF x, q
<1>4. ~(m < q)
  <2> SUFFICES ASSUME m < q
               PROVE  FALSE
    OBVIOUS
  <2>1. PICK n \in Nat : q = m + 1 + n
    <3>1. q - m - 1 \in Nat /\ q = m + 1 + (q - m - 1)
      BY <1>2
    <3> QED
      BY <3>1
  <2>2. p * q = p * m + p + p * n /\ p * n \in Nat
    BY <2>1
  <2> QED
    BY <1>1, <1>2, <1>3, <2>2
<1>5. ~(q < m)
  <2> SUFFICES ASSUME q < m
               PROVE  FALSE
    OBVIOUS
  <2>1. PICK n \in Nat : m = q + 1 + n
    <3>1. m - q - 1 \in Nat /\ m = q + 1 + (m - q - 1)
      BY <1>2
    <3> QED
      BY <3>1
  <2>2. p * m = p * q + p + p * n /\ p * n \in Nat /\ p * q \in Nat
    BY <1>2, <2>1
  <2> QED
    BY <1>1, <1>2, <1>3, <2>2
<1> QED
  BY <1>2, <1>4, <1>5 DEF x, q

\* A digit, with what stands below it and above it.
LEMMA DigitAt ==
  ASSUME NEW p \in Nat \ {0}, NEW low \in Nat, low < p,
         NEW d \in 0 .. 2, NEW high \in Nat, NEW index, index = low + p * (d + 3 * high)
  PROVE  (index \div p) % 3 = d
<1> DEFINE m == d + 3 * high
<1>1. m \in Nat /\ m % 3 = d
  OBVIOUS
<1>0. index = low + p * m
  OBVIOUS
<1> HIDE DEF m
<1>2. (low + p * m) \div p = m
  BY <1>1, DivAt
<1> QED
  BY <1>0, <1>1, <1>2

\* An index of ten states, the lowest first.
OfDigits(index, a) ==
  /\ \A k \in 0 .. 9 : a[k] \in 0 .. 2
  /\ index = a[0] + 3 * a[1] + 9 * a[2] + 27 * a[3] + 81 * a[4] + 243 * a[5] + 729 * a[6]
               + 2187 * a[7] + 6561 * a[8] + 19683 * a[9]

LEMMA TenDigits ==
  ASSUME NEW a, NEW index, OfDigits(index, a)
  PROVE  \A k \in 0 .. 9 : Digit(index, k) = a[k]
<1> DEFINE a0 == a[0] a1 == a[1] a2 == a[2] a3 == a[3] a4 == a[4] a5 == a[5] a6 == a[6] a7 == a[7] a8 == a[8] a9 == a[9]
<1>1. \A k \in 0 .. 9 : a[k] \in 0 .. 2
  BY DEF OfDigits
<1>2. /\ a0 \in 0 .. 2 /\ a1 \in 0 .. 2 /\ a2 \in 0 .. 2 /\ a3 \in 0 .. 2 /\ a4 \in 0 .. 2
      /\ a5 \in 0 .. 2 /\ a6 \in 0 .. 2 /\ a7 \in 0 .. 2 /\ a8 \in 0 .. 2 /\ a9 \in 0 .. 2
  BY <1>1
<1>3. index = a0 + 3 * a1 + 9 * a2 + 27 * a3 + 81 * a4 + 243 * a5 + 729 * a6
                + 2187 * a7 + 6561 * a8 + 19683 * a9
  BY DEF OfDigits
<1> HIDE DEF a0, a1, a2, a3, a4, a5, a6, a7, a8, a9
<1>4. Digit(index, 0) = a0
  <2> DEFINE low == 0
             high == a1 + 3 * a2 + 9 * a3 + 27 * a4 + 81 * a5 + 243 * a6 + 729 * a7 + 2187 * a8 + 6561 * a9
  <2>1. low \in Nat /\ low < 1 /\ high \in Nat /\ index = low + 1 * (a0 + 3 * high)
    BY <1>2, <1>3
  <2> HIDE DEF low, high
  <2>2. PICK p \in Nat \ {0} : p = 1
    OBVIOUS
  <2>3. low < p /\ index = low + p * (a0 + 3 * high)
    BY <2>1, <2>2
  <2>4. (index \div p) % 3 = a0
    BY <1>2, <2>1, <2>3, DigitAt
  <2> QED
    BY <2>2, <2>4 DEF Digit
<1>5. Digit(index, 1) = a1
  <2> DEFINE low == a0
             high == a2 + 3 * a3 + 9 * a4 + 27 * a5 + 81 * a6 + 243 * a7 + 729 * a8 + 2187 * a9
  <2>1. low \in Nat /\ low < 3 /\ high \in Nat /\ index = low + 3 * (a1 + 3 * high)
    BY <1>2, <1>3
  <2> HIDE DEF low, high
  <2>2. PICK p \in Nat \ {0} : p = 3
    OBVIOUS
  <2>3. low < p /\ index = low + p * (a1 + 3 * high)
    BY <2>1, <2>2
  <2>4. (index \div p) % 3 = a1
    BY <1>2, <2>1, <2>3, DigitAt
  <2> QED
    BY <2>2, <2>4 DEF Digit
<1>6. Digit(index, 2) = a2
  <2> DEFINE low == a0 + 3 * a1
             high == a3 + 3 * a4 + 9 * a5 + 27 * a6 + 81 * a7 + 243 * a8 + 729 * a9
  <2>1. low \in Nat /\ low < 9 /\ high \in Nat /\ index = low + 9 * (a2 + 3 * high)
    BY <1>2, <1>3
  <2> HIDE DEF low, high
  <2>2. PICK p \in Nat \ {0} : p = 9
    OBVIOUS
  <2>3. low < p /\ index = low + p * (a2 + 3 * high)
    BY <2>1, <2>2
  <2>4. (index \div p) % 3 = a2
    BY <1>2, <2>1, <2>3, DigitAt
  <2> QED
    BY <2>2, <2>4 DEF Digit
<1>7. Digit(index, 3) = a3
  <2> DEFINE low == a0 + 3 * a1 + 9 * a2
             high == a4 + 3 * a5 + 9 * a6 + 27 * a7 + 81 * a8 + 243 * a9
  <2>1. low \in Nat /\ low < 27 /\ high \in Nat /\ index = low + 27 * (a3 + 3 * high)
    BY <1>2, <1>3
  <2> HIDE DEF low, high
  <2>2. PICK p \in Nat \ {0} : p = 27
    OBVIOUS
  <2>3. low < p /\ index = low + p * (a3 + 3 * high)
    BY <2>1, <2>2
  <2>4. (index \div p) % 3 = a3
    BY <1>2, <2>1, <2>3, DigitAt
  <2> QED
    BY <2>2, <2>4 DEF Digit
<1>8. Digit(index, 4) = a4
  <2> DEFINE low == a0 + 3 * a1 + 9 * a2 + 27 * a3
             high == a5 + 3 * a6 + 9 * a7 + 27 * a8 + 81 * a9
  <2>1. low \in Nat /\ low < 81 /\ high \in Nat /\ index = low + 81 * (a4 + 3 * high)
    BY <1>2, <1>3
  <2> HIDE DEF low, high
  <2>2. PICK p \in Nat \ {0} : p = 81
    OBVIOUS
  <2>3. low < p /\ index = low + p * (a4 + 3 * high)
    BY <2>1, <2>2
  <2>4. (index \div p) % 3 = a4
    BY <1>2, <2>1, <2>3, DigitAt
  <2> QED
    BY <2>2, <2>4 DEF Digit
<1>9. Digit(index, 5) = a5
  <2> DEFINE low == a0 + 3 * a1 + 9 * a2 + 27 * a3 + 81 * a4
             high == a6 + 3 * a7 + 9 * a8 + 27 * a9
  <2>1. low \in Nat /\ low < 243 /\ high \in Nat /\ index = low + 243 * (a5 + 3 * high)
    BY <1>2, <1>3
  <2> HIDE DEF low, high
  <2>2. PICK p \in Nat \ {0} : p = 243
    OBVIOUS
  <2>3. low < p /\ index = low + p * (a5 + 3 * high)
    BY <2>1, <2>2
  <2>4. (index \div p) % 3 = a5
    BY <1>2, <2>1, <2>3, DigitAt
  <2> QED
    BY <2>2, <2>4 DEF Digit
<1>10. Digit(index, 6) = a6
  <2> DEFINE low == a0 + 3 * a1 + 9 * a2 + 27 * a3 + 81 * a4 + 243 * a5
             high == a7 + 3 * a8 + 9 * a9
  <2>1. low \in Nat /\ low < 729 /\ high \in Nat /\ index = low + 729 * (a6 + 3 * high)
    BY <1>2, <1>3
  <2> HIDE DEF low, high
  <2>2. PICK p \in Nat \ {0} : p = 729
    OBVIOUS
  <2>3. low < p /\ index = low + p * (a6 + 3 * high)
    BY <2>1, <2>2
  <2>4. (index \div p) % 3 = a6
    BY <1>2, <2>1, <2>3, DigitAt
  <2> QED
    BY <2>2, <2>4 DEF Digit
<1>11. Digit(index, 7) = a7
  <2> DEFINE low == a0 + 3 * a1 + 9 * a2 + 27 * a3 + 81 * a4 + 243 * a5 + 729 * a6
             high == a8 + 3 * a9
  <2>1. low \in Nat /\ low < 2187 /\ high \in Nat /\ index = low + 2187 * (a7 + 3 * high)
    BY <1>2, <1>3
  <2> HIDE DEF low, high
  <2>2. PICK p \in Nat \ {0} : p = 2187
    OBVIOUS
  <2>3. low < p /\ index = low + p * (a7 + 3 * high)
    BY <2>1, <2>2
  <2>4. (index \div p) % 3 = a7
    BY <1>2, <2>1, <2>3, DigitAt
  <2> QED
    BY <2>2, <2>4 DEF Digit
<1>12. Digit(index, 8) = a8
  <2> DEFINE low == a0 + 3 * a1 + 9 * a2 + 27 * a3 + 81 * a4 + 243 * a5 + 729 * a6 + 2187 * a7
             high == a9
  <2>1. low \in Nat /\ low < 6561 /\ high \in Nat /\ index = low + 6561 * (a8 + 3 * high)
    BY <1>2, <1>3
  <2> HIDE DEF low, high
  <2>2. PICK p \in Nat \ {0} : p = 6561
    OBVIOUS
  <2>3. low < p /\ index = low + p * (a8 + 3 * high)
    BY <2>1, <2>2
  <2>4. (index \div p) % 3 = a8
    BY <1>2, <2>1, <2>3, DigitAt
  <2> QED
    BY <2>2, <2>4 DEF Digit
<1>13. Digit(index, 9) = a9
  <2> DEFINE low == a0 + 3 * a1 + 9 * a2 + 27 * a3 + 81 * a4 + 243 * a5 + 729 * a6 + 2187 * a7 + 6561 * a8
             high == 0
  <2>1. low \in Nat /\ low < 19683 /\ high \in Nat /\ index = low + 19683 * (a9 + 3 * high)
    BY <1>2, <1>3
  <2> HIDE DEF low, high
  <2>2. PICK p \in Nat \ {0} : p = 19683
    OBVIOUS
  <2>3. low < p /\ index = low + p * (a9 + 3 * high)
    BY <2>1, <2>2
  <2>4. (index \div p) % 3 = a9
    BY <1>2, <2>1, <2>3, DigitAt
  <2> QED
    BY <2>2, <2>4 DEF Digit
<1>14. \A k \in 0 .. 9 : k \in {0, 1, 2, 3, 4, 5, 6, 7, 8, 9}
  OBVIOUS
<1> QED
  BY <1>4, <1>5, <1>6, <1>7, <1>8, <1>9, <1>10, <1>11, <1>12, <1>13, <1>14 DEF a0, a1, a2, a3, a4, a5, a6, a7, a8, a9

\* Each digit of an index is the state of its square (pattern_index_for_squares).
DigitsTell(player, opp, squares, n) ==
  \A k \in 0 .. n - 1 :
    Digit(PatternIndex(player, opp, squares), k) = CellState(player, opp, squares[k + 1])

LEMMA StatesAre == \A player, opp, s : CellState(player, opp, s) \in 0 .. 2
BY DEF CellState

\* The states of the squares of a pattern, and none above them.
StatesOf(player, opp, squares, n) ==
  [k \in 0 .. 9 |-> IF k < n THEN CellState(player, opp, squares[k + 1]) ELSE 0]

LEMMA IndexOfStates ==
  ASSUME NEW player, NEW opp, NEW squares, NEW n \in 0 .. 10, Len(squares) = n
  PROVE  OfDigits(PatternIndex(player, opp, squares), StatesOf(player, opp, squares, n))
<1> DEFINE a == StatesOf(player, opp, squares, n)
           s(k) == CellState(player, opp, squares[k])
           index == PatternIndex(player, opp, squares)
<1>1. \A k \in 0 .. 9 : a[k] = (IF k < n THEN s(k + 1) ELSE 0) /\ a[k] \in 0 .. 2
  BY StatesAre DEF StatesOf
<1>2. PICK I : Sums(I, player, opp, squares, n)
  BY IndexRuns
<1>3. index = I[n] /\ I[0] = 0 /\ \A k \in 1 .. n : I[k] = I[k - 1] + s(k) * 3 ^ (k - 1)
  BY <1>2 DEF Sums
<1> DEFINE J(k) == IF k < n THEN I[k] ELSE I[n]
<1> HIDE DEF a, s, index
<1>4. J(0) = 0 /\ J(10) = index
  BY <1>3
<1>5. J(1) = J(0) + a[0] /\ J(1) \in Int
  <2>1. a[0] \in 0 .. 2 /\ a[0] = (IF 0 < n THEN s(1) ELSE 0)
    BY <1>1
  <2>2. ASSUME 0 < n
        PROVE  I[1] = I[0] + s(1) * 1
    <3>1. 1 \in 1 .. n /\ 1 - 1 = 0
      BY <2>2
    <3>2. I[1] = I[0] + s(1) * 3 ^ 0
      BY <1>3, <3>1
    <3>3. 3 ^ 0 = 1
      OBVIOUS
    <3> QED
      BY <3>2, <3>3
  <2>3. CASE 0 < n
    <3>1. J(1) = I[1] /\ J(0) = I[0]
      BY <2>3
    <3> QED
      BY <1>4, <2>1, <2>2, <2>3, <3>1
  <2>4. CASE ~(0 < n)
    <3>1. J(1) = J(0)
      BY <2>4
    <3> QED
      BY <1>4, <2>1, <2>4, <3>1
  <2> QED
    BY <2>3, <2>4
<1>6. J(2) = J(1) + 3 * a[1] /\ J(2) \in Int
  <2>1. a[1] \in 0 .. 2 /\ a[1] = (IF 1 < n THEN s(2) ELSE 0)
    BY <1>1
  <2>2. ASSUME 1 < n
        PROVE  I[2] = I[1] + s(2) * 3
    <3>1. 2 \in 1 .. n /\ 2 - 1 = 1
      BY <2>2
    <3>2. I[2] = I[1] + s(2) * 3 ^ 1
      BY <1>3, <3>1
    <3>3. 3 ^ 1 = 3
      OBVIOUS
    <3> QED
      BY <3>2, <3>3
  <2>3. CASE 1 < n
    <3>1. J(2) = I[2] /\ J(1) = I[1]
      BY <2>3
    <3> QED
      BY <1>5, <2>1, <2>2, <2>3, <3>1
  <2>4. CASE ~(1 < n)
    <3>1. J(2) = J(1)
      BY <2>4
    <3> QED
      BY <1>5, <2>1, <2>4, <3>1
  <2> QED
    BY <2>3, <2>4
<1>7. J(3) = J(2) + 9 * a[2] /\ J(3) \in Int
  <2>1. a[2] \in 0 .. 2 /\ a[2] = (IF 2 < n THEN s(3) ELSE 0)
    BY <1>1
  <2>2. ASSUME 2 < n
        PROVE  I[3] = I[2] + s(3) * 9
    <3>1. 3 \in 1 .. n /\ 3 - 1 = 2
      BY <2>2
    <3>2. I[3] = I[2] + s(3) * 3 ^ 2
      BY <1>3, <3>1
    <3>3. 3 ^ 2 = 9
      OBVIOUS
    <3> QED
      BY <3>2, <3>3
  <2>3. CASE 2 < n
    <3>1. J(3) = I[3] /\ J(2) = I[2]
      BY <2>3
    <3> QED
      BY <1>6, <2>1, <2>2, <2>3, <3>1
  <2>4. CASE ~(2 < n)
    <3>1. J(3) = J(2)
      BY <2>4
    <3> QED
      BY <1>6, <2>1, <2>4, <3>1
  <2> QED
    BY <2>3, <2>4
<1>8. J(4) = J(3) + 27 * a[3] /\ J(4) \in Int
  <2>1. a[3] \in 0 .. 2 /\ a[3] = (IF 3 < n THEN s(4) ELSE 0)
    BY <1>1
  <2>2. ASSUME 3 < n
        PROVE  I[4] = I[3] + s(4) * 27
    <3>1. 4 \in 1 .. n /\ 4 - 1 = 3
      BY <2>2
    <3>2. I[4] = I[3] + s(4) * 3 ^ 3
      BY <1>3, <3>1
    <3>3. 3 ^ 3 = 27
      OBVIOUS
    <3> QED
      BY <3>2, <3>3
  <2>3. CASE 3 < n
    <3>1. J(4) = I[4] /\ J(3) = I[3]
      BY <2>3
    <3> QED
      BY <1>7, <2>1, <2>2, <2>3, <3>1
  <2>4. CASE ~(3 < n)
    <3>1. J(4) = J(3)
      BY <2>4
    <3> QED
      BY <1>7, <2>1, <2>4, <3>1
  <2> QED
    BY <2>3, <2>4
<1>9. J(5) = J(4) + 81 * a[4] /\ J(5) \in Int
  <2>1. a[4] \in 0 .. 2 /\ a[4] = (IF 4 < n THEN s(5) ELSE 0)
    BY <1>1
  <2>2. ASSUME 4 < n
        PROVE  I[5] = I[4] + s(5) * 81
    <3>1. 5 \in 1 .. n /\ 5 - 1 = 4
      BY <2>2
    <3>2. I[5] = I[4] + s(5) * 3 ^ 4
      BY <1>3, <3>1
    <3>3. 3 ^ 4 = 81
      OBVIOUS
    <3> QED
      BY <3>2, <3>3
  <2>3. CASE 4 < n
    <3>1. J(5) = I[5] /\ J(4) = I[4]
      BY <2>3
    <3> QED
      BY <1>8, <2>1, <2>2, <2>3, <3>1
  <2>4. CASE ~(4 < n)
    <3>1. J(5) = J(4)
      BY <2>4
    <3> QED
      BY <1>8, <2>1, <2>4, <3>1
  <2> QED
    BY <2>3, <2>4
<1>10. J(6) = J(5) + 243 * a[5] /\ J(6) \in Int
  <2>1. a[5] \in 0 .. 2 /\ a[5] = (IF 5 < n THEN s(6) ELSE 0)
    BY <1>1
  <2>2. ASSUME 5 < n
        PROVE  I[6] = I[5] + s(6) * 243
    <3>1. 6 \in 1 .. n /\ 6 - 1 = 5
      BY <2>2
    <3>2. I[6] = I[5] + s(6) * 3 ^ 5
      BY <1>3, <3>1
    <3>3. 3 ^ 5 = 243
      OBVIOUS
    <3> QED
      BY <3>2, <3>3
  <2>3. CASE 5 < n
    <3>1. J(6) = I[6] /\ J(5) = I[5]
      BY <2>3
    <3> QED
      BY <1>9, <2>1, <2>2, <2>3, <3>1
  <2>4. CASE ~(5 < n)
    <3>1. J(6) = J(5)
      BY <2>4
    <3> QED
      BY <1>9, <2>1, <2>4, <3>1
  <2> QED
    BY <2>3, <2>4
<1>11. J(7) = J(6) + 729 * a[6] /\ J(7) \in Int
  <2>1. a[6] \in 0 .. 2 /\ a[6] = (IF 6 < n THEN s(7) ELSE 0)
    BY <1>1
  <2>2. ASSUME 6 < n
        PROVE  I[7] = I[6] + s(7) * 729
    <3>1. 7 \in 1 .. n /\ 7 - 1 = 6
      BY <2>2
    <3>2. I[7] = I[6] + s(7) * 3 ^ 6
      BY <1>3, <3>1
    <3>3. 3 ^ 6 = 729
      OBVIOUS
    <3> QED
      BY <3>2, <3>3
  <2>3. CASE 6 < n
    <3>1. J(7) = I[7] /\ J(6) = I[6]
      BY <2>3
    <3> QED
      BY <1>10, <2>1, <2>2, <2>3, <3>1
  <2>4. CASE ~(6 < n)
    <3>1. J(7) = J(6)
      BY <2>4
    <3> QED
      BY <1>10, <2>1, <2>4, <3>1
  <2> QED
    BY <2>3, <2>4
<1>12. J(8) = J(7) + 2187 * a[7] /\ J(8) \in Int
  <2>1. a[7] \in 0 .. 2 /\ a[7] = (IF 7 < n THEN s(8) ELSE 0)
    BY <1>1
  <2>2. ASSUME 7 < n
        PROVE  I[8] = I[7] + s(8) * 2187
    <3>1. 8 \in 1 .. n /\ 8 - 1 = 7
      BY <2>2
    <3>2. I[8] = I[7] + s(8) * 3 ^ 7
      BY <1>3, <3>1
    <3>3. 3 ^ 7 = 2187
      OBVIOUS
    <3> QED
      BY <3>2, <3>3
  <2>3. CASE 7 < n
    <3>1. J(8) = I[8] /\ J(7) = I[7]
      BY <2>3
    <3> QED
      BY <1>11, <2>1, <2>2, <2>3, <3>1
  <2>4. CASE ~(7 < n)
    <3>1. J(8) = J(7)
      BY <2>4
    <3> QED
      BY <1>11, <2>1, <2>4, <3>1
  <2> QED
    BY <2>3, <2>4
<1>13. J(9) = J(8) + 6561 * a[8] /\ J(9) \in Int
  <2>1. a[8] \in 0 .. 2 /\ a[8] = (IF 8 < n THEN s(9) ELSE 0)
    BY <1>1
  <2>2. ASSUME 8 < n
        PROVE  I[9] = I[8] + s(9) * 6561
    <3>1. 9 \in 1 .. n /\ 9 - 1 = 8
      BY <2>2
    <3>2. I[9] = I[8] + s(9) * 3 ^ 8
      BY <1>3, <3>1
    <3>3. 3 ^ 8 = 6561
      OBVIOUS
    <3> QED
      BY <3>2, <3>3
  <2>3. CASE 8 < n
    <3>1. J(9) = I[9] /\ J(8) = I[8]
      BY <2>3
    <3> QED
      BY <1>12, <2>1, <2>2, <2>3, <3>1
  <2>4. CASE ~(8 < n)
    <3>1. J(9) = J(8)
      BY <2>4
    <3> QED
      BY <1>12, <2>1, <2>4, <3>1
  <2> QED
    BY <2>3, <2>4
<1>14. J(10) = J(9) + 19683 * a[9] /\ J(10) \in Int
  <2>1. a[9] \in 0 .. 2 /\ a[9] = (IF 9 < n THEN s(10) ELSE 0)
    BY <1>1
  <2>2. ASSUME 9 < n
        PROVE  I[10] = I[9] + s(10) * 19683
    <3>1. 10 \in 1 .. n /\ 10 - 1 = 9
      BY <2>2
    <3>2. I[10] = I[9] + s(10) * 3 ^ 9
      BY <1>3, <3>1
    <3>3. 3 ^ 9 = 19683
      OBVIOUS
    <3> QED
      BY <3>2, <3>3
  <2>3. CASE 9 < n
    <3>1. J(10) = I[10] /\ J(9) = I[9]
      BY <2>3
    <3> QED
      BY <1>13, <2>1, <2>2, <2>3, <3>1
  <2>4. CASE ~(9 < n)
    <3>1. J(10) = J(9)
      BY <2>4
    <3> QED
      BY <1>13, <2>1, <2>4, <3>1
  <2> QED
    BY <2>3, <2>4
<1> HIDE DEF J
<1>15. /\ a[0] \in 0 .. 2 /\ a[1] \in 0 .. 2 /\ a[2] \in 0 .. 2 /\ a[3] \in 0 .. 2 /\ a[4] \in 0 .. 2
       /\ a[5] \in 0 .. 2 /\ a[6] \in 0 .. 2 /\ a[7] \in 0 .. 2 /\ a[8] \in 0 .. 2 /\ a[9] \in 0 .. 2
  BY <1>1
<1>17. J(5) = a[0] + 3 * a[1] + 9 * a[2] + 27 * a[3] + 81 * a[4]
  BY <1>4, <1>5, <1>6, <1>7, <1>8, <1>9, <1>15
<1>18. J(8) = J(5) + 243 * a[5] + 729 * a[6] + 2187 * a[7]
  BY <1>9, <1>10, <1>11, <1>12, <1>15
<1>19. J(10) = J(8) + 6561 * a[8] + 19683 * a[9]
  BY <1>12, <1>13, <1>14, <1>15
<1>16. index = a[0] + 3 * a[1] + 9 * a[2] + 27 * a[3] + 81 * a[4] + 243 * a[5] + 729 * a[6]
                 + 2187 * a[7] + 6561 * a[8] + 19683 * a[9]
  BY <1>4, <1>9, <1>12, <1>15, <1>17, <1>18, <1>19
<1> QED
  BY <1>1, <1>16 DEF OfDigits, a, index

\* An index holds the state of each of its squares, and no more.
LEMMA IndexTells ==
  ASSUME NEW player, NEW opp, NEW squares, NEW n \in 0 .. 10, Len(squares) = n
  PROVE  DigitsTell(player, opp, squares, n)
<1> DEFINE index == PatternIndex(player, opp, squares)
           a == StatesOf(player, opp, squares, n)
<1>1. OfDigits(index, a)
  BY IndexOfStates
<1> SUFFICES ASSUME NEW k \in 0 .. n - 1
             PROVE  Digit(index, k) = CellState(player, opp, squares[k + 1])
  BY DEF DigitsTell
<1>2. k \in 0 .. 9 /\ k < n
  OBVIOUS
<1>3. a[k] = CellState(player, opp, squares[k + 1])
  BY <1>2 DEF StatesOf
<1> HIDE DEF a, index
<1> QED
  BY <1>1, <1>2, <1>3, TenDigits

Bounded(index, n) ==
  /\ index \in Nat
  /\ n = 4 => index < 81
  /\ n = 5 => index < 243
  /\ n = 6 => index < 729
  /\ n = 7 => index < 2187
  /\ n = 8 => index < 6561
  /\ n = 9 => index < 19683
  /\ n = 10 => index < 59049

LEMMA IndexInTable ==
  ASSUME NEW player, NEW opp, NEW squares, NEW n \in 4 .. 10, Len(squares) = n
  PROVE  Bounded(PatternIndex(player, opp, squares), n)
<1> DEFINE index == PatternIndex(player, opp, squares)
           a == StatesOf(player, opp, squares, n)
<1>0. n \in 0 .. 10
  OBVIOUS
<1>1. OfDigits(index, a)
  BY <1>0, IndexOfStates
<1>2. \A k \in 0 .. 9 : k >= n => a[k] = 0
  BY DEF StatesOf
<1> HIDE DEF a, index
<1>3. /\ a[0] \in 0 .. 2 /\ a[1] \in 0 .. 2 /\ a[2] \in 0 .. 2 /\ a[3] \in 0 .. 2 /\ a[4] \in 0 .. 2
      /\ a[5] \in 0 .. 2 /\ a[6] \in 0 .. 2 /\ a[7] \in 0 .. 2 /\ a[8] \in 0 .. 2 /\ a[9] \in 0 .. 2
  BY <1>1 DEF OfDigits
<1>4. index = a[0] + 3 * a[1] + 9 * a[2] + 27 * a[3] + 81 * a[4] + 243 * a[5] + 729 * a[6]
                + 2187 * a[7] + 6561 * a[8] + 19683 * a[9]
  BY <1>1 DEF OfDigits
<1>5. /\ (n < 10 => a[9] = 0) /\ (n < 9 => a[8] = 0) /\ (n < 8 => a[7] = 0)
      /\ (n < 7 => a[6] = 0) /\ (n < 6 => a[5] = 0) /\ (n < 5 => a[4] = 0)
  BY <1>2
<1> DEFINE a0 == a[0] a1 == a[1] a2 == a[2] a3 == a[3] a4 == a[4] a5 == a[5] a6 == a[6] a7 == a[7] a8 == a[8] a9 == a[9]
<1>12. a0 \in 0 .. 2 /\ a1 \in 0 .. 2 /\ a2 \in 0 .. 2 /\ a3 \in 0 .. 2
  BY <1>3
<1>13. a4 \in 0 .. 2 /\ a5 \in 0 .. 2 /\ a6 \in 0 .. 2
  BY <1>3
<1>14. a7 \in 0 .. 2 /\ a8 \in 0 .. 2 /\ a9 \in 0 .. 2
  BY <1>3
<1>15. index = a0 + 3 * a1 + 9 * a2 + 27 * a3 + 81 * a4 + 243 * a5 + 729 * a6
                 + 2187 * a7 + 6561 * a8 + 19683 * a9
  BY <1>4
<1>16. /\ (n < 10 => a9 = 0) /\ (n < 9 => a8 = 0) /\ (n < 8 => a7 = 0)
       /\ (n < 7 => a6 = 0) /\ (n < 6 => a5 = 0) /\ (n < 5 => a4 = 0)
  BY <1>5
<1> HIDE DEF a0, a1, a2, a3, a4, a5, a6, a7, a8, a9
<1> DEFINE x == a0 + 3 * a1 + 9 * a2 + 27 * a3
           y == a4 + 3 * a5 + 9 * a6
           z == a7 + 3 * a8 + 9 * a9
<1>6. x \in 0 .. 80 /\ y \in 0 .. 26 /\ z \in 0 .. 26
  BY <1>12, <1>13, <1>14
<1>7. index = x + 81 * y + 2187 * z
  BY <1>12, <1>13, <1>14, <1>15
<1>8. /\ (n < 8 => z = 0) /\ (n < 9 => z < 3) /\ (n < 10 => z < 9)
      /\ (n < 5 => y = 0) /\ (n < 6 => y < 3) /\ (n < 7 => y < 9)
  BY <1>13, <1>14, <1>16
<1> HIDE DEF x, y, z
<1>9. index \in Nat /\ index < 59049
  BY <1>6, <1>7
<1>10. /\ n = 4 => index < 81
       /\ n = 5 => index < 243
       /\ n = 6 => index < 729
       /\ n = 7 => index < 2187
  BY <1>6, <1>7, <1>8
<1>11. /\ n = 8 => index < 6561
       /\ n = 9 => index < 19683
  BY <1>6, <1>7, <1>8
<1> QED
  BY <1>9, <1>10, <1>11 DEF Bounded, index

\* With the colours exchanged, each cell counts for the other side.
LEMMA SignsTurn ==
  ASSUME NEW player, NEW opp, player \cap opp = {}, NEW squares, NEW n,
         DigitsTell(player, opp, squares, n), DigitsTell(opp, player, squares, n)
  PROVE  \A k \in 0 .. n - 1 :
           Signed(PatternIndex(opp, player, squares), k) = -Signed(PatternIndex(player, opp, squares), k)
<1> SUFFICES ASSUME NEW k \in 0 .. n - 1
             PROVE  Signed(PatternIndex(opp, player, squares), k) = -Signed(PatternIndex(player, opp, squares), k)
  OBVIOUS
<1> DEFINE s == squares[k + 1]
           x == Digit(PatternIndex(player, opp, squares), k)
           y == Digit(PatternIndex(opp, player, squares), k)
<1>1. x = CellState(player, opp, s) /\ y = CellState(opp, player, s)
  BY Zenon DEF DigitsTell
<1>2. Signed(PatternIndex(player, opp, squares), k) = IF x = 1 THEN 1 ELSE IF x = 2 THEN -1 ELSE 0
  BY DEF Signed
<1>3. Signed(PatternIndex(opp, player, squares), k) = IF y = 1 THEN 1 ELSE IF y = 2 THEN -1 ELSE 0
  BY DEF Signed
<1> HIDE DEF x, y, s
<1>4. (x = 1 /\ y = 2) \/ (x = 2 /\ y = 1) \/ (x = 0 /\ y = 0)
  BY <1>1 DEF CellState
<1> QED
  BY <1>2, <1>3, <1>4

\* A sum of negated numbers is the negated sum.
LEMMA SumTurns ==
  ASSUME NEW D, IsFiniteSet(D), NEW f, NEW g, DOMAIN f = D, DOMAIN g = D,
         \A x \in D : f[x] \in Int /\ g[x] = -f[x]
  PROVE  SumOf(g) = -SumOf(f)
<1>1. PICK I : IsSum(I, f, D)
  BY SumExists
<1>2. PICK J : IsSum(J, g, D)
  BY SumExists
<1>3. \A x \in D : f[x] \in Int /\ g[x] \in Int
  OBVIOUS
<1>4. J[D] = -I[D]
  <2> DEFINE Bad == { s \in SUBSET D : J[s] # -I[s] }
             T == { Cardinality(s) : s \in Bad }
  <2> SUFFICES ASSUME Bad # {}
               PROVE  FALSE
    OBVIOUS
  <2>1. T \in SUBSET Nat /\ T # {}
    BY FS_Subset, FS_CardinalityType
  <2>2. PICK k \in T : \A m \in T : k <= m
    <3> HIDE DEF T
    <3> QED
      BY <2>1, LeastElement
  <2>3. PICK s \in Bad : k = Cardinality(s)
    OBVIOUS
  <2>4. SumsDown(I, f, D) /\ SumsDown(J, g, D)
    BY <1>1, <1>2, SumSteps
  <2>5. s # {}
    <3>1. I[{}] = 0 /\ J[{}] = 0
      BY <2>4 DEF SumsDown
    <3> QED
      BY <3>1
  <2>6. PICK x \in s : I[s] = f[x] + I[s \ {x}]
    BY <2>4, <2>5 DEF SumsDown
  <2>7. J[s] = g[x] + J[s \ {x}]
    BY <1>2, <1>3, SumTakes
  <2>8. s \ {x} \in SUBSET D /\ Cardinality(s \ {x}) \in Nat /\ Cardinality(s) = Cardinality(s \ {x}) + 1
    BY OneLess
  <2>9. J[s \ {x}] = -I[s \ {x}]
    <3> SUFFICES ASSUME s \ {x} \in Bad
                 PROVE  FALSE
      BY <2>8
    <3>1. k <= Cardinality(s \ {x})
      BY <2>2
    <3> QED
      BY <2>3, <2>8, <3>1
  <2>10. I[s \ {x}] \in Int
    BY <1>1, <1>3, <2>8, SumTyped
  <2>11. f[x] \in Int /\ g[x] = -f[x]
    OBVIOUS
  <2>12. J[s] = -I[s]
    BY <2>6, <2>7, <2>9, <2>10, <2>11
  <2> QED
    BY <2>12
<1>5. I[D] = SumOfAll(f, D) /\ J[D] = SumOfAll(g, D)
  BY <1>1, <1>2, <1>3, SumOfAllIs
<1>6. SumOf(f) = SumOfAll(f, D) /\ SumOf(g) = SumOfAll(g, D)
  BY <1>3, SumOfIs
<1> QED
  BY <1>4, <1>5, <1>6

(***************************************************************************)
(* The rule tables: the entry of the same squares with the colours         *)
(* exchanged is the negated one.                                           *)
(***************************************************************************)
LEMMA ClampTurns ==
  ASSUME NEW v \in Int, NEW w \in Int, w = -v, NEW b \in Nat
  PROVE  Clamp(w, b) = -Clamp(v, b)
BY DEF Clamp

LEMMA CornerRuleTurns ==
  ASSUME NEW index, NEW turned, \A k \in 0 .. 6 - 1 : Signed(turned, k) = -Signed(index, k)
  PROVE  Corner2x3RuleValue(turned) = -Corner2x3RuleValue(index)
<1> DEFINE v(i) == IF Signed(i, 0) = 0
                   THEN -(Signed(i, 1) + Signed(i, 3)) - 3 * Signed(i, 4) - Signed(i, 2)
                   ELSE 4 * Signed(i, 0) + (Signed(i, 1) + Signed(i, 3)) + Signed(i, 2) + Signed(i, 5)
           x == v(index)
           y == v(turned)
<1>1. Corner2x3RuleValue(index) = Clamp(x, 6) /\ Corner2x3RuleValue(turned) = Clamp(y, 6)
  BY Zenon DEF Corner2x3RuleValue
<1>2. \A i, k : Signed(i, k) \in Int
  BY SignedIs
<1>3. 0 \in 0 .. 6 - 1 /\ 1 \in 0 .. 6 - 1 /\ 2 \in 0 .. 6 - 1 /\ 3 \in 0 .. 6 - 1 /\ 4 \in 0 .. 6 - 1 /\ 5 \in 0 .. 6 - 1
  OBVIOUS
<1>4. x \in Int /\ y \in Int /\ y = -x
  <2> DEFINE a == Signed(index, 0) b == Signed(index, 1) c == Signed(index, 2)
             d == Signed(index, 3) e == Signed(index, 4) f == Signed(index, 5)
  <2>1. a \in Int /\ b \in Int /\ c \in Int /\ d \in Int /\ e \in Int /\ f \in Int
    BY <1>2
  <2>2. /\ Signed(turned, 0) = -a /\ Signed(turned, 1) = -b /\ Signed(turned, 2) = -c
        /\ Signed(turned, 3) = -d /\ Signed(turned, 4) = -e /\ Signed(turned, 5) = -f
    BY <1>3
  <2>3. x = IF a = 0 THEN -(b + d) - 3 * e - c ELSE 4 * a + (b + d) + c + f
    OBVIOUS
  <2>4. y = IF -a = 0 THEN -(-b + (-d)) - 3 * (-e) - (-c) ELSE 4 * (-a) + (-b + (-d)) + (-c) + (-f)
    BY <2>2
  <2> HIDE DEF a, b, c, d, e, f, x, y
  <2> QED
    BY <2>1, <2>3, <2>4
<1> HIDE DEF x, y
<1>5. Clamp(y, 6) = -Clamp(x, 6)
  BY <1>4, ClampTurns
<1> QED
  BY <1>1, <1>5

LEMMA FromCornerTurns ==
  ASSUME NEW cell, NEW turned, \A k \in 0 .. 7 : cell[k] \in Int /\ turned[k] = -cell[k]
  PROVE  FromCorner(turned) = -FromCorner(cell)
<1> DEFINE Chain(c) == { k \in 1 .. 3 : \A j \in 1 .. k : c[j] = c[0] }
           n == Cardinality(Chain(cell))
<1>1. Chain(turned) = Chain(cell)
  <2>1. \A k \in 1 .. 3 : \A j \in 1 .. k : j \in 0 .. 7
    OBVIOUS
  <2>2. 0 \in 0 .. 7
    OBVIOUS
  <2>3. \A k \in 1 .. 3 : \A j \in 1 .. k : (turned[j] = turned[0]) <=> (cell[j] = cell[0])
    BY <2>1, <2>2
  <2> QED
    BY <2>3
<1>2. n \in Int
  <2>1. IsFiniteSet(1 .. 3)
    BY RangesFinite
  <2> QED
    BY <2>1, FS_Subset, FS_CardinalityType
<1>3. \A c : FromCorner(c) = IF c[0] # 0 THEN c[0] * (1 + Cardinality(Chain(c))) + c[1]
                             ELSE -2 * c[1] - (IF c[1] = 0 THEN c[2] ELSE 0)
  BY Zenon DEF FromCorner
<1> HIDE DEF Chain
<1>4. FromCorner(turned) = IF turned[0] # 0 THEN turned[0] * (1 + n) + turned[1]
                           ELSE -2 * turned[1] - (IF turned[1] = 0 THEN turned[2] ELSE 0)
  BY <1>1, <1>3
<1>5. FromCorner(cell) = IF cell[0] # 0 THEN cell[0] * (1 + n) + cell[1]
                         ELSE -2 * cell[1] - (IF cell[1] = 0 THEN cell[2] ELSE 0)
  BY <1>3
<1> HIDE DEF n
<1>6. /\ cell[0] \in Int /\ cell[1] \in Int /\ cell[2] \in Int
      /\ turned[0] = -cell[0] /\ turned[1] = -cell[1] /\ turned[2] = -cell[2]
  OBVIOUS
<1> DEFINE a == cell[0] b == cell[1] c == cell[2]
<1>7. FromCorner(turned) = IF -a # 0 THEN (-a) * (1 + n) + (-b) ELSE -2 * (-b) - (IF -b = 0 THEN -c ELSE 0)
  BY <1>4, <1>6
<1>8. a \in Int /\ b \in Int /\ c \in Int
  BY <1>6
<1>9. (-a) * (1 + n) = -(a * (1 + n)) /\ a * (1 + n) \in Int
  BY <1>2, <1>8
<1> HIDE DEF a, b, c
<1> DEFINE p == a * (1 + n) q == (-a) * (1 + n)
<1>10. p \in Int /\ q = -p
  BY <1>9
<1>11. FromCorner(cell) = IF a # 0 THEN p + b ELSE -2 * b - (IF b = 0 THEN c ELSE 0)
  BY <1>5 DEF a, b, c
<1>12. FromCorner(turned) = IF -a # 0 THEN q + (-b) ELSE -2 * (-b) - (IF -b = 0 THEN -c ELSE 0)
  BY <1>7
<1> HIDE DEF p, q
<1> QED
  BY <1>8, <1>10, <1>11, <1>12

LEMMA EdgeRuleTurns ==
  ASSUME NEW index, NEW turned, \A k \in 0 .. 8 - 1 : Signed(turned, k) = -Signed(index, k)
  PROVE  Edge8RuleValue(turned) = -Edge8RuleValue(index)
<1> DEFINE Cells(i) == [k \in 0 .. 7 |-> Signed(i, k)]
           Reversed(c) == [k \in 0 .. 7 |-> c[7 - k]]
           Part(c) == [k \in 1 .. 6 |-> c[k]]
           Inner(c) == IF c[0] = 0 /\ c[7] = 0 THEN SumOf(Part(c)) ELSE 0
           Full(c) == IF \A k \in 1 .. 7 : c[k] = c[0] THEN 3 * c[0] ELSE 0
           v(c) == 2 * (c[0] + c[7]) + FromCorner(c) + FromCorner(Reversed(c)) - Inner(c) + Full(c)
           p == Cells(index)
           q == Cells(turned)
<1>1. \A i : Edge8RuleValue(i) = Clamp(v(Cells(i)), 10)
  BY Zenon DEF Edge8RuleValue
<1>2. \A k \in 0 .. 7 : p[k] \in Int /\ q[k] = -p[k]
  BY SignedIs
<1> HIDE DEF p, q
<1>3. FromCorner(q) = -FromCorner(p) /\ FromCorner(p) \in Int
  BY <1>2, FromCornerTurns, FromCornerTyped
<1>4. FromCorner(Reversed(q)) = -FromCorner(Reversed(p)) /\ FromCorner(Reversed(p)) \in Int
  <2> DEFINE a == Reversed(p) b == Reversed(q)
  <2>1. \A k \in 0 .. 7 : a[k] \in Int /\ b[k] = -a[k]
    BY <1>2
  <2> HIDE DEF a, b
  <2>2. FromCorner(b) = -FromCorner(a) /\ FromCorner(a) \in Int
    BY <2>1, FromCornerTurns, FromCornerTyped
  <2> QED
    BY <2>2 DEF a, b
<1>5. SumOf(Part(q)) = -SumOf(Part(p)) /\ SumOf(Part(p)) \in Int
  <2> DEFINE a == Part(p) b == Part(q)
  <2>1. DOMAIN a = 1 .. 6 /\ DOMAIN b = 1 .. 6 /\ \A k \in 1 .. 6 : a[k] \in Int /\ b[k] = -a[k]
    BY <1>2
  <2>2. IsFiniteSet(1 .. 6)
    BY RangesFinite
  <2> HIDE DEF a, b
  <2>3. SumOf(b) = -SumOf(a) /\ SumOf(a) \in Int
    BY <2>1, <2>2, SumTurns, SumOfIs
  <2> QED
    BY <2>3 DEF a, b
<1>6. p[0] \in Int /\ p[7] \in Int /\ q[0] = -p[0] /\ q[7] = -p[7]
  BY <1>2
<1> HIDE DEF Reversed, Part
<1>7. Inner(q) = -Inner(p) /\ Inner(p) \in Int
  BY <1>5, <1>6
<1>8. Full(q) = -Full(p) /\ Full(p) \in Int
  <2>1. \A k \in 1 .. 7 : (q[k] = q[0]) <=> (p[k] = p[0])
    BY <1>2
  <2> QED
    BY <1>6, <2>1
<1> HIDE DEF Inner, Full
<1>9. v(p) \in Int /\ v(q) \in Int /\ v(q) = -v(p)
  BY <1>3, <1>4, <1>6, <1>7, <1>8
<1>10. Edge8RuleValue(index) = Clamp(v(p), 10) /\ Edge8RuleValue(turned) = Clamp(v(q), 10)
  BY <1>1 DEF p, q
<1> HIDE DEF v
<1>11. Clamp(v(q), 10) = -Clamp(v(p), 10)
  BY <1>9, ClampTurns
<1> QED
  BY <1>10, <1>11

LEMMA CornersAreSix ==
  /\ DOMAIN PatternSquares["corner_2x3"] = 1 .. 4
  /\ \A i \in 1 .. 4 : Len(PatternSquares["corner_2x3"][i]) = 6
<1>1. PatternSquares["corner_2x3"] = Corner2x3Squares
  BY Zenon DEF PatternSquares
<1>2. DOMAIN Corner2x3Squares = 1 .. 4
  BY DEF Corner2x3Squares
<1>3. \A i \in 1 .. 4 : i = 1 \/ i = 2 \/ i = 3 \/ i = 4
  OBVIOUS
<1>4. /\ Len(Corner2x3Squares[1]) = 6 /\ Len(Corner2x3Squares[2]) = 6
      /\ Len(Corner2x3Squares[3]) = 6 /\ Len(Corner2x3Squares[4]) = 6
  BY DEF Corner2x3Squares
<1> QED
  BY <1>1, <1>2, <1>3, <1>4

LEMMA LineOfEight ==
  ASSUME NEW first \in Int, NEW step \in Int
  PROVE  Len(Line8(first, step)) = 8
<1>1. DOMAIN Line8(first, step) = 1 .. 8 /\ Line8(first, step) \in Seq(Int)
  BY DEF Line8
<1> HIDE DEF Line8
<1> QED
  BY <1>1

LEMMA EdgesAreEight ==
  /\ DOMAIN PatternSquares["edge_8"] = 1 .. 4
  /\ \A i \in 1 .. 4 : Len(PatternSquares["edge_8"][i]) = 8
<1> DEFINE E == PatternSquares["edge_8"]
<1>1. E = <<Line8(0, 1), Line8(56, 1), Line8(0, 8), Line8(7, 8)>>
  BY Zenon DEF PatternSquares
<1>2. \A first, step \in Int : Len(Line8(first, step)) = 8
  BY LineOfEight
<1>3. \A i \in 1 .. 4 : i = 1 \/ i = 2 \/ i = 3 \/ i = 4
  OBVIOUS
<1>4. DOMAIN E = 1 .. 4 /\ E[1] = Line8(0, 1) /\ E[2] = Line8(56, 1) /\ E[3] = Line8(0, 8) /\ E[4] = Line8(7, 8)
  BY <1>1
<1> HIDE DEF E
<1>5. \A i \in 1 .. 4 : Len(E[i]) = 8
  BY <1>2, <1>3, <1>4
<1> QED
  BY <1>4, <1>5 DEF E

LEMMA RuleSumsTurn ==
  ASSUME NEW player, NEW opp, player \cap opp = {}
  PROVE  /\ SumOfEntries(PatternIndexes(opp, player, "corner_2x3"), Corner2x3RuleValue)
              = -SumOfEntries(PatternIndexes(player, opp, "corner_2x3"), Corner2x3RuleValue)
         /\ SumOfEntries(PatternIndexes(opp, player, "edge_8"), Edge8RuleValue)
              = -SumOfEntries(PatternIndexes(player, opp, "edge_8"), Edge8RuleValue)
<1>0. IsFiniteSet(1 .. 4) /\ opp \cap player = {}
  BY RangesFinite
<1>1. SumOfEntries(PatternIndexes(opp, player, "corner_2x3"), Corner2x3RuleValue)
        = -SumOfEntries(PatternIndexes(player, opp, "corner_2x3"), Corner2x3RuleValue)
  <2> DEFINE S == PatternSquares["corner_2x3"]
             Index(p, o) == PatternIndexes(p, o, "corner_2x3")
             Values(p, o) == [i \in DOMAIN Index(p, o) |-> Corner2x3RuleValue(Index(p, o)[i])]
             f == Values(player, opp)
             g == Values(opp, player)
  <2>1. \A p, o : SumOfEntries(Index(p, o), Corner2x3RuleValue) = SumOf(Values(p, o))
    BY Zenon DEF SumOfEntries
  <2>2. \A p, o : Index(p, o) = [i \in DOMAIN S |-> PatternIndex(p, o, S[i])]
    BY Zenon DEF PatternIndexes
  <2>3. DOMAIN S = 1 .. 4 /\ \A i \in 1 .. 4 : Len(S[i]) = 6
    BY CornersAreSix
  <2> HIDE DEF Index, S
  <2>4. \A p, o : DOMAIN Index(p, o) = 1 .. 4 /\ \A i \in 1 .. 4 : Index(p, o)[i] = PatternIndex(p, o, S[i])
    BY <2>2, <2>3
  <2>5. ASSUME NEW i \in 1 .. 4
        PROVE  /\ f[i] \in Int /\ g[i] = -f[i]
    <3> DEFINE sq == S[i]
    <3>0. PICK n \in 0 .. 10 : n = 6
      OBVIOUS
    <3>1. DigitsTell(player, opp, sq, 6) /\ DigitsTell(opp, player, sq, 6)
      BY <2>3, <3>0, IndexTells
    <3>2. \A k \in 0 .. 6 - 1 : Signed(PatternIndex(opp, player, sq), k) = -Signed(PatternIndex(player, opp, sq), k)
      BY <3>1, SignsTurn
    <3>3. Corner2x3RuleValue(PatternIndex(opp, player, sq)) = -Corner2x3RuleValue(PatternIndex(player, opp, sq))
      BY <3>2, CornerRuleTurns
    <3>4. f[i] = Corner2x3RuleValue(PatternIndex(player, opp, sq)) /\ g[i] = Corner2x3RuleValue(PatternIndex(opp, player, sq))
      BY <2>4
    <3> QED
      BY <3>3, <3>4, Corner2x3Typed
  <2>6. DOMAIN f = 1 .. 4 /\ DOMAIN g = 1 .. 4
    BY <2>4
  <2> HIDE DEF f, g
  <2>7. SumOf(g) = -SumOf(f)
    BY <1>0, <2>5, <2>6, SumTurns
  <2> QED
    BY <2>1, <2>7 DEF f, g, Index
<1>2. SumOfEntries(PatternIndexes(opp, player, "edge_8"), Edge8RuleValue)
        = -SumOfEntries(PatternIndexes(player, opp, "edge_8"), Edge8RuleValue)
  <2> DEFINE S == PatternSquares["edge_8"]
             Index(p, o) == PatternIndexes(p, o, "edge_8")
             Values(p, o) == [i \in DOMAIN Index(p, o) |-> Edge8RuleValue(Index(p, o)[i])]
             f == Values(player, opp)
             g == Values(opp, player)
  <2>1. \A p, o : SumOfEntries(Index(p, o), Edge8RuleValue) = SumOf(Values(p, o))
    BY Zenon DEF SumOfEntries
  <2>2. \A p, o : Index(p, o) = [i \in DOMAIN S |-> PatternIndex(p, o, S[i])]
    BY Zenon DEF PatternIndexes
  <2>3. DOMAIN S = 1 .. 4 /\ \A i \in 1 .. 4 : Len(S[i]) = 8
    BY EdgesAreEight
  <2> HIDE DEF Index, S
  <2>4. \A p, o : DOMAIN Index(p, o) = 1 .. 4 /\ \A i \in 1 .. 4 : Index(p, o)[i] = PatternIndex(p, o, S[i])
    BY <2>2, <2>3
  <2>5. ASSUME NEW i \in 1 .. 4
        PROVE  /\ f[i] \in Int /\ g[i] = -f[i]
    <3> DEFINE sq == S[i]
    <3>0. PICK n \in 0 .. 10 : n = 8
      OBVIOUS
    <3>1. DigitsTell(player, opp, sq, 8) /\ DigitsTell(opp, player, sq, 8)
      BY <2>3, <3>0, IndexTells
    <3>2. \A k \in 0 .. 8 - 1 : Signed(PatternIndex(opp, player, sq), k) = -Signed(PatternIndex(player, opp, sq), k)
      BY <3>1, SignsTurn
    <3>3. Edge8RuleValue(PatternIndex(opp, player, sq)) = -Edge8RuleValue(PatternIndex(player, opp, sq))
      BY <3>2, EdgeRuleTurns
    <3>4. f[i] = Edge8RuleValue(PatternIndex(player, opp, sq)) /\ g[i] = Edge8RuleValue(PatternIndex(opp, player, sq))
      BY <2>4
    <3> QED
      BY <3>3, <3>4, Edge8Typed
  <2>6. DOMAIN f = 1 .. 4 /\ DOMAIN g = 1 .. 4
    BY <2>4
  <2> HIDE DEF f, g
  <2>7. SumOf(g) = -SumOf(f)
    BY <1>0, <2>5, <2>6, SumTurns
  <2> QED
    BY <2>1, <2>7 DEF f, g, Index
<1> QED
  BY <1>1, <1>2

(***************************************************************************)
(* The features, and their sum.                                            *)
(***************************************************************************)
LEMMA DifferenceTurns ==
  ASSUME NEW S \in SUBSET Squares, NEW T \in SUBSET Squares
  PROVE  Difference(T, S) = -Difference(S, T)
<1>1. IsFiniteSet(S) /\ IsFiniteSet(T)
  BY SquaresFinite, FS_Subset
<1>2. Cardinality(S) \in Nat /\ Cardinality(T) \in Nat
  BY <1>1, FS_CardinalityType
<1> QED
  BY <1>2 DEF Difference

LEMMA RawValueTurns ==
  ASSUME NEW player \in SUBSET Squares, NEW opp \in SUBSET Squares, player \cap opp = {}, NEW config,
         NEW phase \in Phases, NEW feature \in Features, feature # "pattern_table"
  PROVE  RawValue(feature, opp, player, config, phase) = -RawValue(feature, player, opp, config, phase)
<1> DEFINE v == RawValue(feature, player, opp, config, phase)
           w == RawValue(feature, opp, player, config, phase)
           occupied == player \cup opp
           empty == EmptySquares(player, opp)
<1>1. /\ LegalMovesFor(player, opp) \in SUBSET Squares
      /\ LegalMovesFor(opp, player) \in SUBSET Squares
  BY MovesAreEmpty
<1>2. empty \in SUBSET Squares /\ EmptySquares(opp, player) = empty /\ opp \cup player = occupied
  BY DEF EmptySquares
<1>3. CASE feature \in {"disc_difference", "mobility", "corner_occupancy", "corner_access"}
  <2>1. CASE feature = "disc_difference"
    <3>1. v = Difference(player, opp) /\ w = Difference(opp, player)
      BY <2>1, Zenon DEF RawValue
    <3> QED
      BY <3>1, DifferenceTurns
  <2>2. CASE feature = "mobility"
    <3>1. /\ v = Difference(LegalMovesFor(player, opp), LegalMovesFor(opp, player))
          /\ w = Difference(LegalMovesFor(opp, player), LegalMovesFor(player, opp))
      BY <2>2 DEF RawValue
    <3> QED
      BY <1>1, <3>1, DifferenceTurns
  <2>3. CASE feature = "corner_occupancy"
    <3>1. v = Difference(player \cap Corners, opp \cap Corners) /\ w = Difference(opp \cap Corners, player \cap Corners)
      BY <2>3 DEF RawValue
    <3> QED
      BY <3>1, DifferenceTurns
  <2>4. CASE feature = "corner_access"
    <3>1. /\ v = Difference(LegalMovesFor(player, opp) \cap Corners, LegalMovesFor(opp, player) \cap Corners)
          /\ w = Difference(LegalMovesFor(opp, player) \cap Corners, LegalMovesFor(player, opp) \cap Corners)
      BY <2>4 DEF RawValue
    <3> QED
      BY <1>1, <3>1, DifferenceTurns
  <2> QED
    BY <1>3, <2>1, <2>2, <2>3, <2>4
<1>4. CASE feature \in {"potential_mobility", "x_square_danger", "frontier", "edge_stability_lite"}
  <2>1. CASE feature = "potential_mobility"
    <3>1. /\ v = Difference(AdjacentSquares(opp) \cap empty, AdjacentSquares(player) \cap empty)
          /\ w = Difference(AdjacentSquares(player) \cap empty, AdjacentSquares(opp) \cap empty)
      BY <1>2, <2>1 DEF RawValue
    <3> QED
      BY <1>2, <3>1, DifferenceTurns
  <2>2. CASE feature = "x_square_danger"
    <3>1. /\ v = Difference(DangerousXSquares(opp, occupied), DangerousXSquares(player, occupied))
          /\ w = Difference(DangerousXSquares(player, occupied), DangerousXSquares(opp, occupied))
      BY <1>2, <2>2 DEF RawValue
    <3>2. \A discsOf \in SUBSET Squares : DangerousXSquares(discsOf, occupied) \in SUBSET Squares
      BY DEF DangerousXSquares
    <3> QED
      BY <3>1, <3>2, DifferenceTurns
  <2>3. CASE feature = "frontier"
    <3>1. /\ v = Difference(opp \cap AdjacentSquares(empty), player \cap AdjacentSquares(empty))
          /\ w = Difference(player \cap AdjacentSquares(empty), opp \cap AdjacentSquares(empty))
      BY <1>2, <2>3 DEF RawValue
    <3> QED
      BY <3>1, DifferenceTurns
  <2>4. CASE feature = "edge_stability_lite"
    <3>1. /\ v = Difference(StableEdgeSquares(player), StableEdgeSquares(opp))
          /\ w = Difference(StableEdgeSquares(opp), StableEdgeSquares(player))
      BY <2>4 DEF RawValue
    <3>2. StableEdgeSquares(player) \in SUBSET Squares /\ StableEdgeSquares(opp) \in SUBSET Squares
      BY StableAre
    <3> QED
      BY <3>1, <3>2, DifferenceTurns
  <2> QED
    BY <1>4, <2>1, <2>2, <2>3, <2>4
<1>5. CASE feature \in {"corner_local_2x3", "corner_2x3_pattern", "edge_8_pattern"}
  <2>1. CASE feature = "corner_local_2x3"
    <3>1. /\ v = CornerLocalValue(player, occupied) - CornerLocalValue(opp, occupied)
          /\ w = CornerLocalValue(opp, occupied) - CornerLocalValue(player, occupied)
      BY <1>2, <2>1 DEF RawValue
    <3>2. CornerLocalValue(player, occupied) \in Int /\ CornerLocalValue(opp, occupied) \in Int
      BY CornerLocalTyped
    <3> QED
      BY <3>1, <3>2
  <2>2. CASE feature = "corner_2x3_pattern"
    <3>1. /\ v = SumOfEntries(PatternIndexes(player, opp, "corner_2x3"), Corner2x3RuleValue)
          /\ w = SumOfEntries(PatternIndexes(opp, player, "corner_2x3"), Corner2x3RuleValue)
      BY <2>2 DEF RawValue
    <3> QED
      BY <3>1, RuleSumsTurn
  <2>3. CASE feature = "edge_8_pattern"
    <3>1. /\ v = SumOfEntries(PatternIndexes(player, opp, "edge_8"), Edge8RuleValue)
          /\ w = SumOfEntries(PatternIndexes(opp, player, "edge_8"), Edge8RuleValue)
      BY <2>3 DEF RawValue
    <3> QED
      BY <3>1, RuleSumsTurn
  <2> QED
    BY <1>5, <2>1, <2>2, <2>3
<1> QED
  BY <1>3, <1>4, <1>5 DEF Features

LEMMA WeightedSumTurns ==
  ASSUME NEW player \in SUBSET Squares, NEW opp \in SUBSET Squares, player \cap opp = {}, NEW config,
         Weighable(config), NEW phase \in Phases,
         NEW computed \in SUBSET Features, "pattern_table" \notin computed
  PROVE  WeightedSum(opp, player, config, phase, computed) = -WeightedSum(player, opp, config, phase, computed)
<1> DEFINE t(p, o, f) == RawValue(f, p, o, config, phase) * config.weights[phase][f]
           Terms(p, o) == [f \in computed |-> t(p, o, f)]
           a == Terms(player, opp)
           b == Terms(opp, player)
<1>1. \A p, o : WeightedSum(p, o, config, phase, computed) = SumOf(Terms(p, o))
  BY Zenon DEF WeightedSum
<1>2. ASSUME NEW f \in computed
      PROVE  t(player, opp, f) \in Int /\ t(opp, player, f) = -t(player, opp, f)
  <2> DEFINE v == RawValue(f, player, opp, config, phase)
             w == config.weights[phase][f]
  <2>1. v \in Int /\ w \in Int
    BY RawValueTyped DEF Weighable
  <2>2. RawValue(f, opp, player, config, phase) = -v
    BY RawValueTurns
  <2>3. t(player, opp, f) = v * w /\ t(opp, player, f) = (-v) * w
    BY <2>2
  <2> HIDE DEF v, w, t
  <2>4. v * w \in Int /\ (-v) * w = -(v * w)
    BY <2>1
  <2> QED
    BY <2>3, <2>4
<1>3. IsFiniteSet(computed)
  BY FeaturesFinite, FS_Subset
<1> HIDE DEF t
<1>4. DOMAIN a = computed /\ DOMAIN b = computed /\ \A f \in computed : a[f] \in Int /\ b[f] = -a[f]
  BY <1>2
<1> HIDE DEF a, b
<1>5. SumOf(b) = -SumOf(a)
  BY <1>3, <1>4, SumTurns
<1> QED
  BY <1>1, <1>5 DEF a, b

LEMMA WeightedSumTyped ==
  ASSUME NEW player \in SUBSET Squares, NEW opp \in SUBSET Squares, NEW config, Weighable(config),
         NEW phase \in Phases, NEW computed \in SUBSET Features
  PROVE  WeightedSum(player, opp, config, phase, computed) \in Int
<1> DEFINE t(f) == RawValue(f, player, opp, config, phase) * config.weights[phase][f]
           a == [f \in computed |-> t(f)]
<1>1. WeightedSum(player, opp, config, phase, computed) = SumOf(a)
  BY Zenon DEF WeightedSum
<1>2. ASSUME NEW f \in computed
      PROVE  t(f) \in Int
  <2>1. RawValue(f, player, opp, config, phase) \in Int /\ config.weights[phase][f] \in Int
    BY RawValueTyped DEF Weighable
  <2> QED
    BY <2>1
<1>3. IsFiniteSet(computed)
  BY FeaturesFinite, FS_Subset
<1> HIDE DEF t
<1>4. DOMAIN a = computed /\ \A f \in DOMAIN a : a[f] \in Int
  BY <1>2
<1> HIDE DEF a
<1> QED
  BY <1>1, <1>3, <1>4, SumOfTyped

(***************************************************************************)
(* The instances of a family are one pattern, turned.                      *)
(***************************************************************************)
\* The second pattern is the first one turned, square for square.
TurnsInto(first, second, n, transpose, files, ranks) ==
  /\ first \in Seq(0 .. 63) /\ second \in Seq(0 .. 63) /\ Len(first) = n /\ Len(second) = n
  /\ \A k \in 1 .. n : second[k] = Turned(first[k], transpose, files, ranks)
TurnOf(first, second, n) ==
  \E transpose, files, ranks \in BOOLEAN : TurnsInto(first, second, n, transpose, files, ranks)
AllTurned(family, n) ==
  \A i \in DOMAIN PatternSquares[family] : TurnOf(PatternSquares[family][1], PatternSquares[family][i], n)

LEMMA FourTurned ==
  ASSUME NEW family, NEW n, NEW a, NEW b, NEW c, NEW d, PatternSquares[family] = <<a, b, c, d>>,
         TurnOf(a, a, n), TurnOf(a, b, n), TurnOf(a, c, n), TurnOf(a, d, n)
  PROVE  AllTurned(family, n)
<1> DEFINE P == PatternSquares[family]
<1>1. DOMAIN P = 1 .. 4 /\ P[1] = a /\ P[2] = b /\ P[3] = c /\ P[4] = d
  OBVIOUS
<1>2. \A i \in 1 .. 4 : i = 1 \/ i = 2 \/ i = 3 \/ i = 4
  OBVIOUS
<1> HIDE DEF P
<1>3. \A i \in DOMAIN P : TurnOf(P[1], P[i], n)
  BY <1>1, <1>2
<1> QED
  BY <1>3 DEF P, AllTurned

LEMMA TurnsCorner2x3 == Width = 8 => AllTurned("corner_2x3", 6)
<1> SUFFICES ASSUME Width = 8
             PROVE  AllTurned("corner_2x3", 6)
  OBVIOUS
<1> DEFINE a == <<0, 1, 2, 8, 9, 10>>
           b == <<7, 6, 5, 15, 14, 13>>
           c == <<56, 57, 58, 48, 49, 50>>
           d == <<63, 62, 61, 55, 54, 53>>
<1>0. PatternSquares["corner_2x3"] = <<a, b, c, d>>
  BY Zenon DEF PatternSquares, Corner2x3Squares
<1>1. TurnsInto(a, a, 6, FALSE, FALSE, FALSE)
  BY DEF TurnsInto, Turned
<1>2. TurnsInto(a, b, 6, FALSE, TRUE, FALSE)
  BY DEF TurnsInto, Turned, Rank, File, FlippedFiles
<1>3. TurnsInto(a, c, 6, FALSE, FALSE, TRUE)
  BY DEF TurnsInto, Turned, Rank, File, FlippedRanks
<1>4. TurnsInto(a, d, 6, FALSE, TRUE, TRUE)
  BY DEF TurnsInto, Turned, Rank, File, FlippedFiles, FlippedRanks
<1> HIDE DEF a, b, c, d
<1>5. TurnOf(a, a, 6) /\ TurnOf(a, b, 6) /\ TurnOf(a, c, 6) /\ TurnOf(a, d, 6)
  BY <1>1, <1>2, <1>3, <1>4 DEF TurnOf
<1> QED
  BY <1>0, <1>5, FourTurned

LEMMA TurnsCorner3x3 == Width = 8 => AllTurned("corner_3x3", 9)
<1> SUFFICES ASSUME Width = 8
             PROVE  AllTurned("corner_3x3", 9)
  OBVIOUS
<1> DEFINE a == <<0, 1, 2, 8, 9, 10, 16, 17, 18>>
           b == <<7, 6, 5, 15, 14, 13, 23, 22, 21>>
           c == <<56, 57, 58, 48, 49, 50, 40, 41, 42>>
           d == <<63, 62, 61, 55, 54, 53, 47, 46, 45>>
<1>0. PatternSquares["corner_3x3"] = <<a, b, c, d>>
  BY Zenon DEF PatternSquares
<1>1. TurnsInto(a, a, 9, FALSE, FALSE, FALSE)
  BY DEF TurnsInto, Turned
<1>2. TurnsInto(a, b, 9, FALSE, TRUE, FALSE)
  BY DEF TurnsInto, Turned, Rank, File, FlippedFiles
<1>3. TurnsInto(a, c, 9, FALSE, FALSE, TRUE)
  BY DEF TurnsInto, Turned, Rank, File, FlippedRanks
<1>4. TurnsInto(a, d, 9, FALSE, TRUE, TRUE)
  BY DEF TurnsInto, Turned, Rank, File, FlippedFiles, FlippedRanks
<1> HIDE DEF a, b, c, d
<1>5. TurnOf(a, a, 9) /\ TurnOf(a, b, 9) /\ TurnOf(a, c, 9) /\ TurnOf(a, d, 9)
  BY <1>1, <1>2, <1>3, <1>4 DEF TurnOf
<1> QED
  BY <1>0, <1>5, FourTurned

LEMMA TurnsEdge8 == Width = 8 => AllTurned("edge_8", 8)
<1> SUFFICES ASSUME Width = 8
             PROVE  AllTurned("edge_8", 8)
  OBVIOUS
<1> DEFINE a == Line8(0, 1)
           b == Line8(56, 1)
           c == Line8(0, 8)
           d == Line8(7, 8)
<1>0. PatternSquares["edge_8"] = <<a, b, c, d>>
  BY Zenon DEF PatternSquares
<1>1. TurnsInto(a, a, 8, FALSE, FALSE, FALSE)
  BY DEF TurnsInto, Turned, Line8
<1>2. TurnsInto(a, b, 8, FALSE, FALSE, TRUE)
  BY DEF TurnsInto, Turned, Rank, File, FlippedRanks, Line8
<1>3. TurnsInto(a, c, 8, TRUE, FALSE, FALSE)
  BY DEF TurnsInto, Turned, Rank, File, Transposed, Line8
<1>4. TurnsInto(a, d, 8, TRUE, TRUE, FALSE)
  BY DEF TurnsInto, Turned, Rank, File, Transposed, FlippedFiles, Line8
<1> HIDE DEF a, b, c, d
<1>5. TurnOf(a, a, 8) /\ TurnOf(a, b, 8) /\ TurnOf(a, c, 8) /\ TurnOf(a, d, 8)
  BY <1>1, <1>2, <1>3, <1>4 DEF TurnOf
<1> QED
  BY <1>0, <1>5, FourTurned

LEMMA TurnsEdgeX10 == Width = 8 => AllTurned("edge_x_10", 10)
<1> SUFFICES ASSUME Width = 8
             PROVE  AllTurned("edge_x_10", 10)
  OBVIOUS
<1> DEFINE a == Line8(0, 1) \o <<9, 14>>
           b == Line8(56, 1) \o <<49, 54>>
           c == Line8(0, 8) \o <<9, 49>>
           d == Line8(7, 8) \o <<14, 54>>
<1>0. PatternSquares["edge_x_10"] = <<a, b, c, d>>
  BY Zenon DEF PatternSquares, EdgeX10Squares
<1>1. TurnsInto(a, a, 10, FALSE, FALSE, FALSE)
  BY DEF TurnsInto, Turned, Line8
<1>2. TurnsInto(a, b, 10, FALSE, FALSE, TRUE)
  BY DEF TurnsInto, Turned, Rank, File, FlippedRanks, Line8
<1>3. TurnsInto(a, c, 10, TRUE, FALSE, FALSE)
  BY DEF TurnsInto, Turned, Rank, File, Transposed, Line8
<1>4. TurnsInto(a, d, 10, TRUE, TRUE, FALSE)
  BY DEF TurnsInto, Turned, Rank, File, Transposed, FlippedFiles, Line8
<1> HIDE DEF a, b, c, d
<1>5. TurnOf(a, a, 10) /\ TurnOf(a, b, 10) /\ TurnOf(a, c, 10) /\ TurnOf(a, d, 10)
  BY <1>1, <1>2, <1>3, <1>4 DEF TurnOf
<1> QED
  BY <1>0, <1>5, FourTurned

LEMMA TurnsDiagonal4 == Width = 8 => AllTurned("diagonal_4", 4)
<1> SUFFICES ASSUME Width = 8
             PROVE  AllTurned("diagonal_4", 4)
  OBVIOUS
<1> DEFINE a == <<4, 13, 22, 31>>
           b == <<32, 41, 50, 59>>
           c == <<3, 10, 17, 24>>
           d == <<39, 46, 53, 60>>
<1>0. PatternSquares["diagonal_4"] = <<a, b, c, d>>
  BY Zenon DEF PatternSquares
<1>1. TurnsInto(a, a, 4, FALSE, FALSE, FALSE)
  BY DEF TurnsInto, Turned
<1>2. TurnsInto(a, b, 4, TRUE, FALSE, FALSE)
  BY DEF TurnsInto, Turned, Rank, File, Transposed
<1>3. TurnsInto(a, c, 4, FALSE, TRUE, FALSE)
  BY DEF TurnsInto, Turned, Rank, File, FlippedFiles
<1>4. TurnsInto(a, d, 4, TRUE, TRUE, FALSE)
  BY DEF TurnsInto, Turned, Rank, File, Transposed, FlippedFiles
<1> HIDE DEF a, b, c, d
<1>5. TurnOf(a, a, 4) /\ TurnOf(a, b, 4) /\ TurnOf(a, c, 4) /\ TurnOf(a, d, 4)
  BY <1>1, <1>2, <1>3, <1>4 DEF TurnOf
<1> QED
  BY <1>0, <1>5, FourTurned

LEMMA TurnsDiagonal5 == Width = 8 => AllTurned("diagonal_5", 5)
<1> SUFFICES ASSUME Width = 8
             PROVE  AllTurned("diagonal_5", 5)
  OBVIOUS
<1> DEFINE a == <<3, 12, 21, 30, 39>>
           b == <<24, 33, 42, 51, 60>>
           c == <<4, 11, 18, 25, 32>>
           d == <<31, 38, 45, 52, 59>>
<1>0. PatternSquares["diagonal_5"] = <<a, b, c, d>>
  BY Zenon DEF PatternSquares
<1>1. TurnsInto(a, a, 5, FALSE, FALSE, FALSE)
  BY DEF TurnsInto, Turned
<1>2. TurnsInto(a, b, 5, TRUE, FALSE, FALSE)
  BY DEF TurnsInto, Turned, Rank, File, Transposed
<1>3. TurnsInto(a, c, 5, FALSE, TRUE, FALSE)
  BY DEF TurnsInto, Turned, Rank, File, FlippedFiles
<1>4. TurnsInto(a, d, 5, TRUE, TRUE, FALSE)
  BY DEF TurnsInto, Turned, Rank, File, Transposed, FlippedFiles
<1> HIDE DEF a, b, c, d
<1>5. TurnOf(a, a, 5) /\ TurnOf(a, b, 5) /\ TurnOf(a, c, 5) /\ TurnOf(a, d, 5)
  BY <1>1, <1>2, <1>3, <1>4 DEF TurnOf
<1> QED
  BY <1>0, <1>5, FourTurned

LEMMA TurnsDiagonal6 == Width = 8 => AllTurned("diagonal_6", 6)
<1> SUFFICES ASSUME Width = 8
             PROVE  AllTurned("diagonal_6", 6)
  OBVIOUS
<1> DEFINE a == <<2, 11, 20, 29, 38, 47>>
           b == <<16, 25, 34, 43, 52, 61>>
           c == <<5, 12, 19, 26, 33, 40>>
           d == <<23, 30, 37, 44, 51, 58>>
<1>0. PatternSquares["diagonal_6"] = <<a, b, c, d>>
  BY Zenon DEF PatternSquares
<1>1. TurnsInto(a, a, 6, FALSE, FALSE, FALSE)
  BY DEF TurnsInto, Turned
<1>2. TurnsInto(a, b, 6, TRUE, FALSE, FALSE)
  BY DEF TurnsInto, Turned, Rank, File, Transposed
<1>3. TurnsInto(a, c, 6, FALSE, TRUE, FALSE)
  BY DEF TurnsInto, Turned, Rank, File, FlippedFiles
<1>4. TurnsInto(a, d, 6, TRUE, TRUE, FALSE)
  BY DEF TurnsInto, Turned, Rank, File, Transposed, FlippedFiles
<1> HIDE DEF a, b, c, d
<1>5. TurnOf(a, a, 6) /\ TurnOf(a, b, 6) /\ TurnOf(a, c, 6) /\ TurnOf(a, d, 6)
  BY <1>1, <1>2, <1>3, <1>4 DEF TurnOf
<1> QED
  BY <1>0, <1>5, FourTurned

LEMMA TurnsDiagonal7 == Width = 8 => AllTurned("diagonal_7", 7)
<1> SUFFICES ASSUME Width = 8
             PROVE  AllTurned("diagonal_7", 7)
  OBVIOUS
<1> DEFINE a == <<1, 10, 19, 28, 37, 46, 55>>
           b == <<8, 17, 26, 35, 44, 53, 62>>
           c == <<6, 13, 20, 27, 34, 41, 48>>
           d == <<15, 22, 29, 36, 43, 50, 57>>
<1>0. PatternSquares["diagonal_7"] = <<a, b, c, d>>
  BY Zenon DEF PatternSquares
<1>1. TurnsInto(a, a, 7, FALSE, FALSE, FALSE)
  BY DEF TurnsInto, Turned
<1>2. TurnsInto(a, b, 7, TRUE, FALSE, FALSE)
  BY DEF TurnsInto, Turned, Rank, File, Transposed
<1>3. TurnsInto(a, c, 7, FALSE, TRUE, FALSE)
  BY DEF TurnsInto, Turned, Rank, File, FlippedFiles
<1>4. TurnsInto(a, d, 7, TRUE, TRUE, FALSE)
  BY DEF TurnsInto, Turned, Rank, File, Transposed, FlippedFiles
<1> HIDE DEF a, b, c, d
<1>5. TurnOf(a, a, 7) /\ TurnOf(a, b, 7) /\ TurnOf(a, c, 7) /\ TurnOf(a, d, 7)
  BY <1>1, <1>2, <1>3, <1>4 DEF TurnOf
<1> QED
  BY <1>0, <1>5, FourTurned

LEMMA TurnsDiagonal8 == Width = 8 => AllTurned("diagonal_8", 8)
<1> SUFFICES ASSUME Width = 8
             PROVE  AllTurned("diagonal_8", 8)
  OBVIOUS
<1> DEFINE a == Line8(0, 9)
           b == Line8(7, 7)
<1>0. PatternSquares["diagonal_8"] = <<a, b>>
  BY Zenon DEF PatternSquares
<1>1. TurnsInto(a, a, 8, FALSE, FALSE, FALSE)
  BY DEF TurnsInto, Turned, Line8
<1>2. TurnsInto(a, b, 8, FALSE, TRUE, FALSE)
  BY DEF TurnsInto, Turned, Rank, File, FlippedFiles, Line8
<1> HIDE DEF a, b
<1>5. TurnOf(a, a, 8) /\ TurnOf(a, b, 8)
  BY <1>1, <1>2 DEF TurnOf
<1> QED
  BY <1>0, <1>5 DEF AllTurned

LEMMA TurnsInnerRow8 == Width = 8 => AllTurned("inner_row_8", 8)
<1> SUFFICES ASSUME Width = 8
             PROVE  AllTurned("inner_row_8", 8)
  OBVIOUS
<1> DEFINE a == Line8(8, 1)
           b == Line8(48, 1)
           c == Line8(1, 8)
           d == Line8(6, 8)
<1>0. PatternSquares["inner_row_8"] = <<a, b, c, d>>
  BY Zenon DEF PatternSquares
<1>1. TurnsInto(a, a, 8, FALSE, FALSE, FALSE)
  BY DEF TurnsInto, Turned, Line8
<1>2. TurnsInto(a, b, 8, FALSE, FALSE, TRUE)
  BY DEF TurnsInto, Turned, Rank, File, FlippedRanks, Line8
<1>3. TurnsInto(a, c, 8, TRUE, FALSE, FALSE)
  BY DEF TurnsInto, Turned, Rank, File, Transposed, Line8
<1>4. TurnsInto(a, d, 8, TRUE, TRUE, FALSE)
  BY DEF TurnsInto, Turned, Rank, File, Transposed, FlippedFiles, Line8
<1> HIDE DEF a, b, c, d
<1>5. TurnOf(a, a, 8) /\ TurnOf(a, b, 8) /\ TurnOf(a, c, 8) /\ TurnOf(a, d, 8)
  BY <1>1, <1>2, <1>3, <1>4 DEF TurnOf
<1> QED
  BY <1>0, <1>5, FourTurned

LEMMA TurnsCorner2x4 == Width = 8 => AllTurned("corner_2x4", 8)
<1> SUFFICES ASSUME Width = 8
             PROVE  AllTurned("corner_2x4", 8)
  OBVIOUS
<1> DEFINE a == <<0, 1, 2, 3, 8, 9, 10, 11>>
           b == <<7, 6, 5, 4, 15, 14, 13, 12>>
           c == <<56, 57, 58, 59, 48, 49, 50, 51>>
           d == <<63, 62, 61, 60, 55, 54, 53, 52>>
<1>0. PatternSquares["corner_2x4"] = <<a, b, c, d>>
  BY Zenon DEF PatternSquares
<1>1. TurnsInto(a, a, 8, FALSE, FALSE, FALSE)
  BY DEF TurnsInto, Turned
<1>2. TurnsInto(a, b, 8, FALSE, TRUE, FALSE)
  BY DEF TurnsInto, Turned, Rank, File, FlippedFiles
<1>3. TurnsInto(a, c, 8, FALSE, FALSE, TRUE)
  BY DEF TurnsInto, Turned, Rank, File, FlippedRanks
<1>4. TurnsInto(a, d, 8, FALSE, TRUE, TRUE)
  BY DEF TurnsInto, Turned, Rank, File, FlippedFiles, FlippedRanks
<1> HIDE DEF a, b, c, d
<1>5. TurnOf(a, a, 8) /\ TurnOf(a, b, 8) /\ TurnOf(a, c, 8) /\ TurnOf(a, d, 8)
  BY <1>1, <1>2, <1>3, <1>4 DEF TurnOf
<1> QED
  BY <1>0, <1>5, FourTurned

(***************************************************************************)
(* What a table means for one instance it means for all.                   *)
(***************************************************************************)
AllOfLength(family, n) == \A i \in DOMAIN PatternSquares[family] : Len(PatternSquares[family][i]) = n

LEMMA TurnedOfLength ==
  ASSUME NEW family, NEW n, AllTurned(family, n)
  PROVE  AllOfLength(family, n)
BY Zenon DEF AllTurned, AllOfLength, TurnOf, TurnsInto

LEMMA LinesOfLength == AllOfLength("row_8", 8) /\ AllOfLength("column_8", 8)
<1>1. \A first, step \in Int : Len(Line8(first, step)) = 8
  BY LineOfEight
<1>2. /\ PatternSquares["row_8"] = [r \in 1 .. 8 |-> Line8(8 * (r - 1), 1)]
      /\ PatternSquares["column_8"] = [f \in 1 .. 8 |-> Line8(f - 1, 8)]
  BY Zenon DEF PatternSquares
<1> QED
  BY <1>1, <1>2 DEF AllOfLength

LEMMA ReadsBackOf ==
  ASSUME NEW b, NEW family, NEW n \in 4 .. 10, AllOfLength(family, n),
         \A index : Bounded(index, n) => index \in 0 .. TableSize[family] - 1
  PROVE  IndexReadsBack(b, family)
<1> SUFFICES ASSUME NEW i \in DOMAIN PatternSquares[family]
             PROVE  LET squares == PatternSquares[family][i]
                        index == PatternIndex(b.black, b.white, squares)
                    IN  /\ index \in 0 .. TableSize[family] - 1
                        /\ \A k \in 1 .. Len(squares) : Digit(index, k - 1) = CellState(b.black, b.white, squares[k])
  BY DEF IndexReadsBack
<1> DEFINE squares == PatternSquares[family][i]
           index == PatternIndex(b.black, b.white, squares)
<1>1. Len(squares) = n
  BY DEF AllOfLength
<1> HIDE DEF squares
<1>2. n \in 0 .. 10
  OBVIOUS
<1>3. Bounded(index, n)
  BY <1>1, IndexInTable
<1>4. DigitsTell(b.black, b.white, squares, n)
  BY <1>1, <1>2, IndexTells
<1>5. index \in 0 .. TableSize[family] - 1
  BY <1>3
<1>6. ASSUME NEW k \in 1 .. n
      PROVE  Digit(index, k - 1) = CellState(b.black, b.white, squares[k])
  <2>1. k - 1 \in 0 .. n - 1 /\ (k - 1) + 1 = k
    OBVIOUS
  <2> QED
    BY <1>4, <2>1 DEF DigitsTell
<1> QED
  BY <1>1, <1>5, <1>6 DEF squares

LEMMA AllReadBack ==
  ASSUME Width = 8, NEW b, NEW family \in Families
  PROVE  IndexReadsBack(b, family)
<1>1. CASE family = "corner_2x3"
  <2>1. AllOfLength("corner_2x3", 6)
    BY TurnsCorner2x3, TurnedOfLength
  <2>2. TableSize["corner_2x3"] = 729
    BY DEF TableSize
  <2> QED
    BY <1>1, <2>1, <2>2, ReadsBackOf DEF Bounded
<1>2. CASE family = "corner_3x3"
  <2>1. AllOfLength("corner_3x3", 9)
    BY TurnsCorner3x3, TurnedOfLength
  <2>2. TableSize["corner_3x3"] = 19683
    BY DEF TableSize
  <2> QED
    BY <1>2, <2>1, <2>2, ReadsBackOf DEF Bounded
<1>3. CASE family = "edge_8"
  <2>1. AllOfLength("edge_8", 8)
    BY TurnsEdge8, TurnedOfLength
  <2>2. TableSize["edge_8"] = 6561
    BY DEF TableSize
  <2> QED
    BY <1>3, <2>1, <2>2, ReadsBackOf DEF Bounded
<1>4. CASE family = "edge_x_10"
  <2>1. AllOfLength("edge_x_10", 10)
    BY TurnsEdgeX10, TurnedOfLength
  <2>2. TableSize["edge_x_10"] = 59049
    BY DEF TableSize
  <2> QED
    BY <1>4, <2>1, <2>2, ReadsBackOf DEF Bounded
<1>5. CASE family = "row_8"
  <2>1. AllOfLength("row_8", 8)
    BY LinesOfLength
  <2>2. TableSize["row_8"] = 6561
    BY DEF TableSize
  <2> QED
    BY <1>5, <2>1, <2>2, ReadsBackOf DEF Bounded
<1>6. CASE family = "column_8"
  <2>1. AllOfLength("column_8", 8)
    BY LinesOfLength
  <2>2. TableSize["column_8"] = 6561
    BY DEF TableSize
  <2> QED
    BY <1>6, <2>1, <2>2, ReadsBackOf DEF Bounded
<1>7. CASE family = "diagonal_4"
  <2>1. AllOfLength("diagonal_4", 4)
    BY TurnsDiagonal4, TurnedOfLength
  <2>2. TableSize["diagonal_4"] = 81
    BY DEF TableSize
  <2> QED
    BY <1>7, <2>1, <2>2, ReadsBackOf DEF Bounded
<1>8. CASE family = "diagonal_5"
  <2>1. AllOfLength("diagonal_5", 5)
    BY TurnsDiagonal5, TurnedOfLength
  <2>2. TableSize["diagonal_5"] = 243
    BY DEF TableSize
  <2> QED
    BY <1>8, <2>1, <2>2, ReadsBackOf DEF Bounded
<1>9. CASE family = "diagonal_6"
  <2>1. AllOfLength("diagonal_6", 6)
    BY TurnsDiagonal6, TurnedOfLength
  <2>2. TableSize["diagonal_6"] = 729
    BY DEF TableSize
  <2> QED
    BY <1>9, <2>1, <2>2, ReadsBackOf DEF Bounded
<1>10. CASE family = "diagonal_7"
  <2>1. AllOfLength("diagonal_7", 7)
    BY TurnsDiagonal7, TurnedOfLength
  <2>2. TableSize["diagonal_7"] = 2187
    BY DEF TableSize
  <2> QED
    BY <1>10, <2>1, <2>2, ReadsBackOf DEF Bounded
<1>11. CASE family = "diagonal_8"
  <2>1. AllOfLength("diagonal_8", 8)
    BY TurnsDiagonal8, TurnedOfLength
  <2>2. TableSize["diagonal_8"] = 6561
    BY DEF TableSize
  <2> QED
    BY <1>11, <2>1, <2>2, ReadsBackOf DEF Bounded
<1>12. CASE family = "inner_row_8"
  <2>1. AllOfLength("inner_row_8", 8)
    BY TurnsInnerRow8, TurnedOfLength
  <2>2. TableSize["inner_row_8"] = 6561
    BY DEF TableSize
  <2> QED
    BY <1>12, <2>1, <2>2, ReadsBackOf DEF Bounded
<1>13. CASE family = "corner_2x4"
  <2>1. AllOfLength("corner_2x4", 8)
    BY TurnsCorner2x4, TurnedOfLength
  <2>2. TableSize["corner_2x4"] = 6561
    BY DEF TableSize
  <2> QED
    BY <1>13, <2>1, <2>2, ReadsBackOf DEF Bounded
<1>14. family \in {"corner_2x3", "corner_3x3", "edge_8", "edge_x_10", "row_8", "column_8", "diagonal_4",
                   "diagonal_5", "diagonal_6", "diagonal_7", "diagonal_8", "inner_row_8", "corner_2x4"}
  BY DEF Families, PatternSquares
<1> QED
  BY <1>14, <1>1, <1>2, <1>3, <1>4, <1>5, <1>6, <1>7, <1>8, <1>9, <1>10, <1>11, <1>12, <1>13

LEMMA AlignedBy ==
  ASSUME Width = 8, NEW b, NEW n \in 0 .. 10, NEW first, NEW second, TurnOf(first, second, n)
  PROVE  Aligned(b, first, second)
<1>1. PICK transpose \in BOOLEAN, files \in BOOLEAN, ranks \in BOOLEAN :
             TurnsInto(first, second, n, transpose, files, ranks)
  BY DEF TurnOf
<1> DEFINE turn(s) == Turned(s, transpose, files, ranks)
           seen(discsOf) == { s \in Squares : turn(s) \in discsOf }
<1>2. /\ first \in Seq(0 .. 63) /\ second \in Seq(0 .. 63) /\ Len(first) = n /\ Len(second) = n
      /\ \A k \in 1 .. n : second[k] = turn(first[k])
  BY <1>1 DEF TurnsInto
<1>3. \A k \in 1 .. n : first[k] \in Squares
  <2>1. Squares = 0 .. 63
    BY DEF Squares
  <2>2. \A S : first \in Seq(S) => \A k \in 1 .. Len(first) : first[k] \in S
    OBVIOUS
  <2> QED
    BY <1>2, <2>1, <2>2, Zenon
<1> HIDE DEF turn
<1>4. second = [k \in DOMAIN first |-> turn(first[k])]
  BY <1>2
<1>5. \A k \in 1 .. n : CellState(b.black, b.white, second[k]) = CellState(seen(b.black), seen(b.white), first[k])
  BY <1>2, <1>3 DEF CellState
<1> HIDE DEF seen
<1>6. StatesOf(b.black, b.white, second, n) = StatesOf(seen(b.black), seen(b.white), first, n)
  <2> DEFINE A(k) == IF k < n THEN CellState(b.black, b.white, second[k + 1]) ELSE 0
             B(k) == IF k < n THEN CellState(seen(b.black), seen(b.white), first[k + 1]) ELSE 0
  <2>1. \A k \in 0 .. 9 : k < n => k + 1 \in 1 .. n
    OBVIOUS
  <2>2. \A k \in 0 .. 9 : A(k) = B(k)
    BY <1>5, <2>1
  <2>3. /\ StatesOf(b.black, b.white, second, n) = [k \in 0 .. 9 |-> A(k)]
        /\ StatesOf(seen(b.black), seen(b.white), first, n) = [k \in 0 .. 9 |-> B(k)]
    BY Zenon DEF StatesOf
  <2> HIDE DEF A, B
  <2> QED
    BY <2>2, <2>3
<1>7. PatternIndex(b.black, b.white, second) = PatternIndex(seen(b.black), seen(b.white), first)
  <2> DEFINE a == StatesOf(b.black, b.white, second, n)
  <2>1. OfDigits(PatternIndex(b.black, b.white, second), a)
    BY <1>2, IndexOfStates
  <2>2. OfDigits(PatternIndex(seen(b.black), seen(b.white), first), a)
    <3>1. OfDigits(PatternIndex(seen(b.black), seen(b.white), first), StatesOf(seen(b.black), seen(b.white), first, n))
      BY <1>2, IndexOfStates
    <3> QED
      BY <1>6, <3>1
  <2> HIDE DEF a
  <2> QED
    BY <2>1, <2>2 DEF OfDigits
<1> QED
  BY <1>4, <1>7 DEF Aligned, turn, seen

LEMMA AllAligned ==
  ASSUME Width = 8, NEW b, NEW family \in Families \ {"row_8", "column_8"}
  PROVE  \A i \in DOMAIN PatternSquares[family] :
           Aligned(b, PatternSquares[family][1], PatternSquares[family][i])
<1>0. ASSUME NEW n \in 0 .. 10, AllTurned(family, n)
      PROVE  \A i \in DOMAIN PatternSquares[family] :
               Aligned(b, PatternSquares[family][1], PatternSquares[family][i])
  BY <1>0, AlignedBy DEF AllTurned
<1>1. CASE family = "corner_2x3"
  <2>1. AllTurned(family, 6)
    BY <1>1, TurnsCorner2x3
  <2> QED
    BY <1>0, <2>1
<1>2. CASE family = "corner_3x3"
  <2>1. AllTurned(family, 9)
    BY <1>2, TurnsCorner3x3
  <2> QED
    BY <1>0, <2>1
<1>3. CASE family = "edge_8"
  <2>1. AllTurned(family, 8)
    BY <1>3, TurnsEdge8
  <2> QED
    BY <1>0, <2>1
<1>4. CASE family = "edge_x_10"
  <2>1. AllTurned(family, 10)
    BY <1>4, TurnsEdgeX10
  <2> QED
    BY <1>0, <2>1
<1>5. CASE family = "diagonal_4"
  <2>1. AllTurned(family, 4)
    BY <1>5, TurnsDiagonal4
  <2> QED
    BY <1>0, <2>1
<1>6. CASE family = "diagonal_5"
  <2>1. AllTurned(family, 5)
    BY <1>6, TurnsDiagonal5
  <2> QED
    BY <1>0, <2>1
<1>7. CASE family = "diagonal_6"
  <2>1. AllTurned(family, 6)
    BY <1>7, TurnsDiagonal6
  <2> QED
    BY <1>0, <2>1
<1>8. CASE family = "diagonal_7"
  <2>1. AllTurned(family, 7)
    BY <1>8, TurnsDiagonal7
  <2> QED
    BY <1>0, <2>1
<1>9. CASE family = "diagonal_8"
  <2>1. AllTurned(family, 8)
    BY <1>9, TurnsDiagonal8
  <2> QED
    BY <1>0, <2>1
<1>10. CASE family = "inner_row_8"
  <2>1. AllTurned(family, 8)
    BY <1>10, TurnsInnerRow8
  <2> QED
    BY <1>0, <2>1
<1>11. CASE family = "corner_2x4"
  <2>1. AllTurned(family, 8)
    BY <1>11, TurnsCorner2x4
  <2> QED
    BY <1>0, <2>1
<1>12. family \in {"corner_2x3", "corner_3x3", "edge_8", "edge_x_10", "diagonal_4", "diagonal_5",
                   "diagonal_6", "diagonal_7", "diagonal_8", "inner_row_8", "corner_2x4"}
  BY DEF Families, PatternSquares
<1> QED
  BY <1>12, <1>1, <1>2, <1>3, <1>4, <1>5, <1>6, <1>7, <1>8, <1>9, <1>10, <1>11

LEMMA RowsAndColumns ==
  ASSUME Width = 8, NEW n \in 1 .. 8, NEW k \in 1 .. 8
  PROVE  PatternSquares["column_8"][n][k] = Transposed(PatternSquares["row_8"][n][k])
<1> DEFINE r == PatternSquares["row_8"]
           c == PatternSquares["column_8"]
<1>1. /\ r = [m \in 1 .. 8 |-> Line8(8 * (m - 1), 1)]
      /\ c = [m \in 1 .. 8 |-> Line8(m - 1, 8)]
  BY Zenon DEF PatternSquares
<1> HIDE DEF r, c
<1>2. r[n][k] = 8 * (n - 1) + (k - 1) * 1 /\ c[n][k] = n - 1 + (k - 1) * 8
  BY <1>1 DEF Line8
<1>3. c[n][k] = Transposed(r[n][k])
  BY <1>2 DEF Transposed, Rank, File
<1> QED
  BY <1>3 DEF r, c

(***************************************************************************)
(* A symmetry: a function that undoes itself, and what it makes of sets    *)
(* and of sums.                                                            *)
(***************************************************************************)
Involution(t, D) == t \in [D -> D] /\ \A x \in D : t[t[x]] = x
Turn(t, S) == { t[x] : x \in S }

LEMMA TurnMember ==
  ASSUME NEW D, NEW t, Involution(t, D), NEW S \in SUBSET D
  PROVE  /\ Turn(t, S) \in SUBSET D
         /\ \A x \in D : x \in Turn(t, S) <=> t[x] \in S
BY DEF Involution, Turn

TurnsSets(t, D) ==
  /\ \A S \in SUBSET D : Turn(t, S) \in SUBSET D /\ Turn(t, Turn(t, S)) = S
  /\ \A S, T \in SUBSET D :
       /\ Turn(t, S \cap T) = Turn(t, S) \cap Turn(t, T)
       /\ Turn(t, S \cup T) = Turn(t, S) \cup Turn(t, T)
       /\ Turn(t, S \ T) = Turn(t, S) \ Turn(t, T)
  /\ Turn(t, D) = D

LEMMA TurnParts ==
  ASSUME NEW D, NEW t, Involution(t, D)
  PROVE  TurnsSets(t, D)
<1>1. \A R \in SUBSET D : Turn(t, R) \in SUBSET D /\ \A x \in D : x \in Turn(t, R) <=> t[x] \in R
  BY TurnMember
<1>2. \A x \in D : t[x] \in D /\ t[t[x]] = x
  BY DEF Involution
<1>3. \A S, T \in SUBSET D : S \cap T \in SUBSET D /\ S \cup T \in SUBSET D /\ S \ T \in SUBSET D
  OBVIOUS
<1>4. ASSUME NEW S \in SUBSET D
      PROVE  Turn(t, Turn(t, S)) = S
  BY <1>1, <1>2
<1>5. ASSUME NEW S \in SUBSET D, NEW T \in SUBSET D
      PROVE  Turn(t, S \cap T) = Turn(t, S) \cap Turn(t, T)
  BY <1>1, <1>3
<1>6. ASSUME NEW S \in SUBSET D, NEW T \in SUBSET D
      PROVE  Turn(t, S \cup T) = Turn(t, S) \cup Turn(t, T)
  BY <1>1, <1>3
<1>7. ASSUME NEW S \in SUBSET D, NEW T \in SUBSET D
      PROVE  Turn(t, S \ T) = Turn(t, S) \ Turn(t, T)
  BY <1>1, <1>3
<1>8. Turn(t, D) = D
  BY <1>1, <1>2
<1> QED
  BY <1>1, <1>4, <1>5, <1>6, <1>7, <1>8 DEF TurnsSets

LEMMA TurnCounts ==
  ASSUME NEW D, IsFiniteSet(D), NEW t, Involution(t, D), NEW S \in SUBSET D
  PROVE  Cardinality(Turn(t, S)) = Cardinality(S)
<1> DEFINE f == [x \in S |-> t[x]]
           T == Turn(t, S)
<1>1. \A x \in S : t[x] \in T /\ t[t[x]] = x
  BY DEF Involution, Turn
<1>2. \A y \in T : \E x \in S : t[x] = y
  BY DEF Turn
<1> HIDE DEF T
<1>3. f \in Injection(S, T)
  BY <1>1 DEF Injection, IsInjective
<1>4. f \in Surjection(S, T)
  BY <1>1, <1>2 DEF Surjection
<1>5. ExistsBijection(S, T)
  BY <1>3, <1>4 DEF ExistsBijection, Bijection
<1>6. IsFiniteSet(S)
  BY FS_Subset
<1> QED
  BY <1>5, <1>6, FS_Bijection DEF T

\* Two sets each of which is mapped into the other.
LEMMA TurnedSet ==
  ASSUME NEW D, NEW t, Involution(t, D), NEW A \in SUBSET D, NEW B \in SUBSET D,
         \A x \in A : t[x] \in B, \A x \in B : t[x] \in A
  PROVE  B = Turn(t, A)
BY DEF Involution, Turn

\* A sum does not depend on the names of its terms.
LEMMA SumMoves ==
  ASSUME NEW D, IsFiniteSet(D), NEW t, Involution(t, D), NEW f, NEW g, DOMAIN f = D, DOMAIN g = D,
         \A x \in D : f[x] \in Int /\ g[x] = f[t[x]]
  PROVE  SumOf(g) = SumOf(f)
<1>1. PICK I : IsSum(I, f, D)
  BY SumExists
<1>2. PICK J : IsSum(J, g, D)
  BY SumExists
<1>3. \A x \in D : f[x] \in Int /\ g[x] \in Int /\ t[x] \in D
  BY DEF Involution
<1>4. J[D] = I[Turn(t, D)]
  <2> DEFINE Bad == { s \in SUBSET D : J[s] # I[Turn(t, s)] }
             T == { Cardinality(s) : s \in Bad }
  <2> SUFFICES ASSUME Bad # {}
               PROVE  FALSE
    OBVIOUS
  <2>1. T \in SUBSET Nat /\ T # {}
    BY FS_Subset, FS_CardinalityType
  <2>2. PICK k \in T : \A m \in T : k <= m
    <3> HIDE DEF T
    <3> QED
      BY <2>1, LeastElement
  <2>3. PICK s \in Bad : k = Cardinality(s)
    OBVIOUS
  <2>4. SumsDown(I, f, D) /\ SumsDown(J, g, D)
    BY <1>1, <1>2, SumSteps
  <2>5. s # {}
    <3>1. I[{}] = 0 /\ J[{}] = 0
      BY <2>4 DEF SumsDown
    <3>2. Turn(t, {}) = {}
      BY DEF Turn
    <3> QED
      BY <3>1, <3>2
  <2>6. PICK x \in s : J[s] = g[x] + J[s \ {x}]
    BY <2>4, <2>5 DEF SumsDown
  <2>7. s \ {x} \in SUBSET D /\ Cardinality(s \ {x}) \in Nat /\ Cardinality(s) = Cardinality(s \ {x}) + 1
    BY OneLess
  <2>8. J[s \ {x}] = I[Turn(t, s \ {x})]
    <3> SUFFICES ASSUME s \ {x} \in Bad
                 PROVE  FALSE
      BY <2>7
    <3>1. k <= Cardinality(s \ {x})
      BY <2>2
    <3> QED
      BY <2>3, <2>7, <3>1
  <2>9. Turn(t, s) \in SUBSET D /\ t[x] \in Turn(t, s) /\ Turn(t, s \ {x}) = Turn(t, s) \ {t[x]}
    BY DEF Involution, Turn
  <2>10. I[Turn(t, s)] = f[t[x]] + I[Turn(t, s) \ {t[x]}]
    BY <1>1, <1>3, <2>9, SumTakes
  <2> QED
    BY <2>6, <2>8, <2>9, <2>10
<1>5. Turn(t, D) = D
  BY TurnParts DEF TurnsSets
<1>6. I[D] = SumOfAll(f, D) /\ J[D] = SumOfAll(g, D)
  BY <1>1, <1>2, <1>3, SumOfAllIs
<1>7. SumOf(f) = SumOfAll(f, D) /\ SumOf(g) = SumOfAll(g, D)
  BY <1>3, SumOfIs
<1> QED
  BY <1>4, <1>5, <1>6, <1>7

(***************************************************************************)
(* A symmetry of the board takes the squares along a step to those along   *)
(* another one.                                                            *)
(***************************************************************************)
Follows(t, df, dr, ef, er) ==
  \A s \in Squares : \A k \in Nat :
    /\ On(s, df, dr, k) => On(t[s], ef, er, k)
    /\ On(s, df, dr, k) => Away(t[s], ef, er, k) = t[Away(s, df, dr, k)]
Symmetry(t) ==
  /\ Involution(t, Squares)
  /\ \A df, dr \in Unit : <<df, dr>> # <<0, 0>> =>
       \E ef, er \in Unit : <<ef, er>> # <<0, 0>> /\ Follows(t, df, dr, ef, er)

LEMMA SymmetryTurns ==
  ASSUME NEW t, Symmetry(t)
  PROVE  TurnsSets(t, Squares) /\ \A S \in SUBSET Squares : Cardinality(Turn(t, S)) = Cardinality(S)
<1>1. Involution(t, Squares)
  BY DEF Symmetry
<1>2. \A S \in SUBSET Squares : Cardinality(Turn(t, S)) = Cardinality(S)
  BY <1>1, SquaresFinite, TurnCounts
<1> QED
  BY <1>1, <1>2, TurnParts

LEMMA AdjacentMoves ==
  ASSUME NEW t, Symmetry(t), NEW S \in SUBSET Squares, NEW q \in AdjacentSquares(S)
  PROVE  t[q] \in AdjacentSquares(Turn(t, S))
<1>1. PICK d \in Directions : q \in Shift(S, d)
  BY DEF AdjacentSquares
<1>2. PICK df \in Unit, dr \in Unit : <<df, dr>> # <<0, 0>> /\ d = StepOf(df, dr)
  BY DirectionsAreSteps
<1>3. PICK s \in S : On(s, df, dr, 1) /\ q = Away(s, df, dr, 1)
  BY <1>1, <1>2, ShiftIs
<1>4. PICK ef \in Unit, er \in Unit : <<ef, er>> # <<0, 0>> /\ Follows(t, df, dr, ef, er)
  BY <1>2 DEF Symmetry
<1>5. s \in Squares /\ t[s] \in Turn(t, S) /\ Turn(t, S) \in SUBSET Squares
  <2>1. Turn(t, S) \in SUBSET Squares
    BY SymmetryTurns DEF TurnsSets
  <2> QED
    BY <1>3, <2>1 DEF Turn
<1>6. On(t[s], ef, er, 1) /\ Away(t[s], ef, er, 1) = t[q]
  <2>1. 1 \in Nat
    OBVIOUS
  <2> QED
    BY <1>3, <1>4, <1>5, <2>1 DEF Follows
<1>7. t[q] \in Shift(Turn(t, S), StepOf(ef, er))
  BY <1>5, <1>6, ShiftIs
<1>8. StepOf(ef, er) \in Directions
  BY <1>4, DirectionsAreSteps
<1> QED
  BY <1>7, <1>8 DEF AdjacentSquares

LEMMA AdjacentTurn ==
  ASSUME NEW t, Symmetry(t), NEW S \in SUBSET Squares
  PROVE  AdjacentSquares(Turn(t, S)) = Turn(t, AdjacentSquares(S))
<1>1. \A T : AdjacentSquares(T) \in SUBSET Squares
  BY DEF AdjacentSquares, Shift
<1>2. Involution(t, Squares) /\ Turn(t, S) \in SUBSET Squares /\ Turn(t, Turn(t, S)) = S
  BY SymmetryTurns DEF Symmetry, TurnsSets
<1>3. \A q \in AdjacentSquares(S) : t[q] \in AdjacentSquares(Turn(t, S))
  BY AdjacentMoves
<1>4. \A q \in AdjacentSquares(Turn(t, S)) : t[q] \in AdjacentSquares(S)
  BY <1>2, AdjacentMoves
<1> QED
  BY <1>1, <1>2, <1>3, <1>4, TurnedSet

LEMMA RowMoves ==
  ASSUME NEW t, Symmetry(t), NEW player \in SUBSET Squares, NEW opp \in SUBSET Squares,
         NEW df, NEW dr, NEW ef, NEW er, Follows(t, df, dr, ef, er), NEW q, RowTo(player, opp, df, dr, q)
  PROVE  RowTo(Turn(t, player), Turn(t, opp), ef, er, t[q])
<1>1. PICK p \in player, n \in 1 .. CaptureSteps + 1 :
        RowOf(p, df, dr, opp, n) /\ On(p, df, dr, n + 1) /\ q = Away(p, df, dr, n + 1)
  BY DEF RowTo
<1>2. p \in Squares /\ t[p] \in Turn(t, player) /\ n \in Nat /\ n + 1 \in Nat
  BY RulesAssumption DEF Turn
<1>3. On(t[p], ef, er, n + 1) /\ t[q] = Away(t[p], ef, er, n + 1)
  BY <1>1, <1>2 DEF Follows
<1>4. ASSUME NEW j \in 1 .. n
      PROVE  On(t[p], ef, er, j) /\ Away(t[p], ef, er, j) \in Turn(t, opp)
  <2>1. j \in Nat /\ On(p, df, dr, j) /\ Away(p, df, dr, j) \in opp
    BY <1>1, <1>2 DEF RowOf
  <2>2. On(t[p], ef, er, j) /\ Away(t[p], ef, er, j) = t[Away(p, df, dr, j)]
    BY <1>2, <2>1 DEF Follows
  <2> QED
    BY <2>1, <2>2 DEF Turn
<1>5. RowOf(t[p], ef, er, Turn(t, opp), n)
  BY <1>4 DEF RowOf
<1> QED
  BY <1>2, <1>3, <1>5 DEF RowTo

LEMMA MovesMove ==
  ASSUME NEW t, Symmetry(t), NEW player \in SUBSET Squares, NEW opp \in SUBSET Squares,
         NEW q \in LegalMovesFor(player, opp)
  PROVE  t[q] \in LegalMovesFor(Turn(t, player), Turn(t, opp))
<1> DEFINE empty == Squares \ (player \cup opp)
           p == Turn(t, player)
           o == Turn(t, opp)
           blank == Squares \ (p \cup o)
<1>0. empty \in SUBSET Squares /\ blank \in SUBSET Squares /\ p \in SUBSET Squares /\ o \in SUBSET Squares
  BY SymmetryTurns DEF TurnsSets
<1>1. PICK d \in Directions : q \in LegalMovesInDirection(player, opp, empty, d)
  BY Zenon DEF LegalMovesFor
<1>2. PICK df \in Unit, dr \in Unit : <<df, dr>> # <<0, 0>> /\ d = StepOf(df, dr)
  BY DirectionsAreSteps
<1>3. PICK ef \in Unit, er \in Unit : <<ef, er>> # <<0, 0>> /\ Follows(t, df, dr, ef, er)
  BY <1>2 DEF Symmetry
<1>4. q \in empty /\ RowTo(player, opp, df, dr, q)
  <2> HIDE DEF empty
  <2> QED
    BY <1>0, <1>1, <1>2, MovesInDirection
<1>5. t[q] \in blank
  <2>1. TurnsSets(t, Squares) /\ player \cup opp \in SUBSET Squares
    BY SymmetryTurns
  <2>2. Turn(t, empty) = Squares \ Turn(t, player \cup opp)
    BY <2>1 DEF TurnsSets
  <2>3. Turn(t, player \cup opp) = p \cup o
    BY <2>1 DEF TurnsSets
  <2>4. Turn(t, empty) = blank
    BY <2>2, <2>3
  <2>5. t[q] \in Turn(t, empty)
    BY <1>4 DEF Turn
  <2> QED
    BY <2>4, <2>5
<1>6. RowTo(p, o, ef, er, t[q])
  BY <1>3, <1>4, RowMoves
<1> HIDE DEF blank, p, o
<1>7. t[q] \in LegalMovesInDirection(p, o, blank, StepOf(ef, er))
  BY <1>0, <1>5, <1>6, MovesInDirection
<1>8. StepOf(ef, er) \in Directions
  BY <1>3, DirectionsAreSteps
<1>9. t[q] \in LegalMovesFor(p, o)
  BY <1>7, <1>8, Zenon DEF LegalMovesFor, blank
<1> QED
  BY <1>9 DEF p, o

LEMMA MovesTurn ==
  ASSUME NEW t, Symmetry(t), NEW player \in SUBSET Squares, NEW opp \in SUBSET Squares
  PROVE  LegalMovesFor(Turn(t, player), Turn(t, opp)) = Turn(t, LegalMovesFor(player, opp))
<1> DEFINE p == Turn(t, player)
           o == Turn(t, opp)
<1>1. \A a, b : LegalMovesFor(a, b) \in SUBSET Squares
  BY MovesAreEmpty
<1>2. /\ Involution(t, Squares) /\ p \in SUBSET Squares /\ o \in SUBSET Squares
      /\ Turn(t, p) = player /\ Turn(t, o) = opp
  BY SymmetryTurns DEF Symmetry, TurnsSets
<1>3. \A q \in LegalMovesFor(player, opp) : t[q] \in LegalMovesFor(p, o)
  BY MovesMove
<1> HIDE DEF p, o
<1>4. \A q \in LegalMovesFor(p, o) : t[q] \in LegalMovesFor(player, opp)
  BY <1>2, MovesMove
<1>5. LegalMovesFor(p, o) = Turn(t, LegalMovesFor(player, opp))
  BY <1>1, <1>2, <1>3, <1>4, TurnedSet
<1> QED
  BY <1>5 DEF p, o

(***************************************************************************)
(* The three symmetries every other one is made of.                        *)
(***************************************************************************)
FilesTurn == [s \in Squares |-> FlippedFiles(s)]
RanksTurn == [s \in Squares |-> FlippedRanks(s)]
Transposition == [s \in Squares |-> Transposed(s)]

LEMMA SameSquare ==
  ASSUME NEW s \in Squares, NEW q \in Squares, File(s) = File(q), Rank(s) = Rank(q)
  PROVE  s = q
BY Coordinates

LEMMA ImagesAre ==
  \A S \in SUBSET Squares :
    /\ Image(S, FlippedFiles) = Turn(FilesTurn, S)
    /\ Image(S, FlippedRanks) = Turn(RanksTurn, S)
    /\ Image(S, Transposed) = Turn(Transposition, S)
<1> SUFFICES ASSUME NEW S \in SUBSET Squares
             PROVE  /\ Image(S, FlippedFiles) = Turn(FilesTurn, S)
                    /\ Image(S, FlippedRanks) = Turn(RanksTurn, S)
                    /\ Image(S, Transposed) = Turn(Transposition, S)
  OBVIOUS
<1>1. /\ \A s \in S : FilesTurn[s] = FlippedFiles(s)
      /\ \A s \in S : RanksTurn[s] = FlippedRanks(s)
      /\ \A s \in S : Transposition[s] = Transposed(s)
  BY DEF FilesTurn, RanksTurn, Transposition
<1> QED
  BY <1>1 DEF Image, Turn

\* A symmetry that keeps steps on the board and turns them by their coordinates.
LEMMA FollowsBy ==
  ASSUME NEW t, \A s \in Squares : t[s] \in Squares,
         NEW df \in Unit, NEW dr \in Unit, NEW ef \in Unit, NEW er \in Unit,
         \A s \in Squares : \A k \in Nat : On(s, df, dr, k) =>
           /\ On(t[s], ef, er, k)
           /\ File(t[Away(s, df, dr, k)]) = File(t[s]) + k * ef
           /\ Rank(t[Away(s, df, dr, k)]) = Rank(t[s]) + k * er
  PROVE  Follows(t, df, dr, ef, er)
<1> SUFFICES ASSUME NEW s \in Squares, NEW k \in Nat, On(s, df, dr, k)
             PROVE  Away(t[s], ef, er, k) = t[Away(s, df, dr, k)]
  BY DEF Follows
<1>1. t[s] \in Squares /\ On(t[s], ef, er, k) /\ k \in Int
  OBVIOUS
<1>2. Away(s, df, dr, k) \in Squares
  BY AwayOn
<1>3. /\ Away(t[s], ef, er, k) \in Squares
      /\ File(Away(t[s], ef, er, k)) = File(t[s]) + k * ef
      /\ Rank(Away(t[s], ef, er, k)) = Rank(t[s]) + k * er
  BY <1>1, AwayOn
<1>4. t[Away(s, df, dr, k)] \in Squares
  BY <1>2
<1> QED
  BY <1>2, <1>3, <1>4, SameSquare

LEMMA FilesTurnAt ==
  ASSUME Width = 8, NEW s \in Squares
  PROVE  FilesTurn[s] \in Squares /\ File(FilesTurn[s]) = 7 - File(s) /\ Rank(FilesTurn[s]) = Rank(s)
<1>1. File(s) \in 0 .. 7 /\ Rank(s) \in 0 .. 7
  BY Coordinates
<1> DEFINE f == 7 - File(s)
           r == Rank(s)
<1>2. f \in 0 .. Width - 1 /\ r \in 0 .. Width - 1 /\ r \in Int
  BY <1>1
<1>3. FilesTurn[s] = r * Width + f
  <2>1. FilesTurn[s] = FlippedFiles(s)
    BY DEF FilesTurn
  <2>2. FlippedFiles(s) = 8 * (Rank(s)) + (7 - File(s))
    BY <1>1 DEF FlippedFiles
  <2> QED
    BY <1>1, <2>1, <2>2
<1> HIDE DEF f, r
<1>4. r * Width + f \in Squares /\ File(r * Width + f) = f /\ Rank(r * Width + f) = r
  BY <1>2, SquareAt
<1> QED
  BY <1>3, <1>4 DEF f, r

LEMMA FilesTurnIsSymmetry == Width = 8 => Symmetry(FilesTurn)
<1> SUFFICES ASSUME Width = 8
             PROVE  Symmetry(FilesTurn)
  OBVIOUS
<1>1. \A s \in Squares : FilesTurn[s] \in Squares /\ File(FilesTurn[s]) = 7 - File(s) /\ Rank(FilesTurn[s]) = Rank(s)
  BY FilesTurnAt
<1>2. FilesTurn \in [Squares -> Squares]
  <2>1. DOMAIN FilesTurn = Squares /\ FilesTurn = [s \in Squares |-> FilesTurn[s]]
    BY DEF FilesTurn
  <2> QED
    BY <1>1, <2>1
<1>3. ASSUME NEW s \in Squares
      PROVE  FilesTurn[FilesTurn[s]] = s
  <2>1. File(s) \in 0 .. 7 /\ Rank(s) \in 0 .. 7
    BY Coordinates
  <2>2. FilesTurn[FilesTurn[s]] \in Squares /\ File(FilesTurn[FilesTurn[s]]) = File(s) /\ Rank(FilesTurn[FilesTurn[s]]) = Rank(s)
    BY <1>1, <2>1
  <2> QED
    BY <2>2, SameSquare
<1>4. ASSUME NEW df \in Unit, NEW dr \in Unit, <<df, dr>> # <<0, 0>>
      PROVE  \E ef, er \in Unit : <<ef, er>> # <<0, 0>> /\ Follows(FilesTurn, df, dr, ef, er)
  <2>1. -df \in Unit /\ dr \in Unit /\ <<-df, dr>> # <<0, 0>>
    BY <1>4 DEF Unit
  <2>2. ASSUME NEW s \in Squares, NEW k \in Nat, On(s, df, dr, k)
        PROVE  /\ On(FilesTurn[s], -df, dr, k)
               /\ File(FilesTurn[Away(s, df, dr, k)]) = File(FilesTurn[s]) + k * (-df)
               /\ Rank(FilesTurn[Away(s, df, dr, k)]) = Rank(FilesTurn[s]) + k * (dr)
    <3> DEFINE q == Away(s, df, dr, k)
               x == k * df
               y == k * dr
    <3>1. q \in Squares /\ File(q) = File(s) + x /\ Rank(q) = Rank(s) + y
      BY <2>2, AwayOn
    <3>2. x \in Int /\ y \in Int /\ k * (-df) = -x /\ k * (-dr) = -y
      BY StepTimes
    <3>3. /\ File(FilesTurn[s]) = 7 - File(s) /\ Rank(FilesTurn[s]) = Rank(s)
          /\ File(FilesTurn[q]) = 7 - File(q) /\ Rank(FilesTurn[q]) = Rank(q)
      BY <1>1, <3>1
    <3>4. File(s) \in 0 .. 7 /\ Rank(s) \in 0 .. 7 /\ File(q) \in 0 .. 7 /\ Rank(q) \in 0 .. 7
      BY <3>1, Coordinates
    <3> HIDE DEF q, x, y
    <3>5. /\ File(FilesTurn[q]) = File(FilesTurn[s]) + k * (-df)
          /\ Rank(FilesTurn[q]) = Rank(FilesTurn[s]) + k * (dr)
      BY <3>1, <3>2, <3>3, <3>4 DEF x, y
    <3>6. /\ File(FilesTurn[s]) + k * (-df) \in 0 .. 7
          /\ Rank(FilesTurn[s]) + k * (dr) \in 0 .. 7
      BY <3>3, <3>4, <3>5
    <3> QED
      BY <3>5, <3>6 DEF q, On, OnBoard
  <2>3. Follows(FilesTurn, df, dr, -df, dr)
    BY <1>1, <2>1, <2>2, FollowsBy
  <2> QED
    BY <2>1, <2>3
<1> QED
  BY <1>2, <1>3, <1>4 DEF Symmetry, Involution

LEMMA RanksTurnAt ==
  ASSUME Width = 8, NEW s \in Squares
  PROVE  RanksTurn[s] \in Squares /\ File(RanksTurn[s]) = File(s) /\ Rank(RanksTurn[s]) = 7 - Rank(s)
<1>1. File(s) \in 0 .. 7 /\ Rank(s) \in 0 .. 7
  BY Coordinates
<1> DEFINE f == File(s)
           r == 7 - Rank(s)
<1>2. f \in 0 .. Width - 1 /\ r \in 0 .. Width - 1 /\ r \in Int
  BY <1>1
<1>3. RanksTurn[s] = r * Width + f
  <2>1. RanksTurn[s] = FlippedRanks(s)
    BY DEF RanksTurn
  <2>2. FlippedRanks(s) = 8 * (7 - Rank(s)) + (File(s))
    BY <1>1 DEF FlippedRanks
  <2> QED
    BY <1>1, <2>1, <2>2
<1> HIDE DEF f, r
<1>4. r * Width + f \in Squares /\ File(r * Width + f) = f /\ Rank(r * Width + f) = r
  BY <1>2, SquareAt
<1> QED
  BY <1>3, <1>4 DEF f, r

LEMMA RanksTurnIsSymmetry == Width = 8 => Symmetry(RanksTurn)
<1> SUFFICES ASSUME Width = 8
             PROVE  Symmetry(RanksTurn)
  OBVIOUS
<1>1. \A s \in Squares : RanksTurn[s] \in Squares /\ File(RanksTurn[s]) = File(s) /\ Rank(RanksTurn[s]) = 7 - Rank(s)
  BY RanksTurnAt
<1>2. RanksTurn \in [Squares -> Squares]
  <2>1. DOMAIN RanksTurn = Squares /\ RanksTurn = [s \in Squares |-> RanksTurn[s]]
    BY DEF RanksTurn
  <2> QED
    BY <1>1, <2>1
<1>3. ASSUME NEW s \in Squares
      PROVE  RanksTurn[RanksTurn[s]] = s
  <2>1. File(s) \in 0 .. 7 /\ Rank(s) \in 0 .. 7
    BY Coordinates
  <2>2. RanksTurn[RanksTurn[s]] \in Squares /\ File(RanksTurn[RanksTurn[s]]) = File(s) /\ Rank(RanksTurn[RanksTurn[s]]) = Rank(s)
    BY <1>1, <2>1
  <2> QED
    BY <2>2, SameSquare
<1>4. ASSUME NEW df \in Unit, NEW dr \in Unit, <<df, dr>> # <<0, 0>>
      PROVE  \E ef, er \in Unit : <<ef, er>> # <<0, 0>> /\ Follows(RanksTurn, df, dr, ef, er)
  <2>1. df \in Unit /\ -dr \in Unit /\ <<df, -dr>> # <<0, 0>>
    BY <1>4 DEF Unit
  <2>2. ASSUME NEW s \in Squares, NEW k \in Nat, On(s, df, dr, k)
        PROVE  /\ On(RanksTurn[s], df, -dr, k)
               /\ File(RanksTurn[Away(s, df, dr, k)]) = File(RanksTurn[s]) + k * (df)
               /\ Rank(RanksTurn[Away(s, df, dr, k)]) = Rank(RanksTurn[s]) + k * (-dr)
    <3> DEFINE q == Away(s, df, dr, k)
               x == k * df
               y == k * dr
    <3>1. q \in Squares /\ File(q) = File(s) + x /\ Rank(q) = Rank(s) + y
      BY <2>2, AwayOn
    <3>2. x \in Int /\ y \in Int /\ k * (-df) = -x /\ k * (-dr) = -y
      BY StepTimes
    <3>3. /\ File(RanksTurn[s]) = File(s) /\ Rank(RanksTurn[s]) = 7 - Rank(s)
          /\ File(RanksTurn[q]) = File(q) /\ Rank(RanksTurn[q]) = 7 - Rank(q)
      BY <1>1, <3>1
    <3>4. File(s) \in 0 .. 7 /\ Rank(s) \in 0 .. 7 /\ File(q) \in 0 .. 7 /\ Rank(q) \in 0 .. 7
      BY <3>1, Coordinates
    <3> HIDE DEF q, x, y
    <3>5. /\ File(RanksTurn[q]) = File(RanksTurn[s]) + k * (df)
          /\ Rank(RanksTurn[q]) = Rank(RanksTurn[s]) + k * (-dr)
      BY <3>1, <3>2, <3>3, <3>4 DEF x, y
    <3>6. /\ File(RanksTurn[s]) + k * (df) \in 0 .. 7
          /\ Rank(RanksTurn[s]) + k * (-dr) \in 0 .. 7
      BY <3>3, <3>4, <3>5
    <3> QED
      BY <3>5, <3>6 DEF q, On, OnBoard
  <2>3. Follows(RanksTurn, df, dr, df, -dr)
    BY <1>1, <2>1, <2>2, FollowsBy
  <2> QED
    BY <2>1, <2>3
<1> QED
  BY <1>2, <1>3, <1>4 DEF Symmetry, Involution

LEMMA TranspositionAt ==
  ASSUME Width = 8, NEW s \in Squares
  PROVE  Transposition[s] \in Squares /\ File(Transposition[s]) = Rank(s) /\ Rank(Transposition[s]) = File(s)
<1>1. File(s) \in 0 .. 7 /\ Rank(s) \in 0 .. 7
  BY Coordinates
<1> DEFINE f == Rank(s)
           r == File(s)
<1>2. f \in 0 .. Width - 1 /\ r \in 0 .. Width - 1 /\ r \in Int
  BY <1>1
<1>3. Transposition[s] = r * Width + f
  <2>1. Transposition[s] = Transposed(s)
    BY DEF Transposition
  <2>2. Transposed(s) = 8 * (File(s)) + (Rank(s))
    BY <1>1 DEF Transposed
  <2> QED
    BY <1>1, <2>1, <2>2
<1> HIDE DEF f, r
<1>4. r * Width + f \in Squares /\ File(r * Width + f) = f /\ Rank(r * Width + f) = r
  BY <1>2, SquareAt
<1> QED
  BY <1>3, <1>4 DEF f, r

LEMMA TranspositionIsSymmetry == Width = 8 => Symmetry(Transposition)
<1> SUFFICES ASSUME Width = 8
             PROVE  Symmetry(Transposition)
  OBVIOUS
<1>1. \A s \in Squares : Transposition[s] \in Squares /\ File(Transposition[s]) = Rank(s) /\ Rank(Transposition[s]) = File(s)
  BY TranspositionAt
<1>2. Transposition \in [Squares -> Squares]
  <2>1. DOMAIN Transposition = Squares /\ Transposition = [s \in Squares |-> Transposition[s]]
    BY DEF Transposition
  <2> QED
    BY <1>1, <2>1
<1>3. ASSUME NEW s \in Squares
      PROVE  Transposition[Transposition[s]] = s
  <2>1. File(s) \in 0 .. 7 /\ Rank(s) \in 0 .. 7
    BY Coordinates
  <2>2. Transposition[Transposition[s]] \in Squares /\ File(Transposition[Transposition[s]]) = File(s) /\ Rank(Transposition[Transposition[s]]) = Rank(s)
    BY <1>1, <2>1
  <2> QED
    BY <2>2, SameSquare
<1>4. ASSUME NEW df \in Unit, NEW dr \in Unit, <<df, dr>> # <<0, 0>>
      PROVE  \E ef, er \in Unit : <<ef, er>> # <<0, 0>> /\ Follows(Transposition, df, dr, ef, er)
  <2>1. dr \in Unit /\ df \in Unit /\ <<dr, df>> # <<0, 0>>
    BY <1>4 DEF Unit
  <2>2. ASSUME NEW s \in Squares, NEW k \in Nat, On(s, df, dr, k)
        PROVE  /\ On(Transposition[s], dr, df, k)
               /\ File(Transposition[Away(s, df, dr, k)]) = File(Transposition[s]) + k * (dr)
               /\ Rank(Transposition[Away(s, df, dr, k)]) = Rank(Transposition[s]) + k * (df)
    <3> DEFINE q == Away(s, df, dr, k)
               x == k * df
               y == k * dr
    <3>1. q \in Squares /\ File(q) = File(s) + x /\ Rank(q) = Rank(s) + y
      BY <2>2, AwayOn
    <3>2. x \in Int /\ y \in Int /\ k * (-df) = -x /\ k * (-dr) = -y
      BY StepTimes
    <3>3. /\ File(Transposition[s]) = Rank(s) /\ Rank(Transposition[s]) = File(s)
          /\ File(Transposition[q]) = Rank(q) /\ Rank(Transposition[q]) = File(q)
      BY <1>1, <3>1
    <3>4. File(s) \in 0 .. 7 /\ Rank(s) \in 0 .. 7 /\ File(q) \in 0 .. 7 /\ Rank(q) \in 0 .. 7
      BY <3>1, Coordinates
    <3> HIDE DEF q, x, y
    <3>5. /\ File(Transposition[q]) = File(Transposition[s]) + k * (dr)
          /\ Rank(Transposition[q]) = Rank(Transposition[s]) + k * (df)
      BY <3>1, <3>2, <3>3, <3>4 DEF x, y
    <3>6. /\ File(Transposition[s]) + k * (dr) \in 0 .. 7
          /\ Rank(Transposition[s]) + k * (df) \in 0 .. 7
      BY <3>3, <3>4, <3>5
    <3> QED
      BY <3>5, <3>6 DEF q, On, OnBoard
  <2>3. Follows(Transposition, df, dr, dr, df)
    BY <1>1, <2>1, <2>2, FollowsBy
  <2> QED
    BY <2>1, <2>3
<1> QED
  BY <1>2, <1>3, <1>4 DEF Symmetry, Involution

(***************************************************************************)
(* Corners, what is beside them, and the rays from them.                   *)
(***************************************************************************)
RayTurns(t, ray, turned) == \A k \in 0 .. 6 : t[ray[1] + k * ray[2]] = turned[1] + k * turned[2]
CornersTurn(t) ==
  /\ \A c \in Corners : t[c] \in Corners /\ \A s \in CSquares(c) : t[s] \in CSquares(t[c])
  /\ \A x \in XSquares : t[x] \in XSquares /\ CornerOf(t[x]) = t[CornerOf(x)]
  /\ \A c \in Corners : \A ray \in EdgeRays(c) : \E turned \in EdgeRays(t[c]) : RayTurns(t, ray, turned)

LEMMA FilesTurnOnCorners == Width = 8 => CornersTurn(FilesTurn)
<1> SUFFICES ASSUME Width = 8
             PROVE  CornersTurn(FilesTurn)
  OBVIOUS
<1>1. Squares = 0 .. 63
  BY DEF Squares
<1>2. \A s \in 0 .. 63 : FilesTurn[s] = FlippedFiles(s)
  BY <1>1 DEF FilesTurn
<1>3. FilesTurn[0] = 7 /\ FilesTurn[7] = 0 /\ FilesTurn[56] = 63 /\ FilesTurn[63] = 56
  BY <1>2 DEF FlippedFiles, Rank, File
<1>4. FilesTurn[9] = 14 /\ FilesTurn[14] = 9 /\ FilesTurn[49] = 54 /\ FilesTurn[54] = 49
  BY <1>2 DEF FlippedFiles, Rank, File
<1>5. /\ FilesTurn[1] = 6 /\ FilesTurn[8] = 15 /\ FilesTurn[6] = 1 /\ FilesTurn[15] = 8
      /\ FilesTurn[57] = 62 /\ FilesTurn[48] = 55 /\ FilesTurn[62] = 57 /\ FilesTurn[55] = 48
  BY <1>2 DEF FlippedFiles, Rank, File
<1>6. RayTurns(FilesTurn, <<1, 1>>, <<6, -1>>)
  <2>1. \A k \in 0 .. 6 : 1 + k * 1 \in 0 .. 63 /\ FlippedFiles(1 + k * 1) = 6 + k * (-1)
    BY DEF FlippedFiles, Rank, File
  <2>2. <<1, 1>>[1] = 1 /\ <<1, 1>>[2] = 1 /\ <<6, -1>>[1] = 6 /\ <<6, -1>>[2] = -1
    OBVIOUS
  <2> QED
    BY <1>2, <2>1, <2>2 DEF RayTurns
<1>7. RayTurns(FilesTurn, <<8, 8>>, <<15, 8>>)
  <2>1. \A k \in 0 .. 6 : 8 + k * 8 \in 0 .. 63 /\ FlippedFiles(8 + k * 8) = 15 + k * 8
    BY DEF FlippedFiles, Rank, File
  <2>2. <<8, 8>>[1] = 8 /\ <<8, 8>>[2] = 8 /\ <<15, 8>>[1] = 15 /\ <<15, 8>>[2] = 8
    OBVIOUS
  <2> QED
    BY <1>2, <2>1, <2>2 DEF RayTurns
<1>8. RayTurns(FilesTurn, <<6, -1>>, <<1, 1>>)
  <2>1. \A k \in 0 .. 6 : 6 + k * (-1) \in 0 .. 63 /\ FlippedFiles(6 + k * (-1)) = 1 + k * 1
    BY DEF FlippedFiles, Rank, File
  <2>2. <<6, -1>>[1] = 6 /\ <<6, -1>>[2] = -1 /\ <<1, 1>>[1] = 1 /\ <<1, 1>>[2] = 1
    OBVIOUS
  <2> QED
    BY <1>2, <2>1, <2>2 DEF RayTurns
<1>9. RayTurns(FilesTurn, <<15, 8>>, <<8, 8>>)
  <2>1. \A k \in 0 .. 6 : 15 + k * 8 \in 0 .. 63 /\ FlippedFiles(15 + k * 8) = 8 + k * 8
    BY DEF FlippedFiles, Rank, File
  <2>2. <<15, 8>>[1] = 15 /\ <<15, 8>>[2] = 8 /\ <<8, 8>>[1] = 8 /\ <<8, 8>>[2] = 8
    OBVIOUS
  <2> QED
    BY <1>2, <2>1, <2>2 DEF RayTurns
<1>10. RayTurns(FilesTurn, <<57, 1>>, <<62, -1>>)
  <2>1. \A k \in 0 .. 6 : 57 + k * 1 \in 0 .. 63 /\ FlippedFiles(57 + k * 1) = 62 + k * (-1)
    BY DEF FlippedFiles, Rank, File
  <2>2. <<57, 1>>[1] = 57 /\ <<57, 1>>[2] = 1 /\ <<62, -1>>[1] = 62 /\ <<62, -1>>[2] = -1
    OBVIOUS
  <2> QED
    BY <1>2, <2>1, <2>2 DEF RayTurns
<1>11. RayTurns(FilesTurn, <<48, -8>>, <<55, -8>>)
  <2>1. \A k \in 0 .. 6 : 48 + k * (-8) \in 0 .. 63 /\ FlippedFiles(48 + k * (-8)) = 55 + k * (-8)
    BY DEF FlippedFiles, Rank, File
  <2>2. <<48, -8>>[1] = 48 /\ <<48, -8>>[2] = -8 /\ <<55, -8>>[1] = 55 /\ <<55, -8>>[2] = -8
    OBVIOUS
  <2> QED
    BY <1>2, <2>1, <2>2 DEF RayTurns
<1>12. RayTurns(FilesTurn, <<62, -1>>, <<57, 1>>)
  <2>1. \A k \in 0 .. 6 : 62 + k * (-1) \in 0 .. 63 /\ FlippedFiles(62 + k * (-1)) = 57 + k * 1
    BY DEF FlippedFiles, Rank, File
  <2>2. <<62, -1>>[1] = 62 /\ <<62, -1>>[2] = -1 /\ <<57, 1>>[1] = 57 /\ <<57, 1>>[2] = 1
    OBVIOUS
  <2> QED
    BY <1>2, <2>1, <2>2 DEF RayTurns
<1>13. RayTurns(FilesTurn, <<55, -8>>, <<48, -8>>)
  <2>1. \A k \in 0 .. 6 : 55 + k * (-8) \in 0 .. 63 /\ FlippedFiles(55 + k * (-8)) = 48 + k * (-8)
    BY DEF FlippedFiles, Rank, File
  <2>2. <<55, -8>>[1] = 55 /\ <<55, -8>>[2] = -8 /\ <<48, -8>>[1] = 48 /\ <<48, -8>>[2] = -8
    OBVIOUS
  <2> QED
    BY <1>2, <2>1, <2>2 DEF RayTurns
<1> HIDE DEF FilesTurn
<1>14. \A ray \in EdgeRays(0) : \E turned \in EdgeRays(FilesTurn[0]) : RayTurns(FilesTurn, ray, turned)
  <2> DEFINE a == <<1, 1>>
             b == <<8, 8>>
             x == <<6, -1>>
             y == <<15, 8>>
  <2>1. EdgeRays(0) = {a, b} /\ EdgeRays(FilesTurn[0]) = {x, y}
    BY <1>3 DEF EdgeRays
  <2>2. RayTurns(FilesTurn, a, x) /\ RayTurns(FilesTurn, b, y)
    BY <1>6, <1>7
  <2> HIDE DEF a, b, x, y
  <2> QED
    BY <2>1, <2>2
<1>15. \A ray \in EdgeRays(7) : \E turned \in EdgeRays(FilesTurn[7]) : RayTurns(FilesTurn, ray, turned)
  <2> DEFINE a == <<6, -1>>
             b == <<15, 8>>
             x == <<1, 1>>
             y == <<8, 8>>
  <2>1. EdgeRays(7) = {a, b} /\ EdgeRays(FilesTurn[7]) = {x, y}
    BY <1>3 DEF EdgeRays
  <2>2. RayTurns(FilesTurn, a, x) /\ RayTurns(FilesTurn, b, y)
    BY <1>8, <1>9
  <2> HIDE DEF a, b, x, y
  <2> QED
    BY <2>1, <2>2
<1>16. \A ray \in EdgeRays(56) : \E turned \in EdgeRays(FilesTurn[56]) : RayTurns(FilesTurn, ray, turned)
  <2> DEFINE a == <<57, 1>>
             b == <<48, -8>>
             x == <<62, -1>>
             y == <<55, -8>>
  <2>1. EdgeRays(56) = {a, b} /\ EdgeRays(FilesTurn[56]) = {x, y}
    BY <1>3 DEF EdgeRays
  <2>2. RayTurns(FilesTurn, a, x) /\ RayTurns(FilesTurn, b, y)
    BY <1>10, <1>11
  <2> HIDE DEF a, b, x, y
  <2> QED
    BY <2>1, <2>2
<1>17. \A ray \in EdgeRays(63) : \E turned \in EdgeRays(FilesTurn[63]) : RayTurns(FilesTurn, ray, turned)
  <2> DEFINE a == <<62, -1>>
             b == <<55, -8>>
             x == <<57, 1>>
             y == <<48, -8>>
  <2>1. EdgeRays(63) = {a, b} /\ EdgeRays(FilesTurn[63]) = {x, y}
    BY <1>3 DEF EdgeRays
  <2>2. RayTurns(FilesTurn, a, x) /\ RayTurns(FilesTurn, b, y)
    BY <1>12, <1>13
  <2> HIDE DEF a, b, x, y
  <2> QED
    BY <2>1, <2>2
<1>18. \A c \in Corners : \A ray \in EdgeRays(c) : \E turned \in EdgeRays(FilesTurn[c]) : RayTurns(FilesTurn, ray, turned)
  BY <1>14, <1>15, <1>16, <1>17, Zenon DEF Corners
<1>19. \A c \in Corners : FilesTurn[c] \in Corners /\ \A s \in CSquares(c) : FilesTurn[s] \in CSquares(FilesTurn[c])
  <2>1. /\ CSquares(0) = {1, 8} /\ CSquares(7) = {6, 15}
        /\ CSquares(56) = {57, 48} /\ CSquares(63) = {62, 55}
    BY DEF CSquares
  <2> QED
    BY <1>3, <1>5, <2>1 DEF Corners
<1>20. \A x \in XSquares : FilesTurn[x] \in XSquares /\ CornerOf(FilesTurn[x]) = FilesTurn[CornerOf(x)]
  <2>1. CornerOf(9) = 0 /\ CornerOf(14) = 7 /\ CornerOf(49) = 56 /\ CornerOf(54) = 63
    BY DEF CornerOf
  <2> QED
    BY <1>3, <1>4, <2>1 DEF XSquares
<1> QED
  BY <1>18, <1>19, <1>20 DEF CornersTurn

LEMMA RanksTurnOnCorners == Width = 8 => CornersTurn(RanksTurn)
<1> SUFFICES ASSUME Width = 8
             PROVE  CornersTurn(RanksTurn)
  OBVIOUS
<1>1. Squares = 0 .. 63
  BY DEF Squares
<1>2. \A s \in 0 .. 63 : RanksTurn[s] = FlippedRanks(s)
  BY <1>1 DEF RanksTurn
<1>3. RanksTurn[0] = 56 /\ RanksTurn[7] = 63 /\ RanksTurn[56] = 0 /\ RanksTurn[63] = 7
  BY <1>2 DEF FlippedRanks, Rank, File
<1>4. RanksTurn[9] = 49 /\ RanksTurn[14] = 54 /\ RanksTurn[49] = 9 /\ RanksTurn[54] = 14
  BY <1>2 DEF FlippedRanks, Rank, File
<1>5. /\ RanksTurn[1] = 57 /\ RanksTurn[8] = 48 /\ RanksTurn[6] = 62 /\ RanksTurn[15] = 55
      /\ RanksTurn[57] = 1 /\ RanksTurn[48] = 8 /\ RanksTurn[62] = 6 /\ RanksTurn[55] = 15
  BY <1>2 DEF FlippedRanks, Rank, File
<1>6. RayTurns(RanksTurn, <<1, 1>>, <<57, 1>>)
  <2>1. \A k \in 0 .. 6 : 1 + k * 1 \in 0 .. 63 /\ FlippedRanks(1 + k * 1) = 57 + k * 1
    BY DEF FlippedRanks, Rank, File
  <2>2. <<1, 1>>[1] = 1 /\ <<1, 1>>[2] = 1 /\ <<57, 1>>[1] = 57 /\ <<57, 1>>[2] = 1
    OBVIOUS
  <2> QED
    BY <1>2, <2>1, <2>2 DEF RayTurns
<1>7. RayTurns(RanksTurn, <<8, 8>>, <<48, -8>>)
  <2>1. \A k \in 0 .. 6 : 8 + k * 8 \in 0 .. 63 /\ FlippedRanks(8 + k * 8) = 48 + k * (-8)
    BY DEF FlippedRanks, Rank, File
  <2>2. <<8, 8>>[1] = 8 /\ <<8, 8>>[2] = 8 /\ <<48, -8>>[1] = 48 /\ <<48, -8>>[2] = -8
    OBVIOUS
  <2> QED
    BY <1>2, <2>1, <2>2 DEF RayTurns
<1>8. RayTurns(RanksTurn, <<6, -1>>, <<62, -1>>)
  <2>1. \A k \in 0 .. 6 : 6 + k * (-1) \in 0 .. 63 /\ FlippedRanks(6 + k * (-1)) = 62 + k * (-1)
    BY DEF FlippedRanks, Rank, File
  <2>2. <<6, -1>>[1] = 6 /\ <<6, -1>>[2] = -1 /\ <<62, -1>>[1] = 62 /\ <<62, -1>>[2] = -1
    OBVIOUS
  <2> QED
    BY <1>2, <2>1, <2>2 DEF RayTurns
<1>9. RayTurns(RanksTurn, <<15, 8>>, <<55, -8>>)
  <2>1. \A k \in 0 .. 6 : 15 + k * 8 \in 0 .. 63 /\ FlippedRanks(15 + k * 8) = 55 + k * (-8)
    BY DEF FlippedRanks, Rank, File
  <2>2. <<15, 8>>[1] = 15 /\ <<15, 8>>[2] = 8 /\ <<55, -8>>[1] = 55 /\ <<55, -8>>[2] = -8
    OBVIOUS
  <2> QED
    BY <1>2, <2>1, <2>2 DEF RayTurns
<1>10. RayTurns(RanksTurn, <<57, 1>>, <<1, 1>>)
  <2>1. \A k \in 0 .. 6 : 57 + k * 1 \in 0 .. 63 /\ FlippedRanks(57 + k * 1) = 1 + k * 1
    BY DEF FlippedRanks, Rank, File
  <2>2. <<57, 1>>[1] = 57 /\ <<57, 1>>[2] = 1 /\ <<1, 1>>[1] = 1 /\ <<1, 1>>[2] = 1
    OBVIOUS
  <2> QED
    BY <1>2, <2>1, <2>2 DEF RayTurns
<1>11. RayTurns(RanksTurn, <<48, -8>>, <<8, 8>>)
  <2>1. \A k \in 0 .. 6 : 48 + k * (-8) \in 0 .. 63 /\ FlippedRanks(48 + k * (-8)) = 8 + k * 8
    BY DEF FlippedRanks, Rank, File
  <2>2. <<48, -8>>[1] = 48 /\ <<48, -8>>[2] = -8 /\ <<8, 8>>[1] = 8 /\ <<8, 8>>[2] = 8
    OBVIOUS
  <2> QED
    BY <1>2, <2>1, <2>2 DEF RayTurns
<1>12. RayTurns(RanksTurn, <<62, -1>>, <<6, -1>>)
  <2>1. \A k \in 0 .. 6 : 62 + k * (-1) \in 0 .. 63 /\ FlippedRanks(62 + k * (-1)) = 6 + k * (-1)
    BY DEF FlippedRanks, Rank, File
  <2>2. <<62, -1>>[1] = 62 /\ <<62, -1>>[2] = -1 /\ <<6, -1>>[1] = 6 /\ <<6, -1>>[2] = -1
    OBVIOUS
  <2> QED
    BY <1>2, <2>1, <2>2 DEF RayTurns
<1>13. RayTurns(RanksTurn, <<55, -8>>, <<15, 8>>)
  <2>1. \A k \in 0 .. 6 : 55 + k * (-8) \in 0 .. 63 /\ FlippedRanks(55 + k * (-8)) = 15 + k * 8
    BY DEF FlippedRanks, Rank, File
  <2>2. <<55, -8>>[1] = 55 /\ <<55, -8>>[2] = -8 /\ <<15, 8>>[1] = 15 /\ <<15, 8>>[2] = 8
    OBVIOUS
  <2> QED
    BY <1>2, <2>1, <2>2 DEF RayTurns
<1> HIDE DEF RanksTurn
<1>14. \A ray \in EdgeRays(0) : \E turned \in EdgeRays(RanksTurn[0]) : RayTurns(RanksTurn, ray, turned)
  <2> DEFINE a == <<1, 1>>
             b == <<8, 8>>
             x == <<57, 1>>
             y == <<48, -8>>
  <2>1. EdgeRays(0) = {a, b} /\ EdgeRays(RanksTurn[0]) = {x, y}
    BY <1>3 DEF EdgeRays
  <2>2. RayTurns(RanksTurn, a, x) /\ RayTurns(RanksTurn, b, y)
    BY <1>6, <1>7
  <2> HIDE DEF a, b, x, y
  <2> QED
    BY <2>1, <2>2
<1>15. \A ray \in EdgeRays(7) : \E turned \in EdgeRays(RanksTurn[7]) : RayTurns(RanksTurn, ray, turned)
  <2> DEFINE a == <<6, -1>>
             b == <<15, 8>>
             x == <<62, -1>>
             y == <<55, -8>>
  <2>1. EdgeRays(7) = {a, b} /\ EdgeRays(RanksTurn[7]) = {x, y}
    BY <1>3 DEF EdgeRays
  <2>2. RayTurns(RanksTurn, a, x) /\ RayTurns(RanksTurn, b, y)
    BY <1>8, <1>9
  <2> HIDE DEF a, b, x, y
  <2> QED
    BY <2>1, <2>2
<1>16. \A ray \in EdgeRays(56) : \E turned \in EdgeRays(RanksTurn[56]) : RayTurns(RanksTurn, ray, turned)
  <2> DEFINE a == <<57, 1>>
             b == <<48, -8>>
             x == <<1, 1>>
             y == <<8, 8>>
  <2>1. EdgeRays(56) = {a, b} /\ EdgeRays(RanksTurn[56]) = {x, y}
    BY <1>3 DEF EdgeRays
  <2>2. RayTurns(RanksTurn, a, x) /\ RayTurns(RanksTurn, b, y)
    BY <1>10, <1>11
  <2> HIDE DEF a, b, x, y
  <2> QED
    BY <2>1, <2>2
<1>17. \A ray \in EdgeRays(63) : \E turned \in EdgeRays(RanksTurn[63]) : RayTurns(RanksTurn, ray, turned)
  <2> DEFINE a == <<62, -1>>
             b == <<55, -8>>
             x == <<6, -1>>
             y == <<15, 8>>
  <2>1. EdgeRays(63) = {a, b} /\ EdgeRays(RanksTurn[63]) = {x, y}
    BY <1>3 DEF EdgeRays
  <2>2. RayTurns(RanksTurn, a, x) /\ RayTurns(RanksTurn, b, y)
    BY <1>12, <1>13
  <2> HIDE DEF a, b, x, y
  <2> QED
    BY <2>1, <2>2
<1>18. \A c \in Corners : \A ray \in EdgeRays(c) : \E turned \in EdgeRays(RanksTurn[c]) : RayTurns(RanksTurn, ray, turned)
  BY <1>14, <1>15, <1>16, <1>17, Zenon DEF Corners
<1>19. \A c \in Corners : RanksTurn[c] \in Corners /\ \A s \in CSquares(c) : RanksTurn[s] \in CSquares(RanksTurn[c])
  <2>1. /\ CSquares(0) = {1, 8} /\ CSquares(7) = {6, 15}
        /\ CSquares(56) = {57, 48} /\ CSquares(63) = {62, 55}
    BY DEF CSquares
  <2> QED
    BY <1>3, <1>5, <2>1 DEF Corners
<1>20. \A x \in XSquares : RanksTurn[x] \in XSquares /\ CornerOf(RanksTurn[x]) = RanksTurn[CornerOf(x)]
  <2>1. CornerOf(9) = 0 /\ CornerOf(14) = 7 /\ CornerOf(49) = 56 /\ CornerOf(54) = 63
    BY DEF CornerOf
  <2> QED
    BY <1>3, <1>4, <2>1 DEF XSquares
<1> QED
  BY <1>18, <1>19, <1>20 DEF CornersTurn

LEMMA TranspositionOnCorners == Width = 8 => CornersTurn(Transposition)
<1> SUFFICES ASSUME Width = 8
             PROVE  CornersTurn(Transposition)
  OBVIOUS
<1>1. Squares = 0 .. 63
  BY DEF Squares
<1>2. \A s \in 0 .. 63 : Transposition[s] = Transposed(s)
  BY <1>1 DEF Transposition
<1>3. Transposition[0] = 0 /\ Transposition[7] = 56 /\ Transposition[56] = 7 /\ Transposition[63] = 63
  BY <1>2 DEF Transposed, Rank, File
<1>4. Transposition[9] = 9 /\ Transposition[14] = 49 /\ Transposition[49] = 14 /\ Transposition[54] = 54
  BY <1>2 DEF Transposed, Rank, File
<1>5. /\ Transposition[1] = 8 /\ Transposition[8] = 1 /\ Transposition[6] = 48 /\ Transposition[15] = 57
      /\ Transposition[57] = 15 /\ Transposition[48] = 6 /\ Transposition[62] = 55 /\ Transposition[55] = 62
  BY <1>2 DEF Transposed, Rank, File
<1>6. RayTurns(Transposition, <<1, 1>>, <<8, 8>>)
  <2>1. \A k \in 0 .. 6 : 1 + k * 1 \in 0 .. 63 /\ Transposed(1 + k * 1) = 8 + k * 8
    BY DEF Transposed, Rank, File
  <2>2. <<1, 1>>[1] = 1 /\ <<1, 1>>[2] = 1 /\ <<8, 8>>[1] = 8 /\ <<8, 8>>[2] = 8
    OBVIOUS
  <2> QED
    BY <1>2, <2>1, <2>2 DEF RayTurns
<1>7. RayTurns(Transposition, <<8, 8>>, <<1, 1>>)
  <2>1. \A k \in 0 .. 6 : 8 + k * 8 \in 0 .. 63 /\ Transposed(8 + k * 8) = 1 + k * 1
    BY DEF Transposed, Rank, File
  <2>2. <<8, 8>>[1] = 8 /\ <<8, 8>>[2] = 8 /\ <<1, 1>>[1] = 1 /\ <<1, 1>>[2] = 1
    OBVIOUS
  <2> QED
    BY <1>2, <2>1, <2>2 DEF RayTurns
<1>8. RayTurns(Transposition, <<6, -1>>, <<48, -8>>)
  <2>1. \A k \in 0 .. 6 : 6 + k * (-1) \in 0 .. 63 /\ Transposed(6 + k * (-1)) = 48 + k * (-8)
    BY DEF Transposed, Rank, File
  <2>2. <<6, -1>>[1] = 6 /\ <<6, -1>>[2] = -1 /\ <<48, -8>>[1] = 48 /\ <<48, -8>>[2] = -8
    OBVIOUS
  <2> QED
    BY <1>2, <2>1, <2>2 DEF RayTurns
<1>9. RayTurns(Transposition, <<15, 8>>, <<57, 1>>)
  <2>1. \A k \in 0 .. 6 : 15 + k * 8 \in 0 .. 63 /\ Transposed(15 + k * 8) = 57 + k * 1
    BY DEF Transposed, Rank, File
  <2>2. <<15, 8>>[1] = 15 /\ <<15, 8>>[2] = 8 /\ <<57, 1>>[1] = 57 /\ <<57, 1>>[2] = 1
    OBVIOUS
  <2> QED
    BY <1>2, <2>1, <2>2 DEF RayTurns
<1>10. RayTurns(Transposition, <<57, 1>>, <<15, 8>>)
  <2>1. \A k \in 0 .. 6 : 57 + k * 1 \in 0 .. 63 /\ Transposed(57 + k * 1) = 15 + k * 8
    BY DEF Transposed, Rank, File
  <2>2. <<57, 1>>[1] = 57 /\ <<57, 1>>[2] = 1 /\ <<15, 8>>[1] = 15 /\ <<15, 8>>[2] = 8
    OBVIOUS
  <2> QED
    BY <1>2, <2>1, <2>2 DEF RayTurns
<1>11. RayTurns(Transposition, <<48, -8>>, <<6, -1>>)
  <2>1. \A k \in 0 .. 6 : 48 + k * (-8) \in 0 .. 63 /\ Transposed(48 + k * (-8)) = 6 + k * (-1)
    BY DEF Transposed, Rank, File
  <2>2. <<48, -8>>[1] = 48 /\ <<48, -8>>[2] = -8 /\ <<6, -1>>[1] = 6 /\ <<6, -1>>[2] = -1
    OBVIOUS
  <2> QED
    BY <1>2, <2>1, <2>2 DEF RayTurns
<1>12. RayTurns(Transposition, <<62, -1>>, <<55, -8>>)
  <2>1. \A k \in 0 .. 6 : 62 + k * (-1) \in 0 .. 63 /\ Transposed(62 + k * (-1)) = 55 + k * (-8)
    BY DEF Transposed, Rank, File
  <2>2. <<62, -1>>[1] = 62 /\ <<62, -1>>[2] = -1 /\ <<55, -8>>[1] = 55 /\ <<55, -8>>[2] = -8
    OBVIOUS
  <2> QED
    BY <1>2, <2>1, <2>2 DEF RayTurns
<1>13. RayTurns(Transposition, <<55, -8>>, <<62, -1>>)
  <2>1. \A k \in 0 .. 6 : 55 + k * (-8) \in 0 .. 63 /\ Transposed(55 + k * (-8)) = 62 + k * (-1)
    BY DEF Transposed, Rank, File
  <2>2. <<55, -8>>[1] = 55 /\ <<55, -8>>[2] = -8 /\ <<62, -1>>[1] = 62 /\ <<62, -1>>[2] = -1
    OBVIOUS
  <2> QED
    BY <1>2, <2>1, <2>2 DEF RayTurns
<1> HIDE DEF Transposition
<1>14. \A ray \in EdgeRays(0) : \E turned \in EdgeRays(Transposition[0]) : RayTurns(Transposition, ray, turned)
  <2> DEFINE a == <<1, 1>>
             b == <<8, 8>>
             x == <<8, 8>>
             y == <<1, 1>>
  <2>1. EdgeRays(0) = {a, b} /\ EdgeRays(Transposition[0]) = {x, y}
    BY <1>3 DEF EdgeRays
  <2>2. RayTurns(Transposition, a, x) /\ RayTurns(Transposition, b, y)
    BY <1>6, <1>7
  <2> HIDE DEF a, b, x, y
  <2> QED
    BY <2>1, <2>2
<1>15. \A ray \in EdgeRays(7) : \E turned \in EdgeRays(Transposition[7]) : RayTurns(Transposition, ray, turned)
  <2> DEFINE a == <<6, -1>>
             b == <<15, 8>>
             x == <<48, -8>>
             y == <<57, 1>>
  <2>1. EdgeRays(7) = {a, b} /\ EdgeRays(Transposition[7]) = {x, y}
    BY <1>3 DEF EdgeRays
  <2>2. RayTurns(Transposition, a, x) /\ RayTurns(Transposition, b, y)
    BY <1>8, <1>9
  <2> HIDE DEF a, b, x, y
  <2> QED
    BY <2>1, <2>2
<1>16. \A ray \in EdgeRays(56) : \E turned \in EdgeRays(Transposition[56]) : RayTurns(Transposition, ray, turned)
  <2> DEFINE a == <<57, 1>>
             b == <<48, -8>>
             x == <<15, 8>>
             y == <<6, -1>>
  <2>1. EdgeRays(56) = {a, b} /\ EdgeRays(Transposition[56]) = {x, y}
    BY <1>3 DEF EdgeRays
  <2>2. RayTurns(Transposition, a, x) /\ RayTurns(Transposition, b, y)
    BY <1>10, <1>11
  <2> HIDE DEF a, b, x, y
  <2> QED
    BY <2>1, <2>2
<1>17. \A ray \in EdgeRays(63) : \E turned \in EdgeRays(Transposition[63]) : RayTurns(Transposition, ray, turned)
  <2> DEFINE a == <<62, -1>>
             b == <<55, -8>>
             x == <<55, -8>>
             y == <<62, -1>>
  <2>1. EdgeRays(63) = {a, b} /\ EdgeRays(Transposition[63]) = {x, y}
    BY <1>3 DEF EdgeRays
  <2>2. RayTurns(Transposition, a, x) /\ RayTurns(Transposition, b, y)
    BY <1>12, <1>13
  <2> HIDE DEF a, b, x, y
  <2> QED
    BY <2>1, <2>2
<1>18. \A c \in Corners : \A ray \in EdgeRays(c) : \E turned \in EdgeRays(Transposition[c]) : RayTurns(Transposition, ray, turned)
  BY <1>14, <1>15, <1>16, <1>17, Zenon DEF Corners
<1>19. \A c \in Corners : Transposition[c] \in Corners /\ \A s \in CSquares(c) : Transposition[s] \in CSquares(Transposition[c])
  <2>1. /\ CSquares(0) = {1, 8} /\ CSquares(7) = {6, 15}
        /\ CSquares(56) = {57, 48} /\ CSquares(63) = {62, 55}
    BY DEF CSquares
  <2> QED
    BY <1>3, <1>5, <2>1 DEF Corners
<1>20. \A x \in XSquares : Transposition[x] \in XSquares /\ CornerOf(Transposition[x]) = Transposition[CornerOf(x)]
  <2>1. CornerOf(9) = 0 /\ CornerOf(14) = 7 /\ CornerOf(49) = 56 /\ CornerOf(54) = 63
    BY DEF CornerOf
  <2> QED
    BY <1>3, <1>4, <2>1 DEF XSquares
<1> QED
  BY <1>18, <1>19, <1>20 DEF CornersTurn

\* A symmetry of the board and of its corners.
TurnsBoard(t) == Symmetry(t) /\ CornersTurn(t)

LEMMA TurnKeeps ==
  ASSUME NEW t, TurnsBoard(t), NEW S \in SUBSET Squares, NEW x \in Squares
  PROVE  /\ t[x] \in Squares /\ t[t[x]] = x
         /\ t[x] \in Turn(t, S) <=> x \in S
         /\ x \in Turn(t, S) <=> t[x] \in S
         /\ Turn(t, S) \in SUBSET Squares /\ Turn(t, Turn(t, S)) = S
<1>1. Involution(t, Squares)
  BY DEF TurnsBoard, Symmetry
<1>2. t[x] \in Squares /\ t[t[x]] = x
  BY <1>1 DEF Involution
<1>3. \A y \in Squares : y \in Turn(t, S) <=> t[y] \in S
  BY <1>1, TurnMember
<1>4. Turn(t, S) \in SUBSET Squares /\ Turn(t, Turn(t, S)) = S
  BY <1>1, TurnParts DEF TurnsSets
<1> QED
  BY <1>2, <1>3, <1>4

LEMMA CornersAreSquares ==
  ASSUME Width = 8
  PROVE  /\ Corners \subseteq Squares /\ XSquares \subseteq Squares
         /\ \A x \in XSquares : CornerOf(x) \in Corners
         /\ \A c \in Corners : CSquares(c) \subseteq Squares
         /\ \A c \in Corners : \A ray \in EdgeRays(c) : \A k \in 0 .. 6 : ray[1] + k * ray[2] \in Squares
<1>1. Squares = 0 .. 63
  BY DEF Squares
<1>2. Corners \subseteq Squares /\ XSquares \subseteq Squares
  BY <1>1 DEF Corners, XSquares
<1>3. \A x \in XSquares : CornerOf(x) \in Corners
  <2>1. CornerOf(9) = 0 /\ CornerOf(14) = 7 /\ CornerOf(49) = 56 /\ CornerOf(54) = 63
    BY DEF CornerOf
  <2> QED
    BY <2>1 DEF XSquares, Corners
<1>4. \A c \in Corners : CSquares(c) \subseteq Squares
  <2>1. /\ CSquares(0) = {1, 8} /\ CSquares(7) = {6, 15}
        /\ CSquares(56) = {57, 48} /\ CSquares(63) = {62, 55}
    BY DEF CSquares
  <2> QED
    BY <1>1, <2>1 DEF Corners
<1>5. ASSUME NEW c \in Corners, NEW ray \in EdgeRays(c), NEW k \in 0 .. 6
      PROVE  ray[1] + k * ray[2] \in Squares
  <2>1. /\ EdgeRays(0) = {<<1, 1>>, <<8, 8>>} /\ EdgeRays(7) = {<<6, -1>>, <<15, 8>>}
        /\ EdgeRays(56) = {<<57, 1>>, <<48, -8>>} /\ EdgeRays(63) = {<<62, -1>>, <<55, -8>>}
    BY DEF EdgeRays
  <2>2. \/ ray[1] = 1 /\ ray[2] = 1
        \/ ray[1] = 8 /\ ray[2] = 8
        \/ ray[1] = 6 /\ ray[2] = -1
        \/ ray[1] = 15 /\ ray[2] = 8
        \/ ray[1] = 57 /\ ray[2] = 1
        \/ ray[1] = 48 /\ ray[2] = -8
        \/ ray[1] = 62 /\ ray[2] = -1
        \/ ray[1] = 55 /\ ray[2] = -8
    BY <2>1 DEF Corners
  <2> QED
    BY <1>1, <2>2
<1> QED
  BY <1>2, <1>3, <1>4, <1>5

LEMMA DangerousTurn ==
  ASSUME Width = 8, NEW t, TurnsBoard(t), NEW S \in SUBSET Squares, NEW occupied \in SUBSET Squares
  PROVE  DangerousXSquares(Turn(t, S), Turn(t, occupied)) = Turn(t, DangerousXSquares(S, occupied))
<1>1. ASSUME NEW A \in SUBSET Squares, NEW B \in SUBSET Squares, NEW x \in DangerousXSquares(A, B)
      PROVE  t[x] \in DangerousXSquares(Turn(t, A), Turn(t, B))
  <2>1. x \in XSquares /\ x \in A /\ CornerOf(x) \notin B
    BY DEF DangerousXSquares
  <2>2. t[x] \in XSquares /\ CornerOf(t[x]) = t[CornerOf(x)]
    BY <2>1 DEF TurnsBoard, CornersTurn
  <2>3. CornerOf(x) \in Squares
    BY <2>1, CornersAreSquares
  <2>4. t[x] \in Turn(t, A) /\ t[CornerOf(x)] \notin Turn(t, B)
    BY <2>1, <2>3, TurnKeeps
  <2> QED
    BY <2>2, <2>4 DEF DangerousXSquares
<1>2. Turn(t, S) \in SUBSET Squares /\ Turn(t, occupied) \in SUBSET Squares
      /\ Turn(t, Turn(t, S)) = S /\ Turn(t, Turn(t, occupied)) = occupied
  BY SymmetryTurns DEF TurnsBoard, TurnsSets
<1>3. \A x \in DangerousXSquares(S, occupied) : t[x] \in DangerousXSquares(Turn(t, S), Turn(t, occupied))
  BY <1>1
<1>4. \A x \in DangerousXSquares(Turn(t, S), Turn(t, occupied)) : t[x] \in DangerousXSquares(S, occupied)
  BY <1>1, <1>2
<1>5. \A A \in SUBSET Squares : \A B : DangerousXSquares(A, B) \in SUBSET Squares
  BY DEF DangerousXSquares
<1> QED
  BY <1>2, <1>3, <1>4, <1>5, TurnedSet DEF TurnsBoard, Symmetry

LEMMA StableMoves ==
  ASSUME Width = 8, NEW t, TurnsBoard(t), NEW S \in SUBSET Squares, NEW q \in StableEdgeSquares(S)
  PROVE  t[q] \in StableEdgeSquares(Turn(t, S))
<1>0. PICK c \in Corners \cap S : \E ray \in EdgeRays(c) : q \in AnchoredRay(S, ray)
  BY DEF StableEdgeSquares
<1>1. PICK ray \in EdgeRays(c) : q \in AnchoredRay(S, ray)
  BY <1>0
<1>2. PICK k \in 0 .. 6 : q = ray[1] + k * ray[2] /\ \A j \in 0 .. k : ray[1] + j * ray[2] \in S
  BY <1>1 DEF AnchoredRay
<1>3. PICK turned \in EdgeRays(t[c]) : RayTurns(t, ray, turned)
  BY <1>1 DEF TurnsBoard, CornersTurn
<1>4. t[c] \in Corners \cap Turn(t, S)
  BY <1>1 DEF TurnsBoard, CornersTurn, Turn
<1>5. t[q] = turned[1] + k * turned[2]
  BY <1>2, <1>3 DEF RayTurns
<1>6. ASSUME NEW j \in 0 .. k
      PROVE  turned[1] + j * turned[2] \in Turn(t, S)
  <2>1. j \in 0 .. 6
    OBVIOUS
  <2>2. t[ray[1] + j * ray[2]] = turned[1] + j * turned[2]
    BY <1>3, <2>1 DEF RayTurns
  <2>3. ray[1] + j * ray[2] \in S
    BY <1>2
  <2> QED
    BY <2>2, <2>3 DEF Turn
<1>7. t[q] \in AnchoredRay(Turn(t, S), turned)
  BY <1>5, <1>6 DEF AnchoredRay
<1> QED
  BY <1>3, <1>4, <1>7 DEF StableEdgeSquares

LEMMA StableTurn ==
  ASSUME Width = 8, NEW t, TurnsBoard(t), NEW S \in SUBSET Squares
  PROVE  StableEdgeSquares(Turn(t, S)) = Turn(t, StableEdgeSquares(S))
<1>1. Turn(t, S) \in SUBSET Squares /\ Turn(t, Turn(t, S)) = S
  BY SymmetryTurns DEF TurnsBoard, TurnsSets
<1>2. StableEdgeSquares(S) \in SUBSET Squares /\ StableEdgeSquares(Turn(t, S)) \in SUBSET Squares
  BY <1>1, StableAre
<1>3. \A q \in StableEdgeSquares(S) : t[q] \in StableEdgeSquares(Turn(t, S))
  BY StableMoves
<1>4. \A q \in StableEdgeSquares(Turn(t, S)) : t[q] \in StableEdgeSquares(S)
  BY <1>1, StableMoves
<1> QED
  BY <1>2, <1>3, <1>4, TurnedSet DEF TurnsBoard, Symmetry

\* What one corner is worth, of the sum CornerLocalValue.
LocalX(discsOf, corner) == { s \in XSquares \cap discsOf : CornerOf(s) = corner }
LocalTerm(discsOf, occupied, corner) ==
  IF corner \notin occupied
  THEN -2 * Cardinality(LocalX(discsOf, corner)) - Cardinality(CSquares(corner) \cap discsOf)
  ELSE IF corner \in discsOf THEN Cardinality(CSquares(corner) \cap discsOf) ELSE 0

LEMMA LocalTermTurns ==
  ASSUME Width = 8, NEW t, TurnsBoard(t), NEW S \in SUBSET Squares, NEW occupied \in SUBSET Squares,
         NEW c \in Corners
  PROVE  LocalTerm(Turn(t, S), Turn(t, occupied), c) = LocalTerm(S, occupied, t[c])
<1>1. c \in Squares /\ t[c] \in Corners /\ t[t[c]] = c
  BY CornersAreSquares, TurnKeeps DEF TurnsBoard, CornersTurn
<1>2. (c \in Turn(t, occupied) <=> t[c] \in occupied) /\ (c \in Turn(t, S) <=> t[c] \in S)
  BY <1>1, TurnKeeps
<1>3. \A x \in Squares : t[x] \in Squares /\ t[t[x]] = x /\ (t[x] \in Turn(t, S) <=> x \in S) /\ (x \in Turn(t, S) <=> t[x] \in S)
  BY TurnKeeps
<1>4. Cardinality(CSquares(c) \cap Turn(t, S)) = Cardinality(CSquares(t[c]) \cap S)
  <2> DEFINE A == CSquares(t[c]) \cap S
             B == CSquares(c) \cap Turn(t, S)
  <2>1. A \in SUBSET Squares /\ B \in SUBSET Squares
    BY <1>1, CornersAreSquares
  <2>2. \A x \in A : t[x] \in B
    <3>1. \A s \in CSquares(t[c]) : t[s] \in CSquares(t[t[c]])
      BY <1>1 DEF TurnsBoard, CornersTurn
    <3> QED
      BY <1>1, <1>3, <2>1, <3>1
  <2>3. \A x \in B : t[x] \in A
    <3>1. \A s \in CSquares(c) : t[s] \in CSquares(t[c])
      BY <1>1 DEF TurnsBoard, CornersTurn
    <3> QED
      BY <1>3, <2>1, <3>1
  <2> HIDE DEF A, B
  <2>4. B = Turn(t, A)
    BY <2>1, <2>2, <2>3, TurnedSet DEF TurnsBoard, Symmetry
  <2>5. Cardinality(B) = Cardinality(A)
    BY <2>1, <2>4, SymmetryTurns DEF TurnsBoard
  <2> QED
    BY <2>5 DEF A, B
<1>5. Cardinality(LocalX(Turn(t, S), c)) = Cardinality(LocalX(S, t[c]))
  <2> DEFINE A == LocalX(S, t[c])
             B == LocalX(Turn(t, S), c)
  <2>1. A \in SUBSET Squares /\ B \in SUBSET Squares
    BY CornersAreSquares DEF LocalX
  <2>2. \A x \in XSquares : t[x] \in XSquares /\ CornerOf(t[x]) = t[CornerOf(x)]
    BY DEF TurnsBoard, CornersTurn
  <2>3. \A x \in A : t[x] \in B
    BY <1>1, <1>3, <2>1, <2>2 DEF LocalX
  <2>4. \A x \in B : t[x] \in A
    BY <1>3, <2>1, <2>2 DEF LocalX
  <2> HIDE DEF A, B
  <2>5. B = Turn(t, A)
    BY <2>1, <2>3, <2>4, TurnedSet DEF TurnsBoard, Symmetry
  <2>6. Cardinality(B) = Cardinality(A)
    BY <2>1, <2>5, SymmetryTurns DEF TurnsBoard
  <2> QED
    BY <2>6 DEF A, B
<1> QED
  BY <1>2, <1>4, <1>5 DEF LocalTerm

LEMMA LocalTermTyped ==
  ASSUME Width = 8, NEW S \in SUBSET Squares, NEW occupied, NEW c
  PROVE  LocalTerm(S, occupied, c) \in Int
<1> DEFINE a == Cardinality(LocalX(S, c))
           b == Cardinality(CSquares(c) \cap S)
<1>1. \A T : T \subseteq S => Cardinality(T) \in Int
  BY SquaresFinite, FS_Subset, FS_CardinalityType
<1>2. LocalX(S, c) \subseteq S /\ CSquares(c) \cap S \subseteq S
  BY DEF LocalX
<1>3. a \in Int /\ b \in Int
  BY <1>1, <1>2
<1> HIDE DEF a, b
<1>4. LocalTerm(S, occupied, c) = IF c \notin occupied THEN -2 * a - b ELSE IF c \in S THEN b ELSE 0
  BY DEF LocalTerm, a, b
<1> QED
  BY <1>3, <1>4

LEMMA CornerLocalTurn ==
  ASSUME Width = 8, NEW t, TurnsBoard(t), NEW S \in SUBSET Squares, NEW occupied \in SUBSET Squares
  PROVE  CornerLocalValue(Turn(t, S), Turn(t, occupied)) = CornerLocalValue(S, occupied)
<1> DEFINE f == [c \in Corners |-> LocalTerm(S, occupied, c)]
           g == [c \in Corners |-> LocalTerm(Turn(t, S), Turn(t, occupied), c)]
           pi == [c \in Corners |-> t[c]]
<1>1. CornerLocalValue(S, occupied) = SumOf(f)
  BY Zenon DEF CornerLocalValue, LocalTerm, LocalX
<1>2. CornerLocalValue(Turn(t, S), Turn(t, occupied)) = SumOf(g)
  BY Zenon DEF CornerLocalValue, LocalTerm, LocalX
<1>3. \A c \in Corners : t[c] \in Corners /\ t[t[c]] = c
  BY CornersAreSquares, TurnKeeps DEF TurnsBoard, CornersTurn
<1>4. Involution(pi, Corners)
  BY <1>3 DEF Involution
<1>5. IsFiniteSet(Corners)
  BY FourFinite DEF Corners
<1>6. \A c \in Corners : LocalTerm(S, occupied, c) \in Int
  BY LocalTermTyped
<1>7. \A c \in Corners : LocalTerm(Turn(t, S), Turn(t, occupied), c) = LocalTerm(S, occupied, t[c])
  BY LocalTermTurns
<1>8. \A c \in Corners : f[c] \in Int /\ g[c] = f[pi[c]]
  BY <1>3, <1>6, <1>7
<1>9. DOMAIN f = Corners /\ DOMAIN g = Corners
  OBVIOUS
<1> HIDE DEF f, g, pi
<1>10. SumOf(g) = SumOf(f)
  BY <1>4, <1>5, <1>8, <1>9, SumMoves
<1> QED
  BY <1>1, <1>2, <1>10

(***************************************************************************)
(* The rule tables in a mirror: an instance becomes another one, or, of    *)
(* the edges, the same or another one read from its other end.             *)
(***************************************************************************)
Onto(t, first, second, n) == \A k \in 1 .. n : first[k] \in Squares /\ second[k] = t[first[k]]
OntoReversed(t, first, second) == \A k \in 1 .. 8 : first[k] \in Squares /\ second[9 - k] = t[first[k]]

LEMMA CellTurns ==
  ASSUME NEW t, Symmetry(t), NEW player \in SUBSET Squares, NEW opp \in SUBSET Squares, NEW s \in Squares
  PROVE  CellState(Turn(t, player), Turn(t, opp), s) = CellState(player, opp, t[s])
<1>1. Involution(t, Squares)
  BY DEF Symmetry
<1>2. \A S \in SUBSET Squares : s \in Turn(t, S) <=> t[s] \in S
  BY <1>1, TurnMember
<1> QED
  BY <1>2 DEF CellState

SameSign(x, i, y, j) == Signed(x, i - 1) = Signed(y, j - 1)

LEMMA SignMoves ==
  ASSUME NEW t, Symmetry(t), NEW player \in SUBSET Squares, NEW opp \in SUBSET Squares,
         NEW n \in 0 .. 10, NEW first, NEW second, Len(first) = n, Len(second) = n,
         NEW i \in 1 .. n, NEW j \in 1 .. n, first[i] \in Squares, second[j] = t[first[i]]
  PROVE  SameSign(PatternIndex(Turn(t, player), Turn(t, opp), first), i, PatternIndex(player, opp, second), j)
<1> DEFINE p == Turn(t, player)
           o == Turn(t, opp)
           x == Digit(PatternIndex(p, o, first), i - 1)
           y == Digit(PatternIndex(player, opp, second), j - 1)
<1>1. i - 1 \in 0 .. n - 1 /\ j - 1 \in 0 .. n - 1 /\ (i - 1) + 1 = i /\ (j - 1) + 1 = j
  OBVIOUS
<1>2. DigitsTell(p, o, first, n) /\ DigitsTell(player, opp, second, n)
  <2> HIDE DEF p, o
  <2> QED
    BY IndexTells
<1>3. x = CellState(p, o, first[i])
  <2> HIDE DEF p, o
  <2> QED
    BY <1>1, <1>2 DEF DigitsTell
<1>4. y = CellState(player, opp, second[j])
  BY <1>1, <1>2 DEF DigitsTell
<1>5. x = y
  <2>1. CellState(p, o, first[i]) = CellState(player, opp, t[first[i]])
    BY CellTurns
  <2> HIDE DEF x, y
  <2> QED
    BY <1>3, <1>4, <2>1
<1>6. /\ Signed(PatternIndex(p, o, first), i - 1) = IF x = 1 THEN 1 ELSE IF x = 2 THEN -1 ELSE 0
      /\ Signed(PatternIndex(player, opp, second), j - 1) = IF y = 1 THEN 1 ELSE IF y = 2 THEN -1 ELSE 0
  BY Zenon DEF Signed
<1> HIDE DEF x, y
<1>7. Signed(PatternIndex(p, o, first), i - 1) = Signed(PatternIndex(player, opp, second), j - 1)
  <2> HIDE DEF p, o
  <2> QED
    BY <1>5, <1>6
<1> QED
  BY <1>7 DEF SameSign

LEMMA CornerRuleMoves ==
  ASSUME NEW t, Symmetry(t), NEW player \in SUBSET Squares, NEW opp \in SUBSET Squares,
         NEW first, NEW second, Len(first) = 6, Len(second) = 6, Onto(t, first, second, 6)
  PROVE  Corner2x3RuleValue(PatternIndex(Turn(t, player), Turn(t, opp), first))
           = Corner2x3RuleValue(PatternIndex(player, opp, second))
<1> DEFINE x == PatternIndex(Turn(t, player), Turn(t, opp), first)
           y == PatternIndex(player, opp, second)
<1>0. PICK n \in 0 .. 10 : n = 6
  OBVIOUS
<1>1. ASSUME NEW i \in 1 .. 6
      PROVE  Signed(x, i - 1) = Signed(y, i - 1)
  <2>1. first[i] \in Squares /\ second[i] = t[first[i]] /\ i \in 1 .. n /\ Len(first) = n /\ Len(second) = n
    BY <1>0 DEF Onto
  <2>2. SameSign(x, i, y, i)
    BY <2>1, SignMoves
  <2> QED
    BY <2>2 DEF SameSign
<1> HIDE DEF x, y
<1>2. ASSUME NEW k \in 0 .. 5
      PROVE  Signed(x, k) = Signed(y, k)
  <2>1. k + 1 \in 1 .. 6 /\ (k + 1) - 1 = k
    OBVIOUS
  <2>2. Signed(x, (k + 1) - 1) = Signed(y, (k + 1) - 1)
    BY <1>1, <2>1
  <2> QED
    BY <2>1, <2>2
<1>3. /\ Signed(x, 0) = Signed(y, 0) /\ Signed(x, 1) = Signed(y, 1) /\ Signed(x, 2) = Signed(y, 2)
      /\ Signed(x, 3) = Signed(y, 3) /\ Signed(x, 4) = Signed(y, 4) /\ Signed(x, 5) = Signed(y, 5)
  BY <1>2
<1>4. Corner2x3RuleValue(x) = Corner2x3RuleValue(y)
  BY <1>3, Zenon DEF Corner2x3RuleValue
<1> QED
  BY <1>4 DEF x, y

\* An edge read from its other end has the value it has from this one.
Signs(index) == [k \in 0 .. 7 |-> Signed(index, k)]

LEMMA EdgeRuleReverses ==
  ASSUME NEW x, NEW y, \A k \in 0 .. 7 : Signed(x, k) = Signed(y, 7 - k)
  PROVE  Edge8RuleValue(x) = Edge8RuleValue(y)
<1> DEFINE Reversed(c) == [k \in 0 .. 7 |-> c[7 - k]]
           Part(c) == [k \in 1 .. 6 |-> c[k]]
           Inner(c) == IF c[0] = 0 /\ c[7] = 0 THEN SumOf(Part(c)) ELSE 0
           Full(c) == IF \A k \in 1 .. 7 : c[k] = c[0] THEN 3 * c[0] ELSE 0
           v(c) == 2 * (c[0] + c[7]) + FromCorner(c) + FromCorner(Reversed(c)) - Inner(c) + Full(c)
           p == Signs(x)
           q == Signs(y)
<1>1. \A i : Edge8RuleValue(i) = Clamp(v(Signs(i)), 10)
  BY Zenon DEF Edge8RuleValue, Signs
<1>2. /\ \A k \in 0 .. 7 : p[k] = Signed(x, k) /\ q[k] = Signed(y, k)
      /\ p = [k \in 0 .. 7 |-> Signed(x, k)] /\ q = [k \in 0 .. 7 |-> Signed(y, k)]
  BY DEF Signs
<1>3. \A k \in 0 .. 7 : p[k] \in Int /\ q[k] \in Int /\ p[k] = q[7 - k] /\ 7 - k \in 0 .. 7
  <2>1. \A k \in 0 .. 7 : 7 - k \in 0 .. 7
    OBVIOUS
  <2>2. \A i, k : Signed(i, k) \in Int
    BY SignedIs
  <2> HIDE DEF p, q
  <2> QED
    BY <1>2, <2>1, <2>2
<1>4. Reversed(q) = p /\ Reversed(p) = q
  <2>1. \A k \in 0 .. 7 : 7 - (7 - k) = k
    OBVIOUS
  <2>2. \A k \in 0 .. 7 : q[7 - k] = Signed(x, k) /\ p[7 - k] = Signed(y, k)
    <3> HIDE DEF p, q
    <3> QED
      BY <1>2, <1>3, <2>1
  <2> HIDE DEF p, q
  <2> QED
    BY <1>2, <2>2
<1> HIDE DEF p, q
<1>5. FromCorner(p) \in Int /\ FromCorner(q) \in Int
  BY <1>3, FromCornerTyped
<1>6. SumOf(Part(p)) = SumOf(Part(q)) /\ SumOf(Part(q)) \in Int
  <2> DEFINE a == Part(p)
             b == Part(q)
             pi == [k \in 1 .. 6 |-> 7 - k]
  <2>1. DOMAIN a = 1 .. 6 /\ DOMAIN b = 1 .. 6
    OBVIOUS
  <2>2. \A k \in 1 .. 6 : 7 - k \in 1 .. 6 /\ 7 - (7 - k) = k /\ k \in 0 .. 7
    OBVIOUS
  <2>3. Involution(pi, 1 .. 6)
    BY <2>2 DEF Involution
  <2>4. \A k \in 1 .. 6 : b[k] \in Int /\ a[k] = b[pi[k]]
    BY <1>3, <2>2
  <2>5. IsFiniteSet(1 .. 6)
    BY RangesFinite
  <2> HIDE DEF a, b, pi
  <2>6. SumOf(a) = SumOf(b) /\ SumOf(b) \in Int
    BY <2>1, <2>3, <2>4, <2>5, SumMoves, SumOfTyped
  <2> QED
    BY <2>6 DEF a, b
<1>7. /\ p[0] \in Int /\ p[7] \in Int /\ p[0] = q[7] /\ p[7] = q[0]
  <2>1. 0 \in 0 .. 7 /\ 7 \in 0 .. 7 /\ 7 - 0 = 7 /\ 7 - 7 = 0
    OBVIOUS
  <2> QED
    BY <1>3, <2>1
<1> HIDE DEF Part
<1>8. Inner(p) = Inner(q) /\ Inner(p) \in Int
  BY <1>6, <1>7
<1>9. Full(p) = Full(q) /\ Full(p) \in Int
  <2>1. ASSUME NEW a, NEW b, \A k \in 0 .. 7 : a[k] = b[7 - k], \A k \in 1 .. 7 : b[k] = b[0]
        PROVE  (\A k \in 1 .. 7 : a[k] = a[0]) /\ a[0] = b[0]
    <3>1. \A k \in 0 .. 7 : b[k] = b[0]
      BY <2>1
    <3>2. \A k \in 0 .. 7 : a[k] = b[0]
      <4>1. \A k \in 0 .. 7 : 7 - k \in 0 .. 7
        OBVIOUS
      <4> QED
        BY <2>1, <3>1, <4>1
    <3> QED
      BY <3>2
  <2>2. \A k \in 0 .. 7 : q[k] = p[7 - k]
    <3>1. \A k \in 0 .. 7 : 7 - k \in 0 .. 7 /\ 7 - (7 - k) = k
      OBVIOUS
    <3> QED
      BY <1>3, <3>1
  <2>3. \A k \in 0 .. 7 : p[k] = q[7 - k]
    BY <1>3
  <2>4. (\A k \in 1 .. 7 : q[k] = q[0]) => (\A k \in 1 .. 7 : p[k] = p[0]) /\ p[0] = q[0]
    BY <2>1, <2>3
  <2>5. (\A k \in 1 .. 7 : p[k] = p[0]) => (\A k \in 1 .. 7 : q[k] = q[0]) /\ q[0] = p[0]
    BY <2>1, <2>2
  <2> DEFINE P == \A k \in 1 .. 7 : p[k] = p[0]
             Q == \A k \in 1 .. 7 : q[k] = q[0]
  <2>6. (P <=> Q) /\ (P => p[0] = q[0])
    BY <2>4, <2>5
  <2>7. Full(p) = (IF P THEN 3 * p[0] ELSE 0) /\ Full(q) = (IF Q THEN 3 * q[0] ELSE 0)
    OBVIOUS
  <2> HIDE DEF P, Q, Full
  <2> QED
    BY <1>7, <2>6, <2>7
<1> HIDE DEF Inner, Full
<1>10. v(p) = 2 * (p[0] + p[7]) + FromCorner(p) + FromCorner(q) - Inner(p) + Full(p)
  BY <1>4
<1>11. v(q) = 2 * (q[0] + q[7]) + FromCorner(q) + FromCorner(p) - Inner(q) + Full(q)
  BY <1>4
<1> HIDE DEF v
<1>12. v(p) = v(q)
  BY <1>5, <1>7, <1>8, <1>9, <1>10, <1>11
<1> QED
  BY <1>1, <1>12 DEF p, q

\* An edge's value depends on the signs of its cells.
LEMMA EdgeOfSigns ==
  ASSUME NEW x, NEW y, Signs(x) = Signs(y)
  PROVE  Edge8RuleValue(x) = Edge8RuleValue(y)
<1> DEFINE Reversed(c) == [k \in 0 .. 7 |-> c[7 - k]]
           Inner(c) == IF c[0] = 0 /\ c[7] = 0 THEN SumOf([k \in 1 .. 6 |-> c[k]]) ELSE 0
           Full(c) == IF \A k \in 1 .. 7 : c[k] = c[0] THEN 3 * c[0] ELSE 0
           v(c) == 2 * (c[0] + c[7]) + FromCorner(c) + FromCorner(Reversed(c)) - Inner(c) + Full(c)
<1>1. \A i : Edge8RuleValue(i) = Clamp(v(Signs(i)), 10)
  BY Zenon DEF Edge8RuleValue, Signs
<1> HIDE DEF v
<1> QED
  BY <1>1

LEMMA EdgeRuleMoves ==
  ASSUME NEW t, Symmetry(t), NEW player \in SUBSET Squares, NEW opp \in SUBSET Squares,
         NEW first, NEW second, Len(first) = 8, Len(second) = 8,
         Onto(t, first, second, 8) \/ OntoReversed(t, first, second)
  PROVE  Edge8RuleValue(PatternIndex(Turn(t, player), Turn(t, opp), first))
           = Edge8RuleValue(PatternIndex(player, opp, second))
<1> DEFINE x == PatternIndex(Turn(t, player), Turn(t, opp), first)
           y == PatternIndex(player, opp, second)
<1>0. PICK n \in 0 .. 10 : n = 8
  OBVIOUS
<1>1. CASE Onto(t, first, second, 8)
  <2>1. ASSUME NEW i \in 1 .. 8
        PROVE  Signed(x, i - 1) = Signed(y, i - 1)
    <3>1. first[i] \in Squares /\ second[i] = t[first[i]] /\ i \in 1 .. n /\ Len(first) = n /\ Len(second) = n
      BY <1>0, <1>1 DEF Onto
    <3>2. SameSign(x, i, y, i)
      BY <3>1, SignMoves
    <3> QED
      BY <3>2 DEF SameSign
  <2> HIDE DEF x, y
  <2>2. ASSUME NEW k \in 0 .. 7
        PROVE  Signed(x, k) = Signed(y, k)
    <3>1. k + 1 \in 1 .. 8 /\ (k + 1) - 1 = k
      OBVIOUS
    <3>2. Signed(x, (k + 1) - 1) = Signed(y, (k + 1) - 1)
      BY <2>1, <3>1
    <3> QED
      BY <3>1, <3>2
  <2>3. Signs(x) = Signs(y)
    BY <2>2 DEF Signs
  <2>4. Edge8RuleValue(x) = Edge8RuleValue(y)
    BY <2>3, EdgeOfSigns
  <2> QED
    BY <2>4 DEF x, y
<1>2. CASE OntoReversed(t, first, second)
  <2>1. ASSUME NEW i \in 1 .. 8
        PROVE  Signed(x, i - 1) = Signed(y, (9 - i) - 1)
    <3>1. /\ first[i] \in Squares /\ second[9 - i] = t[first[i]] /\ i \in 1 .. n /\ 9 - i \in 1 .. n
          /\ Len(first) = n /\ Len(second) = n
      BY <1>0, <1>2 DEF OntoReversed
    <3>2. SameSign(x, i, y, 9 - i)
      <4> DEFINE j == 9 - i
      <4> HIDE DEF j
      <4>1. j \in 1 .. n /\ second[j] = t[first[i]]
        BY <3>1 DEF j
      <4>2. SameSign(x, i, y, j)
        BY <3>1, <4>1, SignMoves
      <4> QED
        BY <4>2 DEF j
    <3> QED
      BY <3>2 DEF SameSign
  <2> HIDE DEF x, y
  <2>2. ASSUME NEW k \in 0 .. 7
        PROVE  Signed(x, k) = Signed(y, 7 - k)
    <3>1. k + 1 \in 1 .. 8 /\ (k + 1) - 1 = k /\ (9 - (k + 1)) - 1 = 7 - k
      OBVIOUS
    <3>2. Signed(x, (k + 1) - 1) = Signed(y, (9 - (k + 1)) - 1)
      BY <2>1, <3>1
    <3> QED
      BY <3>1, <3>2
  <2>3. Edge8RuleValue(x) = Edge8RuleValue(y)
    BY <2>2, EdgeRuleReverses
  <2> QED
    BY <2>3 DEF x, y
<1> QED
  BY <1>1, <1>2

\* The instances of the two families change places.
CornersChangePlaces(t) ==
  \E pi : /\ Involution(pi, 1 .. 4)
          /\ \A i \in 1 .. 4 :
               Onto(t, PatternSquares["corner_2x3"][i], PatternSquares["corner_2x3"][pi[i]], 6)
EdgesChangePlaces(t) ==
  \E pi : /\ Involution(pi, 1 .. 4)
          /\ \A i \in 1 .. 4 :
               \/ Onto(t, PatternSquares["edge_8"][i], PatternSquares["edge_8"][pi[i]], 8)
               \/ OntoReversed(t, PatternSquares["edge_8"][i], PatternSquares["edge_8"][pi[i]])

LEMMA CornerSumMoves ==
  ASSUME NEW t, Symmetry(t), CornersChangePlaces(t), NEW player \in SUBSET Squares, NEW opp \in SUBSET Squares
  PROVE  SumOfEntries(PatternIndexes(Turn(t, player), Turn(t, opp), "corner_2x3"), Corner2x3RuleValue)
           = SumOfEntries(PatternIndexes(player, opp, "corner_2x3"), Corner2x3RuleValue)
<1> DEFINE S == PatternSquares["corner_2x3"]
           Index(p, o) == PatternIndexes(p, o, "corner_2x3")
           Values(p, o) == [i \in DOMAIN Index(p, o) |-> Corner2x3RuleValue(Index(p, o)[i])]
           f == Values(player, opp)
           g == Values(Turn(t, player), Turn(t, opp))
<1>1. \A p, o : SumOfEntries(Index(p, o), Corner2x3RuleValue) = SumOf(Values(p, o))
  BY Zenon DEF SumOfEntries
<1>2. \A p, o : Index(p, o) = [i \in DOMAIN S |-> PatternIndex(p, o, S[i])]
  BY Zenon DEF PatternIndexes
<1>3. DOMAIN S = 1 .. 4 /\ \A i \in 1 .. 4 : Len(S[i]) = 6
  BY CornersAreSix
<1>4. PICK pi : /\ Involution(pi, 1 .. 4)
                /\ \A i \in 1 .. 4 : Onto(t, S[i], S[pi[i]], 6)
  BY Zenon DEF CornersChangePlaces
<1> HIDE DEF Index, S
<1>5. \A p, o : DOMAIN Index(p, o) = 1 .. 4 /\ \A i \in 1 .. 4 : Index(p, o)[i] = PatternIndex(p, o, S[i])
  BY <1>2, <1>3
<1>6. ASSUME NEW i \in 1 .. 4
      PROVE  f[i] \in Int /\ g[i] = f[pi[i]]
  <2> DEFINE a == S[i]
             b == S[pi[i]]
  <2>1. pi[i] \in 1 .. 4
    BY <1>4 DEF Involution
  <2>2. Len(a) = 6 /\ Len(b) = 6
    BY <1>3, <2>1
  <2>3. Onto(t, a, b, 6)
    BY <1>4
  <2>4. f[i] = Corner2x3RuleValue(PatternIndex(player, opp, a)) /\ f[pi[i]] = Corner2x3RuleValue(PatternIndex(player, opp, b))
    BY <1>5, <2>1
  <2>5. g[i] = Corner2x3RuleValue(PatternIndex(Turn(t, player), Turn(t, opp), a))
    BY <1>5
  <2> HIDE DEF a, b, f, g
  <2>6. Corner2x3RuleValue(PatternIndex(Turn(t, player), Turn(t, opp), a)) = Corner2x3RuleValue(PatternIndex(player, opp, b))
    BY <2>2, <2>3, CornerRuleMoves
  <2> QED
    BY <2>4, <2>5, <2>6, Corner2x3Typed
<1>7. DOMAIN f = 1 .. 4 /\ DOMAIN g = 1 .. 4
  BY <1>5
<1>8. IsFiniteSet(1 .. 4)
  BY RangesFinite
<1> HIDE DEF f, g
<1>9. SumOf(g) = SumOf(f)
  BY <1>4, <1>6, <1>7, <1>8, SumMoves
<1> QED
  BY <1>1, <1>9 DEF f, g, Index

LEMMA EdgeSumMoves ==
  ASSUME NEW t, Symmetry(t), EdgesChangePlaces(t), NEW player \in SUBSET Squares, NEW opp \in SUBSET Squares
  PROVE  SumOfEntries(PatternIndexes(Turn(t, player), Turn(t, opp), "edge_8"), Edge8RuleValue)
           = SumOfEntries(PatternIndexes(player, opp, "edge_8"), Edge8RuleValue)
<1> DEFINE S == PatternSquares["edge_8"]
           Index(p, o) == PatternIndexes(p, o, "edge_8")
           Values(p, o) == [i \in DOMAIN Index(p, o) |-> Edge8RuleValue(Index(p, o)[i])]
           f == Values(player, opp)
           g == Values(Turn(t, player), Turn(t, opp))
<1>1. \A p, o : SumOfEntries(Index(p, o), Edge8RuleValue) = SumOf(Values(p, o))
  BY Zenon DEF SumOfEntries
<1>2. \A p, o : Index(p, o) = [i \in DOMAIN S |-> PatternIndex(p, o, S[i])]
  BY Zenon DEF PatternIndexes
<1>3. DOMAIN S = 1 .. 4 /\ \A i \in 1 .. 4 : Len(S[i]) = 8
  BY EdgesAreEight
<1>4. PICK pi : /\ Involution(pi, 1 .. 4)
                /\ \A i \in 1 .. 4 : Onto(t, S[i], S[pi[i]], 8) \/ OntoReversed(t, S[i], S[pi[i]])
  BY Zenon DEF EdgesChangePlaces
<1> HIDE DEF Index, S
<1>5. \A p, o : DOMAIN Index(p, o) = 1 .. 4 /\ \A i \in 1 .. 4 : Index(p, o)[i] = PatternIndex(p, o, S[i])
  BY <1>2, <1>3
<1>6. ASSUME NEW i \in 1 .. 4
      PROVE  f[i] \in Int /\ g[i] = f[pi[i]]
  <2> DEFINE a == S[i]
             b == S[pi[i]]
  <2>1. pi[i] \in 1 .. 4
    BY <1>4 DEF Involution
  <2>2. Len(a) = 8 /\ Len(b) = 8
    BY <1>3, <2>1
  <2>3. Onto(t, a, b, 8) \/ OntoReversed(t, a, b)
    BY <1>4
  <2>4. f[i] = Edge8RuleValue(PatternIndex(player, opp, a)) /\ f[pi[i]] = Edge8RuleValue(PatternIndex(player, opp, b))
    BY <1>5, <2>1
  <2>5. g[i] = Edge8RuleValue(PatternIndex(Turn(t, player), Turn(t, opp), a))
    BY <1>5
  <2> HIDE DEF a, b, f, g
  <2>6. Edge8RuleValue(PatternIndex(Turn(t, player), Turn(t, opp), a)) = Edge8RuleValue(PatternIndex(player, opp, b))
    BY <2>2, <2>3, EdgeRuleMoves
  <2> QED
    BY <2>4, <2>5, <2>6, Edge8Typed
<1>7. DOMAIN f = 1 .. 4 /\ DOMAIN g = 1 .. 4
  BY <1>5
<1>8. IsFiniteSet(1 .. 4)
  BY RangesFinite
<1> HIDE DEF f, g
<1>9. SumOf(g) = SumOf(f)
  BY <1>4, <1>6, <1>7, <1>8, SumMoves
<1> QED
  BY <1>1, <1>9 DEF f, g, Index

LEMMA FourPlaces ==
  ASSUME NEW pi \in [1 .. 4 -> 1 .. 4],
         pi[pi[1]] = 1, pi[pi[2]] = 2, pi[pi[3]] = 3, pi[pi[4]] = 4
  PROVE  Involution(pi, 1 .. 4)
<1>2. \A i \in 1 .. 4 : i = 1 \/ i = 2 \/ i = 3 \/ i = 4
  OBVIOUS
<1> QED
  BY <1>2 DEF Involution

LEMMA FilesTurnCorners == Width = 8 => CornersChangePlaces(FilesTurn)
<1> SUFFICES ASSUME Width = 8
             PROVE  CornersChangePlaces(FilesTurn)
  OBVIOUS
<1> DEFINE a == <<0, 1, 2, 8, 9, 10>>
           b == <<7, 6, 5, 15, 14, 13>>
           c == <<56, 57, 58, 48, 49, 50>>
           d == <<63, 62, 61, 55, 54, 53>>
           P == PatternSquares["corner_2x3"]
           pi == <<2, 1, 4, 3>>
<1>1. P = <<a, b, c, d>>
  BY Zenon DEF PatternSquares, Corner2x3Squares
<1>2. \A s \in 0 .. 63 : s \in Squares /\ FilesTurn[s] = FlippedFiles(s)
  BY DEF FilesTurn, Squares
<1>3. \A s \in 0 .. 63 : FlippedFiles(s) = 8 * (s \div 8) + 7 - (s % 8)
  BY DEF FlippedFiles, Rank, File
<1>4. Involution(pi, 1 .. 4)
  <2>1. pi \in [1 .. 4 -> 1 .. 4]
    OBVIOUS
  <2>2. pi[pi[1]] = 1 /\ pi[pi[2]] = 2 /\ pi[pi[3]] = 3 /\ pi[pi[4]] = 4
    OBVIOUS
  <2> HIDE DEF pi
  <2> QED
    BY <2>1, <2>2, FourPlaces
<1>5. Onto(FilesTurn, a, b, 6)
  <2>1. /\ FilesTurn[0] = 7 /\ FilesTurn[1] = 6 /\ FilesTurn[2] = 5
        /\ FilesTurn[8] = 15 /\ FilesTurn[9] = 14 /\ FilesTurn[10] = 13
    BY <1>2, <1>3
  <2>2. \A k \in 1 .. 6 : k = 1 \/ k = 2 \/ k = 3 \/ k = 4 \/ k = 5 \/ k = 6
    OBVIOUS
  <2>3. \A k \in 1 .. 6 : a[k] \in 0 .. 63 /\ b[k] = FilesTurn[a[k]]
    BY <2>1, <2>2
  <2> QED
    BY <1>2, <2>3 DEF Onto
<1>6. Onto(FilesTurn, b, a, 6)
  <2>1. /\ FilesTurn[7] = 0 /\ FilesTurn[6] = 1 /\ FilesTurn[5] = 2
        /\ FilesTurn[15] = 8 /\ FilesTurn[14] = 9 /\ FilesTurn[13] = 10
    BY <1>2, <1>3
  <2>2. \A k \in 1 .. 6 : k = 1 \/ k = 2 \/ k = 3 \/ k = 4 \/ k = 5 \/ k = 6
    OBVIOUS
  <2>3. \A k \in 1 .. 6 : b[k] \in 0 .. 63 /\ a[k] = FilesTurn[b[k]]
    BY <2>1, <2>2
  <2> QED
    BY <1>2, <2>3 DEF Onto
<1>7. Onto(FilesTurn, c, d, 6)
  <2>1. /\ FilesTurn[56] = 63 /\ FilesTurn[57] = 62 /\ FilesTurn[58] = 61
        /\ FilesTurn[48] = 55 /\ FilesTurn[49] = 54 /\ FilesTurn[50] = 53
    BY <1>2, <1>3
  <2>2. \A k \in 1 .. 6 : k = 1 \/ k = 2 \/ k = 3 \/ k = 4 \/ k = 5 \/ k = 6
    OBVIOUS
  <2>3. \A k \in 1 .. 6 : c[k] \in 0 .. 63 /\ d[k] = FilesTurn[c[k]]
    BY <2>1, <2>2
  <2> QED
    BY <1>2, <2>3 DEF Onto
<1>8. Onto(FilesTurn, d, c, 6)
  <2>1. /\ FilesTurn[63] = 56 /\ FilesTurn[62] = 57 /\ FilesTurn[61] = 58
        /\ FilesTurn[55] = 48 /\ FilesTurn[54] = 49 /\ FilesTurn[53] = 50
    BY <1>2, <1>3
  <2>2. \A k \in 1 .. 6 : k = 1 \/ k = 2 \/ k = 3 \/ k = 4 \/ k = 5 \/ k = 6
    OBVIOUS
  <2>3. \A k \in 1 .. 6 : d[k] \in 0 .. 63 /\ c[k] = FilesTurn[d[k]]
    BY <2>1, <2>2
  <2> QED
    BY <1>2, <2>3 DEF Onto
<1>9. P[1] = a /\ P[2] = b /\ P[3] = c /\ P[4] = d
  <2> HIDE DEF a, b, c, d, P
  <2> QED
    BY <1>1
<1>10. pi[1] = 2 /\ pi[2] = 1 /\ pi[3] = 4 /\ pi[4] = 3
  OBVIOUS
<1>11. \A i \in 1 .. 4 : i = 1 \/ i = 2 \/ i = 3 \/ i = 4
  OBVIOUS
<1> HIDE DEF a, b, c, d, P, pi
<1>12. \A i \in 1 .. 4 : Onto(FilesTurn, P[i], P[pi[i]], 6)
  BY <1>5, <1>6, <1>7, <1>8, <1>9, <1>10, <1>11
<1> QED
  BY <1>4, <1>12 DEF CornersChangePlaces, P

LEMMA RanksTurnCorners == Width = 8 => CornersChangePlaces(RanksTurn)
<1> SUFFICES ASSUME Width = 8
             PROVE  CornersChangePlaces(RanksTurn)
  OBVIOUS
<1> DEFINE a == <<0, 1, 2, 8, 9, 10>>
           b == <<7, 6, 5, 15, 14, 13>>
           c == <<56, 57, 58, 48, 49, 50>>
           d == <<63, 62, 61, 55, 54, 53>>
           P == PatternSquares["corner_2x3"]
           pi == <<3, 4, 1, 2>>
<1>1. P = <<a, b, c, d>>
  BY Zenon DEF PatternSquares, Corner2x3Squares
<1>2. \A s \in 0 .. 63 : s \in Squares /\ RanksTurn[s] = FlippedRanks(s)
  BY DEF RanksTurn, Squares
<1>3. \A s \in 0 .. 63 : FlippedRanks(s) = 8 * (7 - (s \div 8)) + (s % 8)
  BY DEF FlippedRanks, Rank, File
<1>4. Involution(pi, 1 .. 4)
  <2>1. pi \in [1 .. 4 -> 1 .. 4]
    OBVIOUS
  <2>2. pi[pi[1]] = 1 /\ pi[pi[2]] = 2 /\ pi[pi[3]] = 3 /\ pi[pi[4]] = 4
    OBVIOUS
  <2> HIDE DEF pi
  <2> QED
    BY <2>1, <2>2, FourPlaces
<1>5. Onto(RanksTurn, a, c, 6)
  <2>1. /\ RanksTurn[0] = 56 /\ RanksTurn[1] = 57 /\ RanksTurn[2] = 58
        /\ RanksTurn[8] = 48 /\ RanksTurn[9] = 49 /\ RanksTurn[10] = 50
    BY <1>2, <1>3
  <2>2. \A k \in 1 .. 6 : k = 1 \/ k = 2 \/ k = 3 \/ k = 4 \/ k = 5 \/ k = 6
    OBVIOUS
  <2>3. \A k \in 1 .. 6 : a[k] \in 0 .. 63 /\ c[k] = RanksTurn[a[k]]
    BY <2>1, <2>2
  <2> QED
    BY <1>2, <2>3 DEF Onto
<1>6. Onto(RanksTurn, b, d, 6)
  <2>1. /\ RanksTurn[7] = 63 /\ RanksTurn[6] = 62 /\ RanksTurn[5] = 61
        /\ RanksTurn[15] = 55 /\ RanksTurn[14] = 54 /\ RanksTurn[13] = 53
    BY <1>2, <1>3
  <2>2. \A k \in 1 .. 6 : k = 1 \/ k = 2 \/ k = 3 \/ k = 4 \/ k = 5 \/ k = 6
    OBVIOUS
  <2>3. \A k \in 1 .. 6 : b[k] \in 0 .. 63 /\ d[k] = RanksTurn[b[k]]
    BY <2>1, <2>2
  <2> QED
    BY <1>2, <2>3 DEF Onto
<1>7. Onto(RanksTurn, c, a, 6)
  <2>1. /\ RanksTurn[56] = 0 /\ RanksTurn[57] = 1 /\ RanksTurn[58] = 2
        /\ RanksTurn[48] = 8 /\ RanksTurn[49] = 9 /\ RanksTurn[50] = 10
    BY <1>2, <1>3
  <2>2. \A k \in 1 .. 6 : k = 1 \/ k = 2 \/ k = 3 \/ k = 4 \/ k = 5 \/ k = 6
    OBVIOUS
  <2>3. \A k \in 1 .. 6 : c[k] \in 0 .. 63 /\ a[k] = RanksTurn[c[k]]
    BY <2>1, <2>2
  <2> QED
    BY <1>2, <2>3 DEF Onto
<1>8. Onto(RanksTurn, d, b, 6)
  <2>1. /\ RanksTurn[63] = 7 /\ RanksTurn[62] = 6 /\ RanksTurn[61] = 5
        /\ RanksTurn[55] = 15 /\ RanksTurn[54] = 14 /\ RanksTurn[53] = 13
    BY <1>2, <1>3
  <2>2. \A k \in 1 .. 6 : k = 1 \/ k = 2 \/ k = 3 \/ k = 4 \/ k = 5 \/ k = 6
    OBVIOUS
  <2>3. \A k \in 1 .. 6 : d[k] \in 0 .. 63 /\ b[k] = RanksTurn[d[k]]
    BY <2>1, <2>2
  <2> QED
    BY <1>2, <2>3 DEF Onto
<1>9. P[1] = a /\ P[2] = b /\ P[3] = c /\ P[4] = d
  <2> HIDE DEF a, b, c, d, P
  <2> QED
    BY <1>1
<1>10. pi[1] = 3 /\ pi[2] = 4 /\ pi[3] = 1 /\ pi[4] = 2
  OBVIOUS
<1>11. \A i \in 1 .. 4 : i = 1 \/ i = 2 \/ i = 3 \/ i = 4
  OBVIOUS
<1> HIDE DEF a, b, c, d, P, pi
<1>12. \A i \in 1 .. 4 : Onto(RanksTurn, P[i], P[pi[i]], 6)
  BY <1>5, <1>6, <1>7, <1>8, <1>9, <1>10, <1>11
<1> QED
  BY <1>4, <1>12 DEF CornersChangePlaces, P

LEMMA FilesTurnEdges == Width = 8 => EdgesChangePlaces(FilesTurn)
<1> SUFFICES ASSUME Width = 8
             PROVE  EdgesChangePlaces(FilesTurn)
  OBVIOUS
<1> DEFINE a == Line8(0, 1)
           b == Line8(56, 1)
           c == Line8(0, 8)
           d == Line8(7, 8)
           P == PatternSquares["edge_8"]
           pi == <<1, 2, 4, 3>>
<1>1. P = <<a, b, c, d>>
  BY Zenon DEF PatternSquares
<1>2. \A s \in 0 .. 63 : s \in Squares /\ FilesTurn[s] = FlippedFiles(s)
  BY DEF FilesTurn, Squares
<1>3. Involution(pi, 1 .. 4)
  <2>1. pi \in [1 .. 4 -> 1 .. 4]
    OBVIOUS
  <2>2. pi[pi[1]] = 1 /\ pi[pi[2]] = 2 /\ pi[pi[3]] = 3 /\ pi[pi[4]] = 4
    OBVIOUS
  <2> HIDE DEF pi
  <2> QED
    BY <2>1, <2>2, FourPlaces
<1>4. \A k \in 1 .. 8 : a[k] = k - 1 /\ b[k] = 55 + k /\ c[k] = 8 * (k - 1) /\ d[k] = 7 + 8 * (k - 1)
  BY DEF Line8
<1> HIDE DEF a, b, c, d
<1>5. OntoReversed(FilesTurn, a, a)
  <2>1. \A k \in 1 .. 8 : k - 1 \in 0 .. 63 /\ FlippedFiles(k - 1) = (9 - k) - 1 /\ 9 - k \in 1 .. 8
    BY DEF FlippedFiles, Rank, File
  <2> QED
    BY <1>2, <1>4, <2>1 DEF OntoReversed
<1>6. OntoReversed(FilesTurn, b, b)
  <2>1. \A k \in 1 .. 8 : 55 + k \in 0 .. 63 /\ FlippedFiles(55 + k) = 55 + (9 - k) /\ 9 - k \in 1 .. 8
    BY DEF FlippedFiles, Rank, File
  <2> QED
    BY <1>2, <1>4, <2>1 DEF OntoReversed
<1>7. Onto(FilesTurn, c, d, 8)
  <2>1. \A k \in 1 .. 8 : 8 * (k - 1) \in 0 .. 63 /\ FlippedFiles(8 * (k - 1)) = 7 + 8 * (k - 1) /\ k \in 1 .. 8
    BY DEF FlippedFiles, Rank, File
  <2> QED
    BY <1>2, <1>4, <2>1 DEF Onto
<1>8. Onto(FilesTurn, d, c, 8)
  <2>1. \A k \in 1 .. 8 : 7 + 8 * (k - 1) \in 0 .. 63 /\ FlippedFiles(7 + 8 * (k - 1)) = 8 * (k - 1) /\ k \in 1 .. 8
    BY DEF FlippedFiles, Rank, File
  <2> QED
    BY <1>2, <1>4, <2>1 DEF Onto
<1>9. P[1] = a /\ P[2] = b /\ P[3] = c /\ P[4] = d
  <2> HIDE DEF P
  <2> QED
    BY <1>1
<1>10. pi[1] = 1 /\ pi[2] = 2 /\ pi[3] = 4 /\ pi[4] = 3
  OBVIOUS
<1>11. \A i \in 1 .. 4 : i = 1 \/ i = 2 \/ i = 3 \/ i = 4
  OBVIOUS
<1> HIDE DEF P, pi
<1>12. \A i \in 1 .. 4 : Onto(FilesTurn, P[i], P[pi[i]], 8) \/ OntoReversed(FilesTurn, P[i], P[pi[i]])
  BY <1>5, <1>6, <1>7, <1>8, <1>9, <1>10, <1>11
<1> QED
  BY <1>3, <1>12 DEF EdgesChangePlaces, P

LEMMA RanksTurnEdges == Width = 8 => EdgesChangePlaces(RanksTurn)
<1> SUFFICES ASSUME Width = 8
             PROVE  EdgesChangePlaces(RanksTurn)
  OBVIOUS
<1> DEFINE a == Line8(0, 1)
           b == Line8(56, 1)
           c == Line8(0, 8)
           d == Line8(7, 8)
           P == PatternSquares["edge_8"]
           pi == <<2, 1, 3, 4>>
<1>1. P = <<a, b, c, d>>
  BY Zenon DEF PatternSquares
<1>2. \A s \in 0 .. 63 : s \in Squares /\ RanksTurn[s] = FlippedRanks(s)
  BY DEF RanksTurn, Squares
<1>3. Involution(pi, 1 .. 4)
  <2>1. pi \in [1 .. 4 -> 1 .. 4]
    OBVIOUS
  <2>2. pi[pi[1]] = 1 /\ pi[pi[2]] = 2 /\ pi[pi[3]] = 3 /\ pi[pi[4]] = 4
    OBVIOUS
  <2> HIDE DEF pi
  <2> QED
    BY <2>1, <2>2, FourPlaces
<1>4. \A k \in 1 .. 8 : a[k] = k - 1 /\ b[k] = 55 + k /\ c[k] = 8 * (k - 1) /\ d[k] = 7 + 8 * (k - 1)
  BY DEF Line8
<1> HIDE DEF a, b, c, d
<1>5. Onto(RanksTurn, a, b, 8)
  <2>1. \A k \in 1 .. 8 : k - 1 \in 0 .. 63 /\ FlippedRanks(k - 1) = 55 + k /\ k \in 1 .. 8
    BY DEF FlippedRanks, Rank, File
  <2> QED
    BY <1>2, <1>4, <2>1 DEF Onto
<1>6. Onto(RanksTurn, b, a, 8)
  <2>1. \A k \in 1 .. 8 : 55 + k \in 0 .. 63 /\ FlippedRanks(55 + k) = k - 1 /\ k \in 1 .. 8
    BY DEF FlippedRanks, Rank, File
  <2> QED
    BY <1>2, <1>4, <2>1 DEF Onto
<1>7. OntoReversed(RanksTurn, c, c)
  <2>1. \A k \in 1 .. 8 : 8 * (k - 1) \in 0 .. 63 /\ FlippedRanks(8 * (k - 1)) = 8 * ((9 - k) - 1) /\ 9 - k \in 1 .. 8
    BY DEF FlippedRanks, Rank, File
  <2> QED
    BY <1>2, <1>4, <2>1 DEF OntoReversed
<1>8. OntoReversed(RanksTurn, d, d)
  <2>1. \A k \in 1 .. 8 : 7 + 8 * (k - 1) \in 0 .. 63 /\ FlippedRanks(7 + 8 * (k - 1)) = 7 + 8 * ((9 - k) - 1) /\ 9 - k \in 1 .. 8
    BY DEF FlippedRanks, Rank, File
  <2> QED
    BY <1>2, <1>4, <2>1 DEF OntoReversed
<1>9. P[1] = a /\ P[2] = b /\ P[3] = c /\ P[4] = d
  <2> HIDE DEF P
  <2> QED
    BY <1>1
<1>10. pi[1] = 2 /\ pi[2] = 1 /\ pi[3] = 3 /\ pi[4] = 4
  OBVIOUS
<1>11. \A i \in 1 .. 4 : i = 1 \/ i = 2 \/ i = 3 \/ i = 4
  OBVIOUS
<1> HIDE DEF P, pi
<1>12. \A i \in 1 .. 4 : Onto(RanksTurn, P[i], P[pi[i]], 8) \/ OntoReversed(RanksTurn, P[i], P[pi[i]])
  BY <1>5, <1>6, <1>7, <1>8, <1>9, <1>10, <1>11
<1> QED
  BY <1>3, <1>12 DEF EdgesChangePlaces, P

LEMMA TranspositionEdges == Width = 8 => EdgesChangePlaces(Transposition)
<1> SUFFICES ASSUME Width = 8
             PROVE  EdgesChangePlaces(Transposition)
  OBVIOUS
<1> DEFINE a == Line8(0, 1)
           b == Line8(56, 1)
           c == Line8(0, 8)
           d == Line8(7, 8)
           P == PatternSquares["edge_8"]
           pi == <<3, 4, 1, 2>>
<1>1. P = <<a, b, c, d>>
  BY Zenon DEF PatternSquares
<1>2. \A s \in 0 .. 63 : s \in Squares /\ Transposition[s] = Transposed(s)
  BY DEF Transposition, Squares
<1>3. Involution(pi, 1 .. 4)
  <2>1. pi \in [1 .. 4 -> 1 .. 4]
    OBVIOUS
  <2>2. pi[pi[1]] = 1 /\ pi[pi[2]] = 2 /\ pi[pi[3]] = 3 /\ pi[pi[4]] = 4
    OBVIOUS
  <2> HIDE DEF pi
  <2> QED
    BY <2>1, <2>2, FourPlaces
<1>4. \A k \in 1 .. 8 : a[k] = k - 1 /\ b[k] = 55 + k /\ c[k] = 8 * (k - 1) /\ d[k] = 7 + 8 * (k - 1)
  BY DEF Line8
<1> HIDE DEF a, b, c, d
<1>5. Onto(Transposition, a, c, 8)
  <2>1. \A k \in 1 .. 8 : k - 1 \in 0 .. 63 /\ Transposed(k - 1) = 8 * (k - 1) /\ k \in 1 .. 8
    BY DEF Transposed, Rank, File
  <2> QED
    BY <1>2, <1>4, <2>1 DEF Onto
<1>6. Onto(Transposition, b, d, 8)
  <2>1. \A k \in 1 .. 8 : 55 + k \in 0 .. 63 /\ Transposed(55 + k) = 7 + 8 * (k - 1) /\ k \in 1 .. 8
    BY DEF Transposed, Rank, File
  <2> QED
    BY <1>2, <1>4, <2>1 DEF Onto
<1>7. Onto(Transposition, c, a, 8)
  <2>1. \A k \in 1 .. 8 : 8 * (k - 1) \in 0 .. 63 /\ Transposed(8 * (k - 1)) = k - 1 /\ k \in 1 .. 8
    BY DEF Transposed, Rank, File
  <2> QED
    BY <1>2, <1>4, <2>1 DEF Onto
<1>8. Onto(Transposition, d, b, 8)
  <2>1. \A k \in 1 .. 8 : 7 + 8 * (k - 1) \in 0 .. 63 /\ Transposed(7 + 8 * (k - 1)) = 55 + k /\ k \in 1 .. 8
    BY DEF Transposed, Rank, File
  <2> QED
    BY <1>2, <1>4, <2>1 DEF Onto
<1>9. P[1] = a /\ P[2] = b /\ P[3] = c /\ P[4] = d
  <2> HIDE DEF P
  <2> QED
    BY <1>1
<1>10. pi[1] = 3 /\ pi[2] = 4 /\ pi[3] = 1 /\ pi[4] = 2
  OBVIOUS
<1>11. \A i \in 1 .. 4 : i = 1 \/ i = 2 \/ i = 3 \/ i = 4
  OBVIOUS
<1> HIDE DEF P, pi
<1>12. \A i \in 1 .. 4 : Onto(Transposition, P[i], P[pi[i]], 8) \/ OntoReversed(Transposition, P[i], P[pi[i]])
  BY <1>5, <1>6, <1>7, <1>8, <1>9, <1>10, <1>11
<1> QED
  BY <1>3, <1>12 DEF EdgesChangePlaces, P

(***************************************************************************)
(* The features, their sum and the score in a mirror.                      *)
(***************************************************************************)
LEMMA DifferenceMoves ==
  ASSUME NEW t, Symmetry(t), NEW S \in SUBSET Squares, NEW T \in SUBSET Squares
  PROVE  Difference(Turn(t, S), Turn(t, T)) = Difference(S, T)
BY SymmetryTurns DEF Difference

LEMMA CornersTurned ==
  ASSUME Width = 8, NEW t, TurnsBoard(t), NEW S \in SUBSET Squares
  PROVE  Turn(t, S) \cap Corners = Turn(t, S \cap Corners)
<1>1. Corners \in SUBSET Squares /\ \A c \in Corners : t[c] \in Corners /\ t[t[c]] = c
  BY CornersAreSquares, TurnKeeps DEF TurnsBoard, CornersTurn
<1>2. Corners = Turn(t, Corners)
  BY <1>1 DEF Turn
<1>3. Turn(t, S \cap Corners) = Turn(t, S) \cap Turn(t, Corners)
  <2>1. TurnsSets(t, Squares)
    BY SymmetryTurns DEF TurnsBoard
  <2> QED
    BY <1>1, <2>1 DEF TurnsSets
<1> QED
  BY <1>2, <1>3

LEMMA RawValueMoves ==
  ASSUME Width = 8, NEW t, TurnsBoard(t), EdgesChangePlaces(t),
         NEW player \in SUBSET Squares, NEW opp \in SUBSET Squares, NEW config, NEW phase,
         NEW feature \in Features, feature # "pattern_table",
         feature = "corner_2x3_pattern" => CornersChangePlaces(t)
  PROVE  RawValue(feature, Turn(t, player), Turn(t, opp), config, phase)
           = RawValue(feature, player, opp, config, phase)
<1> DEFINE p == Turn(t, player)
           o == Turn(t, opp)
           v == RawValue(feature, player, opp, config, phase)
           w == RawValue(feature, p, o, config, phase)
           occupied == player \cup opp
           empty == EmptySquares(player, opp)
           mine == LegalMovesFor(player, opp)
           theirs == LegalMovesFor(opp, player)
<1>1. Symmetry(t) /\ TurnsSets(t, Squares)
  BY SymmetryTurns DEF TurnsBoard
<1>2. /\ p \in SUBSET Squares /\ o \in SUBSET Squares
      /\ occupied \in SUBSET Squares /\ p \cup o = Turn(t, occupied)
  BY <1>1 DEF TurnsSets
<1>3. empty \in SUBSET Squares /\ EmptySquares(p, o) = Turn(t, empty)
  <2>1. Turn(t, Squares \ occupied) = Turn(t, Squares) \ Turn(t, occupied) /\ Turn(t, Squares) = Squares
    BY <1>1, <1>2 DEF TurnsSets
  <2> QED
    BY <1>2, <2>1 DEF EmptySquares
<1>4. mine \in SUBSET Squares /\ theirs \in SUBSET Squares
  BY MovesAreEmpty
<1>5. LegalMovesFor(p, o) = Turn(t, mine) /\ LegalMovesFor(o, p) = Turn(t, theirs)
  BY <1>1, MovesTurn
<1>6. /\ AdjacentSquares(p) = Turn(t, AdjacentSquares(player)) /\ AdjacentSquares(o) = Turn(t, AdjacentSquares(opp))
      /\ AdjacentSquares(Turn(t, empty)) = Turn(t, AdjacentSquares(empty))
  BY <1>1, <1>3, AdjacentTurn
<1>7. \A S : AdjacentSquares(S) \in SUBSET Squares
  BY DEF AdjacentSquares, Shift
<1>8. \A S, T \in SUBSET Squares : Difference(Turn(t, S), Turn(t, T)) = Difference(S, T)
  BY <1>1, DifferenceMoves
<1>9. \A S, T \in SUBSET Squares : Turn(t, S) \cap Turn(t, T) = Turn(t, S \cap T)
  BY <1>1 DEF TurnsSets
<1>10. \A S \in SUBSET Squares : Turn(t, S) \cap Corners = Turn(t, S \cap Corners) /\ S \cap Corners \in SUBSET Squares
  BY CornersTurned
<1> SUFFICES w = v
  BY DEF p, o
<1> HIDE DEF p, o, v, w
<1>11. CASE feature \in {"disc_difference", "mobility", "corner_occupancy", "corner_access"}
  <2>1. CASE feature = "disc_difference"
    <3>1. v = Difference(player, opp) /\ w = Difference(p, o)
      BY <2>1, Zenon DEF RawValue, v, w
    <3> QED
      BY <1>8, <3>1 DEF p, o
  <2>2. CASE feature = "mobility"
    <3>1. v = Difference(mine, theirs) /\ w = Difference(LegalMovesFor(p, o), LegalMovesFor(o, p))
      BY <2>2 DEF RawValue, v, w
    <3> QED
      BY <1>4, <1>5, <1>8, <3>1
  <2>3. CASE feature = "corner_occupancy"
    <3>1. v = Difference(player \cap Corners, opp \cap Corners) /\ w = Difference(p \cap Corners, o \cap Corners)
      BY <2>3 DEF RawValue, v, w
    <3> QED
      BY <1>8, <1>10, <3>1 DEF p, o
  <2>4. CASE feature = "corner_access"
    <3>1. /\ v = Difference(mine \cap Corners, theirs \cap Corners)
          /\ w = Difference(LegalMovesFor(p, o) \cap Corners, LegalMovesFor(o, p) \cap Corners)
      BY <2>4 DEF RawValue, v, w
    <3>2. w = Difference(Turn(t, mine) \cap Corners, Turn(t, theirs) \cap Corners)
      BY <1>5, <3>1
    <3> HIDE DEF mine, theirs
    <3> QED
      BY <1>4, <1>8, <1>10, <3>1, <3>2
  <2> QED
    BY <1>11, <2>1, <2>2, <2>3, <2>4
<1>12. CASE feature \in {"potential_mobility", "x_square_danger", "frontier", "edge_stability_lite"}
  <2>1. CASE feature = "potential_mobility"
    <3> DEFINE A == AdjacentSquares(opp) \cap empty
               B == AdjacentSquares(player) \cap empty
    <3>1. /\ v = Difference(A, B)
          /\ w = Difference(AdjacentSquares(o) \cap EmptySquares(p, o), AdjacentSquares(p) \cap EmptySquares(p, o))
      BY <2>1 DEF RawValue, v, w
    <3>2. AdjacentSquares(o) \cap EmptySquares(p, o) = Turn(t, A) /\ AdjacentSquares(p) \cap EmptySquares(p, o) = Turn(t, B)
      BY <1>3, <1>6, <1>7, <1>9
    <3>3. A \in SUBSET Squares /\ B \in SUBSET Squares
      BY <1>3
    <3> HIDE DEF A, B
    <3> QED
      BY <1>8, <3>1, <3>2, <3>3
  <2>2. CASE feature = "x_square_danger"
    <3> DEFINE A == DangerousXSquares(opp, occupied)
               B == DangerousXSquares(player, occupied)
    <3>1. v = Difference(A, B) /\ w = Difference(DangerousXSquares(o, p \cup o), DangerousXSquares(p, p \cup o))
      BY <2>2 DEF RawValue, v, w
    <3>2. DangerousXSquares(o, p \cup o) = Turn(t, A) /\ DangerousXSquares(p, p \cup o) = Turn(t, B)
      <4>1. \A S \in SUBSET Squares :
              DangerousXSquares(Turn(t, S), Turn(t, occupied)) = Turn(t, DangerousXSquares(S, occupied))
        BY <1>2, DangerousTurn
      <4> HIDE DEF occupied
      <4> QED
        BY <1>2, <4>1 DEF p, o
    <3>3. A \in SUBSET Squares /\ B \in SUBSET Squares
      BY DEF DangerousXSquares
    <3> HIDE DEF A, B
    <3> QED
      BY <1>8, <3>1, <3>2, <3>3
  <2>3. CASE feature = "frontier"
    <3> DEFINE A == opp \cap AdjacentSquares(empty)
               B == player \cap AdjacentSquares(empty)
    <3>1. /\ v = Difference(A, B)
          /\ w = Difference(o \cap AdjacentSquares(EmptySquares(p, o)), p \cap AdjacentSquares(EmptySquares(p, o)))
      BY <2>3 DEF RawValue, v, w
    <3>2. o \cap AdjacentSquares(EmptySquares(p, o)) = Turn(t, A) /\ p \cap AdjacentSquares(EmptySquares(p, o)) = Turn(t, B)
      BY <1>3, <1>6, <1>7, <1>9 DEF p, o
    <3>3. A \in SUBSET Squares /\ B \in SUBSET Squares
      BY <1>7
    <3> HIDE DEF A, B
    <3> QED
      BY <1>8, <3>1, <3>2, <3>3
  <2>4. CASE feature = "edge_stability_lite"
    <3>1. v = Difference(StableEdgeSquares(player), StableEdgeSquares(opp)) /\ w = Difference(StableEdgeSquares(p), StableEdgeSquares(o))
      BY <2>4 DEF RawValue, v, w
    <3>2. StableEdgeSquares(p) = Turn(t, StableEdgeSquares(player)) /\ StableEdgeSquares(o) = Turn(t, StableEdgeSquares(opp))
      BY StableTurn DEF p, o
    <3>3. StableEdgeSquares(player) \in SUBSET Squares /\ StableEdgeSquares(opp) \in SUBSET Squares
      BY StableAre
    <3> QED
      BY <1>8, <3>1, <3>2, <3>3
  <2> QED
    BY <1>12, <2>1, <2>2, <2>3, <2>4
<1>13. CASE feature \in {"corner_local_2x3", "corner_2x3_pattern", "edge_8_pattern"}
  <2>1. CASE feature = "corner_local_2x3"
    <3>1. /\ v = CornerLocalValue(player, occupied) - CornerLocalValue(opp, occupied)
          /\ w = CornerLocalValue(p, p \cup o) - CornerLocalValue(o, p \cup o)
      BY <2>1 DEF RawValue, v, w
    <3>2. /\ CornerLocalValue(p, p \cup o) = CornerLocalValue(player, occupied)
          /\ CornerLocalValue(o, p \cup o) = CornerLocalValue(opp, occupied)
      <4>1. \A S \in SUBSET Squares :
              CornerLocalValue(Turn(t, S), Turn(t, occupied)) = CornerLocalValue(S, occupied)
        BY <1>2, CornerLocalTurn
      <4> HIDE DEF occupied
      <4> QED
        BY <1>2, <4>1 DEF p, o
    <3> QED
      BY <3>1, <3>2
  <2>2. CASE feature = "corner_2x3_pattern"
    <3>1. /\ v = SumOfEntries(PatternIndexes(player, opp, "corner_2x3"), Corner2x3RuleValue)
          /\ w = SumOfEntries(PatternIndexes(p, o, "corner_2x3"), Corner2x3RuleValue)
      BY <2>2 DEF RawValue, v, w
    <3> QED
      BY <1>1, <2>2, <3>1, CornerSumMoves DEF p, o
  <2>3. CASE feature = "edge_8_pattern"
    <3>1. /\ v = SumOfEntries(PatternIndexes(player, opp, "edge_8"), Edge8RuleValue)
          /\ w = SumOfEntries(PatternIndexes(p, o, "edge_8"), Edge8RuleValue)
      BY <2>3 DEF RawValue, v, w
    <3> QED
      BY <1>1, <3>1, EdgeSumMoves DEF p, o
  <2> QED
    BY <1>13, <2>1, <2>2, <2>3
<1> QED
  BY <1>11, <1>12, <1>13 DEF Features

LEMMA WeightedSumMoves ==
  ASSUME Width = 8, NEW t, TurnsBoard(t), EdgesChangePlaces(t), CornersChangePlaces(t),
         NEW player \in SUBSET Squares, NEW opp \in SUBSET Squares, NEW config, NEW phase,
         NEW computed \in SUBSET Features, "pattern_table" \notin computed
  PROVE  WeightedSum(Turn(t, player), Turn(t, opp), config, phase, computed)
           = WeightedSum(player, opp, config, phase, computed)
<1> DEFINE term(p, o, f) == RawValue(f, p, o, config, phase) * config.weights[phase][f]
           Terms(p, o) == [f \in computed |-> term(p, o, f)]
<1>1. \A p, o : WeightedSum(p, o, config, phase, computed) = SumOf(Terms(p, o))
  BY Zenon DEF WeightedSum
<1>2. \A f \in computed : term(Turn(t, player), Turn(t, opp), f) = term(player, opp, f)
  BY RawValueMoves
<1> HIDE DEF term
<1>3. Terms(Turn(t, player), Turn(t, opp)) = Terms(player, opp)
  BY <1>2
<1> HIDE DEF Terms
<1> QED
  BY <1>1, <1>3
=============================================================================
