--------------------------- MODULE PositionSampler ---------------------------
(***************************************************************************)
(* othello_position_sampler: random games from the start, each broken off  *)
(* at the first position with as many empty squares as the attempt asks    *)
(* for (sample_positions, position_sampler.cpp), and the file of board     *)
(* blocks they are written to.                                             *)
(***************************************************************************)
EXTENDS ExactGame, SequencesExt

CONSTANTS
  Initial,      \* Board::initial
  Jobs          \* the options of the three tools, see JobType

\* No two targets are equal, and they ascend (parse_target_empties).
SamplerOptions ==
  [count : Nat \ {0}, target_empties : Seq(0 .. 64), max_plies : Nat, unique : BOOLEAN,
   allow_terminal : BOOLEAN, max_attempts : Nat \ {0}]

ASSUME JobSampler ==
  /\ Initial \in Positions
  /\ \A job \in Jobs : job.sampler \in SamplerOptions /\ job.sampler.target_empties # << >>

VARIABLES
  job,          \* the job being done, one of Jobs
  sampler       \* the sampler, its summary included

options == job.sampler

NewSampler ==
  [pc |-> "next", board |-> Initial, ply |-> 0, samples |-> << >>, attempts |-> 0,
   duplicates |-> 0, discarded_terminal |-> 0, discarded_max_plies |-> 0]

BeginAttempt ==
  /\ sampler.pc = "next"
  /\ Len(sampler.samples) < options.count /\ sampler.attempts < options.max_attempts
  /\ sampler' = [sampler EXCEPT !.pc = "attempt", !.board = Initial, !.ply = 0, !.attempts = @ + 1]

\* The targets take turns, an attempt each.
Target ==
  options.target_empties[((sampler.attempts - 1) % Len(options.target_empties)) + 1]
AtTarget == sampler.pc = "attempt" /\ Empties[sampler.board] = Target
ShortOfTarget == sampler.pc = "attempt" /\ Empties[sampler.board] # Target

\* Mutation: a position that is there already is kept.
DuplicateOnlyOfLast == options.unique /\ sampler.samples # << >> /\ Last(sampler.samples) = sampler.board
Duplicate == options.unique /\ sampler.board \in Range(sampler.samples)

Sampled ==
  IF ~options.allow_terminal /\ Terminal(sampler.board)
  THEN [sampler EXCEPT !.pc = "next", !.discarded_terminal = @ + 1]
  ELSE IF Duplicate THEN [sampler EXCEPT !.pc = "next", !.duplicates = @ + 1]
  ELSE [sampler EXCEPT !.pc = "next", !.samples = Append(@, sampler.board)]

Sample == AtTarget /\ sampler' = Sampled

TerminalBeforeTarget ==
  /\ ShortOfTarget /\ Terminal(sampler.board)
  /\ sampler' = [sampler EXCEPT !.pc = "next", !.discarded_terminal = @ + 1]

MaxPliesReached ==
  /\ ShortOfTarget /\ ~Terminal(sampler.board) /\ sampler.ply = options.max_plies
  /\ sampler' = [sampler EXCEPT !.pc = "next", !.discarded_max_plies = @ + 1]

\* A move at random, or the pass there is instead (play_to_empty_count).
RandomPly ==
  /\ ShortOfTarget /\ ~Terminal(sampler.board) /\ sampler.ply < options.max_plies
  /\ \E next \in IF Moves[sampler.board] # {}
                 THEN { Play[sampler.board][m] : m \in Moves[sampler.board] }
                 ELSE {Pass[sampler.board]} :
       sampler' = [sampler EXCEPT !.board = next, !.ply = @ + 1]

EndSampling ==
  /\ sampler.pc = "next"
  /\ \/ Len(sampler.samples) = options.count \/ sampler.attempts = options.max_attempts
  /\ sampler' = [sampler EXCEPT !.pc = IF Len(sampler.samples) = options.count
                                       THEN "done" ELSE "failed"]

SamplerStep ==
  /\ \/ BeginAttempt \/ Sample \/ TerminalBeforeTarget \/ MaxPliesReached \/ RandomPly \/ EndSampling
  /\ UNCHANGED job

(***************************************************************************)
(* The file of positions: nine lines a board, a blank one between two      *)
(* boards (write_positions), read back by parse_position_text.             *)
(***************************************************************************)
BlankLine == [kind |-> "blank"]
TornLine == [kind |-> "torn"]
RowLine(p, k) == [kind |-> "row", board |-> p, row |-> k]
BoardLines(p) == [k \in 1 .. 9 |-> RowLine(p, k)]

PositionLines(samples) ==
  [j \in 1 .. 10 * Len(samples) - 1 |->
     IF j % 10 = 0 THEN BlankLine ELSE RowLine(samples[j \div 10 + 1], j % 10)]

\* The lines that are not blank.
Kept(lines) ==
  LET kept[i \in 0 .. Len(lines)] ==
        IF i = 0 THEN << >>
        ELSE IF lines[i].kind = "blank" THEN kept[i - 1] ELSE Append(kept[i - 1], lines[i])
  IN  kept[Len(lines)]

\* Mutation: what is left of a block at the end of the file is passed over.
ParsePositionsAndRest(lines) ==
  LET kept == Kept(lines)
      count == Len(kept) \div 9
      block(i) == SubSeq(kept, 9 * i - 8, 9 * i)
  IN  IF \A i \in 1 .. count : \E p \in Positions : block(i) = BoardLines(p)
      THEN {[i \in 1 .. count |-> kept[9 * i - 8].board]} ELSE {}

\* Nine lines that are not ignored make a board, and none may be left over: a
\* set of one list of boards, or of none.
ParsePositions(lines) ==
  LET kept == Kept(lines)
      count == Len(kept) \div 9
      block(i) == SubSeq(kept, 9 * i - 8, 9 * i)
  IN  IF /\ Len(kept) % 9 = 0
         /\ \A i \in 1 .. count : \E p \in Positions : block(i) = BoardLines(p)
      THEN {[i \in 1 .. count |-> kept[9 * i - 8].board]} ELSE {}

(***************************************************************************)
(* Properties.                                                             *)
(***************************************************************************)

\* Every attempt gave a sample or was counted as a duplicate or as discarded,
\* once (the summary).
AttemptsAccountedFor ==
  sampler.attempts = Len(sampler.samples) + sampler.duplicates + sampler.discarded_terminal
                       + sampler.discarded_max_plies + (IF sampler.pc = "attempt" THEN 1 ELSE 0)

\* The samples are the positions that were asked for: of the wanted sizes, no
\* two alike and none where the game is over unless that is allowed; and an
\* attempt that stops at the first position of its size never stops behind a
\* pass, so a position whose opponent just passed is never among them.
SamplesAsAsked ==
  /\ \A i \in DOMAIN sampler.samples :
       LET p == sampler.samples[i]
       IN  /\ Empties[p] \in Range(options.target_empties)
           /\ ~options.allow_terminal => ~Terminal(p)
           /\ p = Initial \/ \E q \in Positions : \E m \in Moves[q] : Play[q][m] = p
  /\ options.unique => IsInjective(sampler.samples)
  /\ sampler.pc = "done" => Len(sampler.samples) = options.count
  /\ AttemptsAccountedFor
=============================================================================
