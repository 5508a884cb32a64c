--------------------------- MODULE NBoardConsole ----------------------------
(***************************************************************************)
(* The engine at a console that may send any command in any order, legal   *)
(* or not: run_engine's loop, one line an action.                          *)
(***************************************************************************)
EXTENDS NBoardEngine

CONSTANTS
  AskedGames,     \* the histories a "set game" may bring
  AskedTokens,    \* the moves a "move" may bring
  AskedDepths,    \* the depths a "set depth" may bring
  PingIds

ASSUME ConsoleAssumption ==
  /\ AskedGames \subseteq Seq(Tokens)
  /\ AskedTokens \subseteq Tokens
  /\ AskedDepths \subseteq Int

VARIABLES
  console,    \* the engine at the console
  reading,    \* until "quit"
  last        \* the last line read and what was printed for it

console_vars == <<console, reading, last>>

Lines ==
  {[kind |-> k] : k \in {"nboard", "go", "help"}}
    \cup {[kind |-> "ping", id |-> i] : i \in PingIds}
    \cup {[kind |-> "set depth", depth |-> d] : d \in AskedDepths}
    \cup {[kind |-> "set game", moves |-> h] : h \in AskedGames}
    \cup {[kind |-> "move", token |-> t] : t \in AskedTokens}

ConsoleInit ==
  /\ console = NewEngine
  /\ reading = TRUE
  /\ last = [line |-> [kind |-> "none"], reply |-> << >>]

Read ==
  /\ reading
  /\ \E line \in Lines :
       \E h \in Handled(console, line) :
         /\ console' = h.engine
         /\ last' = [line |-> line, reply |-> h.reply]
  /\ UNCHANGED reading

Quit ==
  /\ reading
  /\ reading' = FALSE
  /\ UNCHANGED <<console, last>>

ConsoleNext == Read \/ Quit

ConsoleSpec == ConsoleInit /\ [][ConsoleNext]_console_vars

(***************************************************************************)
(* Properties.                                                             *)
(***************************************************************************)

\* Whatever was sent, refused and taken back before, the board is the one the
\* engine's own history leads to (run_engine keeps the two side by side), and
\* the depth it will search to is at least 1 (parse_positive_int).
HistoryLeadsToBoard == console \in Engines /\ BoardIsHistory(console)

\* The session is never carried into another game: no position searched in it
\* lies off the line being played (the reset of "set game").
SessionStaysInGame == SessionOfGame(console)

\* Every go is answered by one line, at once: with a legal move of the board
\* if there is one, else with a pass; and the pass may be played if the game
\* is not over.
GoIsAnswered ==
  last.line.kind = "go" =>
    /\ Len(last.reply) = 1
    /\ last.reply[1].kind = "==="
    /\ ~Terminal(console.board) => AfterToken(console.board, last.reply[1].token) # {}
=============================================================================
