------------------------------ MODULE Jingziqi ------------------------------
(***************************************************************************)
(* Tic-tac-toe: the model Board.kt under the view model                    *)
(* JingziqiViewModel.kt, whose observable fields are what the layout       *)
(* activity_jingziqi.xml shows.                                            *)
(***************************************************************************)
EXTENDS Integers

Index == 0..2
Square == Index \X Index
Player == {"X", "O"}

VARIABLES
    cells,          \* Board.cells, "" for a cell without a value
    winner,         \* Board.winner, "" for null
    currentTurn,
    state,
    shownCells,     \* JingziqiViewModel.cells
    shownWinner     \* JingziqiViewModel.winner

board == <<cells, winner, currentTurn, state>>
view == <<shownCells, shownWinner>>
gameVars == <<board, view>>

NoMarks == [s \in Square |-> ""]

-----------------------------------------------------------------------------
IsValid(row, col) == state # "FINISHED" /\ cells[<<row, col>>] = ""

(* isWinningMoveByPlayer looks only at the lines through the last move.    *)
IsWinningMoveByPlayer(c, player, row, col) ==
    \/ \A i \in Index : c[<<row, i>>] = player
    \/ \A i \in Index : c[<<i, col>>] = player
    \/ row = col /\ \A i \in Index : c[<<i, i>>] = player
    \/ row + col = 2 /\ \A i \in Index : c[<<i, 2 - i>>] = player

FlipCurrentTurn == IF currentTurn = "X" THEN "O" ELSE "X"

GameInit ==
    /\ cells = NoMarks
    /\ winner = ""
    /\ currentTurn = "X"
    /\ state = "IN_PROGRESS"
    /\ shownCells = NoMarks
    /\ shownWinner = ""

(* Board.mark, when the move is valid.                                     *)
Mark(row, col) ==
    LET marked == [cells EXCEPT ![<<row, col>>] = currentTurn]
    IN  /\ cells' = marked
        /\ IF IsWinningMoveByPlayer(marked, currentTurn, row, col)
             THEN state' = "FINISHED" /\ winner' = currentTurn /\ UNCHANGED currentTurn
             ELSE currentTurn' = FlipCurrentTurn /\ UNCHANGED <<state, winner>>

Restart ==
    /\ cells' = NoMarks
    /\ winner' = ""
    /\ currentTurn' = "X"
    /\ state' = "IN_PROGRESS"

(* A click on a cell: an invalid move returns null and changes nothing.    *)
OnClickedCellAt(row, col) ==
    \/ /\ IsValid(row, col)
       /\ Mark(row, col)
       /\ shownCells' = [shownCells EXCEPT ![<<row, col>>] = currentTurn]
       /\ shownWinner' = winner'
    \/ ~IsValid(row, col) /\ UNCHANGED gameVars

OnResetSelected ==
    /\ Restart
    /\ shownCells' = NoMarks
    /\ shownWinner' = ""

GameNext == OnResetSelected \/ \E row, col \in Index : OnClickedCellAt(row, col)

GameSpec == GameInit /\ [][GameNext]_gameVars

-----------------------------------------------------------------------------
GameTypeOK ==
    /\ cells \in [Square -> Player \cup {""}]
    /\ winner \in Player \cup {""}
    /\ currentTurn \in Player
    /\ state \in {"IN_PROGRESS", "FINISHED"}
    /\ shownCells \in [Square -> Player \cup {""}]
    /\ shownWinner \in Player \cup {""}

(* The eight lines of the board.                                           *)
Lines ==
    {{<<r, i>> : i \in Index} : r \in Index}
      \cup {{<<i, c>> : i \in Index} : c \in Index}
      \cup {{<<i, i>> : i \in Index}, {<<i, 2 - i>> : i \in Index}}

HasLine(player) == \E line \in Lines : \A s \in line : cells[s] = player

(* Looking at the lines through the last move only, isWinningMoveByPlayer  *)
(* misses no line: a player is the winner exactly when he has one, and the *)
(* game is finished exactly when there is a winner.                        *)
WinnerHasLine ==
    /\ \A p \in Player : winner = p <=> HasLine(p)
    /\ state = "FINISHED" <=> winner # ""

(* What the layout shows is what the board holds, also after restarts.     *)
ViewMirrorsBoard == shownCells = cells /\ shownWinner = winner
=============================================================================
