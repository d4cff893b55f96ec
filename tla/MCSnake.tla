------------------------------ MODULE MCSnake -------------------------------
(* Snake on a screen of 4 by 4: its first move is possible (on one with     *)
(* three columns it is lost at once), and the snake can grow to fill it.    *)
EXTENDS Snake
=============================================================================
