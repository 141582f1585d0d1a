--------------------------- MODULE MCSocketStream ---------------------------
(* SocketStream on short streams of every interesting shape, of two peers. *)
EXTENDS SocketStream

(* Two words on a line that the end cuts off; an empty line, and a last    *)
(* line with no separator.                                                 *)
Text == <<"space", "letter", "letter", "space", "digit", "eol", "eol", "letter">>
TextEnds == <<5, 8>>

(* A NUL byte after a word, and a number behind a letter.                  *)
Binary == <<"letter", "nul", "letter", "space", "letter", "digit">>
BinaryEnds == <<4, 6>>
=============================================================================
