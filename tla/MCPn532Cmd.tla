----------------------------- MODULE MCPn532Cmd -----------------------------
(***************************************************************************)
(* Model-checking instance of Pn532Cmd.  With 251 bytes a response is the  *)
(* longest normal frame, with 252 the shortest extended one, with 262 the  *)
(* longest; a command passes the border with 253, and 263 are too many.    *)
(* <<164>> makes the bytes of a TgGetData response add up to zero.         *)
(***************************************************************************)
EXTENDS Pn532Cmd

Long(n) == [i \in 1 .. n |-> i % 256]
MCPayloads == {<<>>, <<164>>, <<0, 255>>} \cup {Long(n) : n \in {251, 252, 253, 262, 263}}
MCHistory == {<<>>, Zeros(47)}

\* The data of this instance does not look like frames.
ASSUME NoLookAlikes == DataIsNoFrame

=============================================================================
