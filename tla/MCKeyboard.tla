----------------------------- MODULE MCKeyboard -----------------------------
(* Keyboard, for TLC: a text with several matches of a word. *)
EXTENDS Keyboard

PrintedTexts == {<<"a", "b", "a", "a">>}
=============================================================================
