------------------------------- MODULE MCLexer -------------------------------
(***************************************************************************)
(* The lexer for TLC: every text of up to MaxPieces pieces, every pair of  *)
(* characters, every keyword, cut short, and with a letter more.           *)
(***************************************************************************)
EXTENDS Lexer, SequencesExt

CONSTANT MaxPieces

Pieces == {<<"i", "f">>, <<"x">>, <<"0">>, <<".">>, <<"=">>, <<"-">>, <<"dquot">>, <<"blank">>, <<"newline">>, <<"#">>}

AllChars == UNION {Blank, {"0", "x", "#", "dquot"}, DOMAIN Alone}

MCTexts ==
  {FlattenSeq(s) : s \in BoundedSeq(Pieces, MaxPieces)}
  \cup {<<a, b>> : a, b \in AllChars}
  \cup UNION {{w, Front(w), w \o <<"x">>, w \o <<"underscore">> \o w} : w \in DOMAIN Keywords}

MCBeyonds == {<<NUL>>, <<"blank", "0", NUL>>, <<"=", "dquot", NUL>>}
=============================================================================
