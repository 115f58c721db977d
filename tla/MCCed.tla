------------------------------- MODULE MCCed --------------------------------
(* Small buffers, files and undo stacks for TLC. *)
EXTENDS CedProps

A == <<"a">>
MCNeedles == {A, <<"a", "a">>, <<"b">>}
LetterNeedles == {A}
MCInsertTexts == {<<A, <<>>>>, <<<<>>>>}
MCInitFiles == {NoFile, File(<<>>), File(<<A, A>>)}
OneFile == {File(<<A, <<"b">>>>)}
LetterFile == {File(<<A>>)}
=============================================================================
