---------------------------- MODULE MCKvSession ----------------------------
(***************************************************************************)
(* An instance of KvSession: a good and a bad login, keys up to 9 (so that *)
(* "10" does not fit and "-1" is 9), a message that is longer than the     *)
(* daemon's buffer.                                                        *)
(***************************************************************************)
EXTENDS KvSession

MCCharacters == {"u", "p", "q", "v", "w", "0", "1", "9", "-", "+"}
MCLogins == {<< <<"u">>, <<"p">> >>, << <<"u">>, <<"q">> >>, << <<"u">>, <<>> >>}
MCAccounts == {<< <<"u">>, <<"p">> >>}
MCKeyTexts == {<<"1">>, <<"1", "0">>, <<"-", "1">>}
MCValueTexts == {<<"v", "w">>, <<"w">>}

=============================================================================
