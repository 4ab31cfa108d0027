----------------------------- MODULE MCBootstrap -----------------------------
(* Instances of Bootstrap for TLC. *)
EXTENDS Bootstrap

\* Pieces of lines, one of them the beginning of a URL.
Fragments == {<<"postgres://", "w", ":">>, <<"w", "\n">>, <<"w", "@">>, <<"\n">>, <<":">>, <<"/">>}

\* The connection string, or another piece, among others.
AllOutputs == {a \o b \o c : a, c \in Fragments,
                              b \in Fragments \cup {buildDatabaseURL(<<"w">>, <<"p">>)}}
=============================================================================
