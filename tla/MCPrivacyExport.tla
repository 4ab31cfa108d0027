-------------------------- MODULE MCPrivacyExport --------------------------
(* An instance of PrivacyExport for TLC. *)
EXTENDS PrivacyExport

Hosts == {<<"", "store.example">>, <<"bucket", "store.example">>, <<"", "elsewhere.example">>}
MCURLs == [parses : BOOLEAN, https : BOOLEAN, local : {FALSE}, host : Hosts]
          \cup [parses : {TRUE}, https : BOOLEAN, local : {TRUE}, host : {<<"", "localhost">>}]
MCAllowedHosts == {<<"*", "store.example">>, <<"", "localhost">>}
=============================================================================
