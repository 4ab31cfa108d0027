----------------------------- MODULE Migrations -----------------------------
(***************************************************************************)
(* The output of the migration tool on its way to the log                  *)
(* (runMigrations.go, sanitizeDatabaseUrl.go and getDatabaseUrl.go in      *)
(* src/utils): the tool writes in pieces of any size, maskingWriter holds  *)
(* an incomplete line back and replaces the passwords of the others.       *)
(*                                                                         *)
(* Text is a sequence of tokens, the ones the regular expression tells     *)
(* apart; "p" stands for a character of the password, escaped if need be,  *)
(* and "w" for the others.  A masked password keeps its length here, which *)
(* no property looks at.  The user has a name: the expression does not     *)
(* match a URL with an empty one.  The writers of stdout and stderr share  *)
(* nothing, so there is one.                                               *)
(***************************************************************************)
EXTENDS Naturals, Sequences

Tokens == {"postgres://", "w", "p", ":", "@", "/", "\n"}

\* buildDatabaseURL escapes what would end the user or the password.
buildDatabaseURL(user, password) ==
    <<"postgres://">> \o user \o <<":">> \o password \o <<"@", "w", ":", "w", "/", "w">>

\* The string for a user and a password of these lengths.
connectionString(u, p) == buildDatabaseURL([k \in 1 .. u |-> "w"], [k \in 1 .. p |-> "p"])

CONSTANT Outputs \* what the tool may print

ASSUME OutputsAssumption == Outputs \subseteq Seq(Tokens)

\* The tool is given the connection string and has the password from there:
\* where it prints the password, it echoes the string.
ASSUME EchoAssumption ==
    \A o \in Outputs : \A i \in DOMAIN o : o[i] = "p" =>
        \E first, last \in DOMAIN o, u, p \in 1 .. Len(o) :
            first <= i /\ i <= last /\ SubSeq(o, first, last) = connectionString(u, p)

VARIABLES
    output,  \* what the tool prints this time
    written, \* how much of it has been written
    pending, \* maskingWriter.pending
    printed  \* what reached the log

migrationVars == <<output, written, pending, printed>>

MigrationTypeOK ==
    /\ output \in Outputs \cup {<<>>}
    /\ written \in 0 .. Len(output)
    /\ pending \in Seq(Tokens)
    /\ printed \in Seq(Tokens \cup {"***"})

MigrationInit == output = <<>> /\ written = 0 /\ pending = <<>> /\ printed = <<>>

----------------------------------------------------------------------------

\* Token i lies between the colon and the "@" of a match of
\* databaseURLCredential.
isPassword(s, i) ==
    \E scheme, colon, at \in DOMAIN s :
        /\ scheme + 1 < colon /\ colon < i /\ i < at
        /\ s[scheme] = "postgres://" /\ s[colon] = ":" /\ s[at] = "@"
        /\ \A k \in scheme + 1 .. colon - 1 : s[k] \in {"w", "p"}
        /\ \A k \in colon + 1 .. at - 1 : s[k] \in {"w", "p", ":"}

SanitizeDatabaseURL(s) == [i \in DOMAIN s |-> IF isPassword(s, i) THEN "***" ELSE s[i]]

\* The tokens up to the end of the last complete line.
completeLines(s) ==
    LET ends == {i \in DOMAIN s : s[i] = "\n"}
        last == CHOOSE i \in ends \cup {0} : \A j \in ends : j <= i
    IN  SubSeq(s, 1, last)

\* emit for each line of s, one of which may be incomplete at the end.
lineByLine(s) ==
    LET start(i) == CHOOSE j \in 1 .. i :
                        /\ j = 1 \/ s[j - 1] = "\n"
                        /\ \A k \in j .. i - 1 : s[k] # "\n"
        line(i) == LET rest == {k \in i .. Len(s) : s[k] = "\n"}
                       end == CHOOSE k \in rest \cup {Len(s)} : \A m \in rest : k <= m
                   IN  SubSeq(s, start(i), end)
    IN  [i \in DOMAIN s |-> SanitizeDatabaseURL(line(i))[i - start(i) + 1]]

----------------------------------------------------------------------------

\* The tool starts; what it is going to print is not known to the writer.
StartMigrations == \E o \in Outputs : output' = o

\* Mutated: nothing is held back.
Write_AtOnce(n) ==
    /\ n > written /\ n <= Len(output)
    /\ printed' = printed \o lineByLine(SubSeq(output, written + 1, n))
    /\ written' = n
    /\ UNCHANGED <<output, pending>>

\* maskingWriter.Write of the tokens up to n.
Write(n) ==
    LET text == pending \o SubSeq(output, written + 1, n)
        complete == completeLines(text)
    IN  /\ n > written /\ n <= Len(output)
        /\ printed' = printed \o lineByLine(complete)
        /\ pending' = SubSeq(text, Len(complete) + 1, Len(text))
        /\ written' = n
        /\ UNCHANGED output

\* The deferred flush.
flush ==
    /\ written = Len(output)
    /\ printed' = printed \o lineByLine(pending)
    /\ pending' = <<>>
    /\ UNCHANGED <<output, written>>

----------------------------------------------------------------------------
(* Properties. *)

\* "The credential never reaches the logs even when migrate echoes the
\* connection string", wherever a write ends, and nothing else is lost: what
\* has been printed is the beginning of the masked output as a whole, and in
\* the end all of it.
CredentialHidden ==
    LET whole == SanitizeDatabaseURL(output) IN
    /\ \A i \in DOMAIN printed : printed[i] # "p"
    /\ printed = SubSeq(whole, 1, Len(printed))
    /\ Len(printed) + Len(pending) = written
    /\ Len(printed) < written => \A i \in DOMAIN pending : pending[i] # "\n"
=============================================================================
