------------------------------- MODULE Export -------------------------------
(***************************************************************************)
(* utils.Export (src/utils/export.go): items are written one by one into a *)
(* ZIP archive on disk, the archive is uploaded once, the file is removed. *)
(*                                                                         *)
(* An Export belongs to one goroutine, so a call is one step.  What can go *)
(* wrong inside a call is a choice: the callback fails or has no data, the *)
(* value cannot be encoded, the disk fails (which the ZIP writer then      *)
(* remembers), the upload is refused, lost, or stored with its answer lost.*)
(***************************************************************************)
EXTENDS Naturals, Sequences

CONSTANTS
    Names,     \* items a caller adds; also the paths they ask for
    Invalid,   \* those with a path sanitizeZipPath refuses
    MaxCalls   \* bound: calls made on one Export

ASSUME NamesAssumption == Invalid \subseteq Names /\ "contents.json" \notin Names
ASSUME MaxCallsAssumption == MaxCalls \in Nat

None == "none"

VARIABLES
    zipWriter, \* "open", "broken" after a disk error, or "nil"
    tmpFile,   \* "open", "closed" by the HTTP client, or "removed"
    err,       \* the stored error of Add*, or None
    finished,
    entries,   \* items successfully written; itemCount is its length
    archive,   \* what the file holds: name and whether it was written whole
    stored,    \* the archive at the presigned URL, or None
    result,    \* what the last call returned: "ok", an error, "panic"
    offered,   \* history: items whose callback delivered data to write
    failures,  \* history: Add* calls that failed
    calls      \* calls so far

exportVars == <<zipWriter, tmpFile, err, finished, entries, archive, stored,
                result, offered, failures, calls>>

Errors == {"finished", "path", "collecting", "creating", "writing"}
Results == {"ok", "panicInAdd", "panicInUpload", "uploading"} \cup Errors

ExportTypeOK ==
    /\ zipWriter \in {"open", "broken", "nil"}
    /\ tmpFile \in {"open", "closed", "removed"}
    /\ err \in Errors \cup {None}
    /\ finished \in BOOLEAN
    /\ entries \in Seq(Names)
    /\ archive \in Seq((Names \cup {"contents.json"}) \X BOOLEAN)
    /\ stored \in {<<None>>} \cup Seq((Names \cup {"contents.json"}) \X BOOLEAN)
    /\ result \in Results
    /\ offered \subseteq Names
    /\ failures \in {0, 1} /\ (err # None <=> failures = 1)
    /\ calls \in 0 .. MaxCalls

\* NewExport
NewExport ==
    /\ zipWriter = "open" /\ tmpFile = "open"
    /\ err = None /\ finished = FALSE
    /\ entries = <<>> /\ archive = <<>> /\ stored = <<None>>
    /\ result = "ok" /\ offered = {} /\ failures = 0 /\ calls = 0

isEmpty == entries = <<>>

called == calls < MaxCalls /\ result \notin {"panicInAdd", "panicInUpload"} /\ calls' = calls + 1

----------------------------------------------------------------------------
(* Add* *)

\* Mutated: the error is returned by the step but not kept.
failAdd_Forgotten(e) ==
    /\ err' = err /\ result' = e /\ failures' = failures + 1
    /\ UNCHANGED entries

\* The error is stored; the caller sees it through Err.
failAdd(e) ==
    /\ err' = e /\ result' = e /\ failures' = failures + 1
    /\ UNCHANGED entries

\* Refused before the callback runs.
AddRefused(n) ==
    /\ called
    /\ \/ err # None /\ result' = err /\ UNCHANGED <<err, entries, failures>>
       \/ err = None /\ finished /\ failAdd("finished")
       \/ err = None /\ ~finished /\ n \in Invalid /\ failAdd("path")
    /\ UNCHANGED <<zipWriter, tmpFile, finished, archive, stored, offered>>

accepted(n) == called /\ err = None /\ ~finished /\ n \notin Invalid

\* The callback fails, or delivers nil, which is skipped.
AddNothing(n) ==
    /\ accepted(n)
    /\ \/ failAdd("collecting")
       \/ result' = "ok" /\ UNCHANGED <<err, entries, failures>>
    /\ UNCHANGED <<zipWriter, tmpFile, finished, archive, stored, offered>>

\* The entry is created and written.  A closed archive has no writer to call.
AddData(n) ==
    /\ accepted(n)
    /\ offered' = IF zipWriter = "nil" THEN offered ELSE offered \cup {n}
    /\ \/ /\ zipWriter = "nil" /\ result' = "panicInAdd"
          /\ UNCHANGED <<zipWriter, err, entries, archive, failures>>
       \/ /\ zipWriter # "nil"                       \* the disk fails
          /\ zipWriter' = "broken"
          /\ \E e \in {"creating", "writing"} : failAdd(e)
          /\ archive' = Append(archive, <<n, FALSE>>)
       \/ /\ zipWriter = "open"                      \* the value does not encode
          /\ failAdd("writing")
          /\ archive' = Append(archive, <<n, FALSE>>)
          /\ UNCHANGED zipWriter
       \/ /\ zipWriter = "open"
          /\ archive' = Append(archive, <<n, TRUE>>)
          /\ entries' = Append(entries, n)
          /\ result' = "ok" /\ UNCHANGED <<zipWriter, err, failures>>
    /\ UNCHANGED <<tmpFile, finished, stored>>

Add(n) == AddRefused(n) \/ AddNothing(n) \/ AddData(n)

----------------------------------------------------------------------------
(* UploadTo *)

\* finished and err are looked at first.
UploadRefused ==
    /\ called
    /\ \/ finished /\ result' = "finished"
       \/ ~finished /\ err # None /\ result' = err
    /\ UNCHANGED <<zipWriter, tmpFile, err, finished, entries, archive, stored, offered, failures>>

\* Mutated: uploads what could be collected.
uploading_Partial == called /\ ~finished

uploading == called /\ ~finished /\ err = None

\* writeContents needs the writer, which an earlier UploadTo or Close dropped.
UploadPanics ==
    /\ uploading /\ ~isEmpty /\ zipWriter = "nil"
    /\ result' = "panicInUpload"
    /\ UNCHANGED <<zipWriter, tmpFile, err, finished, entries, archive, stored, offered, failures>>

\* writeContents or closing the ZIP fails on the disk.
UploadDiskFails ==
    /\ uploading /\ zipWriter # "nil"
    /\ zipWriter' = "broken"
    /\ result' = "writing"
    /\ UNCHANGED <<tmpFile, err, finished, entries, archive, stored, offered, failures>>

\* The archive with its table of contents, if there is anything to list.
withContents == IF isEmpty THEN archive ELSE Append(archive, <<"contents.json", TRUE>>)

\* The archive is closed and sent.  The file cannot be rewound or the request
\* not built; or the client sends it, and closes the file in any case.
Upload ==
    /\ uploading
    /\ zipWriter = "open" \/ (zipWriter = "nil" /\ isEmpty)
    /\ zipWriter' = "nil"
    /\ archive' = IF zipWriter = "open" THEN withContents ELSE archive
    /\ \/ result' = "uploading" /\ UNCHANGED <<tmpFile, finished, stored>>
       \/ /\ tmpFile = "open" /\ tmpFile' = "closed"
          /\ \/ result' = "ok" /\ finished' = TRUE /\ stored' = archive'
             \/ /\ result' = "uploading" /\ UNCHANGED finished
                /\ stored' \in {stored, archive'}
    /\ UNCHANGED <<err, entries, offered, failures>>

UploadTo == UploadRefused \/ UploadPanics \/ UploadDiskFails \/ Upload

----------------------------------------------------------------------------
(* Close, which may be called any number of times. *)

\* Mutated: keeps a file that the HTTP client has closed already.
removeFile_OnlyOpen == tmpFile' = IF tmpFile = "open" THEN "removed" ELSE tmpFile

removeFile == tmpFile' = "removed"

close == zipWriter' = "nil" /\ removeFile

Close ==
    /\ called
    /\ close
    /\ result' = "ok"
    /\ UNCHANGED <<err, finished, entries, archive, stored, offered, failures>>

----------------------------------------------------------------------------
(* An Export in the hands of any caller. *)

ExportNext == (\E n \in Names : Add(n)) \/ UploadTo \/ Close

ExportSpec == NewExport /\ [][ExportNext]_exportVars

written == [i \in DOMAIN entries |-> <<entries[i], TRUE>>]

\* What is stored is a complete archive: every item whose callback delivered
\* data, written whole and in order, and behind them one table of contents
\* unless IsEmpty.  No failed Add* is ever followed by an upload.
StoredWhole ==
    stored # <<None>> =>
        /\ stored = IF isEmpty THEN <<>> ELSE Append(written, <<"contents.json", TRUE>>)
        /\ \A n \in offered : \E i \in DOMAIN entries : entries[i] = n

\* "If any Add* call fails, the error is stored and all subsequent Add* calls
\* become no-ops", and after a successful upload nothing changes any more:
\* neither the archive nor what is stored.
Frozen ==
    [][failures > 0 \/ finished =>
         /\ entries' = entries /\ archive' = archive /\ stored' = stored]_exportVars

\* export.go, doc of UploadTo: "Returns any error from Add* calls or the
\* upload itself": it returns.
UploadReturns == result # "panicInUpload"
=============================================================================
