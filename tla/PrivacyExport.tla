--------------------------- MODULE PrivacyExport ---------------------------
(***************************************************************************)
(* The endpoint a phase answers privacy export requests with               *)
(* (src/promptTypes/privacyExport.go): it checks the upload URL, lets the  *)
(* phase's handler fill an Export, uploads it, and removes the file        *)
(* however it ends.  The handler is any sequence of Add* calls; it may     *)
(* ignore their errors, report one, or panic.  Export is public, so there  *)
(* is also an Export that other code uses directly, in any way it likes.   *)
(*                                                                         *)
(* A host is a pair of its subdomain part ("" for none) and its domain.    *)
(***************************************************************************)
EXTENDS Export

CONSTANTS
    URLs,         \* upload URLs a caller may pass
    AllowedHosts  \* the allowlist: hosts, and wildcards <<"*", domain>>

ASSUME URLsAssumption ==
    \A u \in URLs : u.parses \in BOOLEAN /\ u.https \in BOOLEAN /\ u.local \in BOOLEAN
ASSUME HostsAssumption == \A a \in AllowedHosts : a = <<a[1], a[2]>>

VARIABLES
    pc,       \* "request", "handler", "conclude", "unwind", "done"; "direct" without the endpoint
    created,  \* NewExport has made the file
    target,   \* the URL of the request, or None
    status    \* the answer, or None

vars == <<exportVars, pc, created, target, status>>

TypeOK ==
    /\ ExportTypeOK
    /\ pc \in {"request", "handler", "conclude", "unwind", "done", "direct"}
    /\ created \in BOOLEAN
    /\ pc \notin {"request", "direct"} => target \in URLs
    /\ status \in {None, "200", "204", "400", "401", "403", "500"}
    /\ status # None <=> pc \in {"unwind", "done"}

Init ==
    /\ NewExport
    /\ pc \in {"request", "direct"} /\ created = FALSE /\ target = [parses |-> FALSE] /\ status = None

\* Mutated: "*.domain" matches the domain itself.
isAllowedHost_BareDomain(host, allowed) ==
    \E a \in allowed : host = a \/ (a[1] = "*" /\ host[2] = a[2])

\* "*.domain" matches any subdomain of the domain, but not the domain itself.
isAllowedHost(host, allowed) ==
    \E a \in allowed : host = a \/ (a[1] = "*" /\ host[1] # "" /\ host[2] = a[2])

\* The checks of the URL, in their order; None lets the request through.
targetStatus(u) ==
    CASE ~u.parses -> "400"
      [] u.parses /\ ~u.https /\ ~u.local -> "400"
      [] u.parses /\ (u.https \/ u.local) /\ AllowedHosts # {}
         /\ ~isAllowedHost(u.host, AllowedHosts) -> "403"
      [] OTHER -> None

\* A request is refused: no subject, no usable body, or the URL.  Or no file
\* can be created.
Refuse ==
    /\ pc = "request" /\ pc' = "done"
    /\ target' \in URLs
    /\ \/ status' \in {"401", "400"}
       \/ targetStatus(target') # None /\ status' = targetStatus(target')
       \/ targetStatus(target') = None /\ status' = "500"
    /\ UNCHANGED <<exportVars, created>>

Accept ==
    /\ pc = "request" /\ pc' = "handler"
    /\ target' \in URLs /\ targetStatus(target') = None
    /\ created' = TRUE
    /\ UNCHANGED <<exportVars, status>>

\* The last call is left for UploadTo.
HandlerAdds ==
    /\ pc = "handler" /\ calls + 1 < MaxCalls
    /\ \E n \in Names : Add(n)
    /\ UNCHANGED <<pc, created, target, status>>

HandlerReturns ==
    /\ pc = "handler"
    /\ \/ pc' = "conclude" /\ UNCHANGED status
       \/ pc' = "unwind" /\ status' = "500"          \* an error, or a panic
    /\ UNCHANGED <<exportVars, created, target>>

answer(code) == pc' = "unwind" /\ status' = code

\* Mutated: an empty export is looked for before an error.
conclude_EmptyFirst ==
    CASE isEmpty -> "204"
      [] ~isEmpty /\ err # None -> "500"
      [] OTHER -> "upload"

\* What the endpoint does with the export the handler leaves behind.
conclude ==
    CASE err # None -> "500"
      [] err = None /\ isEmpty -> "204"
      [] OTHER -> "upload"

AnswerWithoutUpload ==
    /\ pc = "conclude" /\ conclude # "upload"
    /\ answer(conclude)
    /\ UNCHANGED <<exportVars, created, target>>

UploadAndAnswer ==
    /\ pc = "conclude" /\ conclude = "upload"
    /\ UploadTo
    /\ answer(IF result' = "ok" THEN "200" ELSE "500")
    /\ UNCHANGED <<created, target>>

\* The deferred Close.
Unwind ==
    /\ pc = "unwind" /\ pc' = "done"
    /\ close
    /\ UNCHANGED <<err, finished, entries, archive, stored, result, offered, failures, calls>>
    /\ UNCHANGED <<created, target, status>>

\* Code that holds an Export of its own calls any of its methods.
DirectUse ==
    /\ pc = "direct"
    /\ ExportNext
    /\ UNCHANGED <<pc, created, target, status>>

Next ==
    \/ DirectUse
    \/ Refuse \/ Accept \/ HandlerAdds \/ HandlerReturns
    \/ AnswerWithoutUpload \/ UploadAndAnswer \/ Unwind

Spec == Init /\ [][Next]_vars /\ WF_vars(HandlerReturns \/ AnswerWithoutUpload \/ UploadAndAnswer \/ Unwind)

----------------------------------------------------------------------------
(* Properties. *)

\* "200 OK: data was found, zipped and uploaded; 204: the handler produced no
\* data".  Neither answer hides a failed Add*, and what is stored under any
\* other answer is a complete archive whose confirmation was lost.
AnswerTruthful ==
    /\ status = "200" => stored # <<None>> /\ failures = 0 /\ StoredWhole
    /\ status = "204" => stored = <<None>> /\ failures = 0 /\ offered = {}
    /\ stored # <<None>> /\ status \notin {None, "200"} => result = "uploading" /\ StoredWhole

\* Personal data goes only to a host of the allowlist or a proper subdomain of
\* a wildcard's domain, and over HTTPS unless the host is this machine.
SentToAllowedHost ==
    stored # <<None>> /\ pc # "direct" =>
        /\ target.https \/ target.local
        /\ \/ AllowedHosts = {} \/ target.host \in AllowedHosts
           \/ target.host[1] # "" /\ <<"*", target.host[2]>> \in AllowedHosts

\* The file with the personal data is gone when the request is over, and it
\* is over eventually: whether the upload closed the file or nobody did.
FileRemoved == created ~> tmpFile = "removed"
=============================================================================
