----------------------------- MODULE Resolution -----------------------------
(***************************************************************************)
(* Inter-phase data resolution (src/resolution.go): core answers with data *)
(* and a list of resolutions; each names a service to ask for one more     *)
(* value, which is merged into the data of previous phases.  Three         *)
(* operations share the loop: all participations of a phase, one           *)
(* participation, and the phase itself.                                    *)
(*                                                                         *)
(* The services and core are the environment: any answer, or a failure.    *)
(* Documents are abstract values; Raw is the whole document core answered. *)
(***************************************************************************)
EXTENDS Naturals, Sequences

CONSTANTS
    Participations,
    DtoNames,        \* keys of PrevData
    Values,          \* values services resolve
    Targets,         \* base URL and endpoint path of a resolution
    MaxResolutions   \* bound: resolutions core lists

Absent == "absent"   \* no entry for a key, or for a participation
Null == "null"       \* JSON null, and what a missing dto key reads as in a list
Old == "old"         \* a value core had stored
Raw == "raw"

Schemes == {"http", "https", "other"}
Paths == {"plain", "dots", "encodedDots", "badEscape"}

ASSUME ValuesAssumption == Values \cap {Absent, Null, Old, Raw} = {}
ASSUME TargetsAssumption ==
    \A t \in Targets : /\ t.scheme \in Schemes /\ t.host \in BOOLEAN
                       /\ t.credentials \in BOOLEAN /\ t.path \in Paths
ASSUME BoundAssumption == MaxResolutions \in Nat

Operations == {"all", "one", "phase"}
Entry == Values \cup {Absent, Null, Old, Raw}

VARIABLES
    op,          \* the operation in progress, or "idle"
    subject,     \* the participation it is about, for "one" and "phase"
    original,    \* PrevData as core sent it
    resolutions, \* as core sent them
    prevData,    \* PrevData so far
    answers,     \* what the services answered so far: one per resolution done
    sent,        \* where the caller's token went
    result       \* "none" yet, "ok" or "error"

vars == <<op, subject, original, resolutions, prevData, answers, sent, result>>

Data == [Participations -> [DtoNames -> Entry]]
Answer == [Participations -> Values \cup {Absent, Null}]

TypeOK ==
    /\ op \in Operations \cup {"idle"} /\ subject \in Participations
    /\ original \in Data /\ prevData \in Data
    /\ resolutions \in Seq([dtoName : DtoNames, target : Targets])
    /\ answers \in Seq(Answer) /\ Len(answers) <= Len(resolutions)
    /\ sent \subseteq {"intended", "elsewhere"}
    /\ result \in {"none", "ok", "error"}
    /\ \A p \in Participations, n \in DtoNames :
          prevData[p][n] = Raw => op = "one" /\ p = subject

NoData == [p \in Participations |-> [n \in DtoNames |-> Absent]]

Init ==
    /\ op = "idle" /\ subject \in Participations
    /\ original = NoData /\ prevData = NoData
    /\ resolutions = <<>> /\ answers = <<>>
    /\ sent = {} /\ result = "none"

----------------------------------------------------------------------------
(* buildURL. *)

\* Mutated: segments are compared as they are spelt.
hasTraversalSegment_AsSpelt(path) == path = "dots"

\* Separators and dots are decoded first; what does not decode is refused.
hasTraversalSegment(path) == path \in {"dots", "encodedDots", "badEscape"}

validateResolutionTarget(t) == t.scheme \in {"http", "https"} /\ t.host /\ ~t.credentials

buildURL(t) == validateResolutionTarget(t) /\ ~hasTraversalSegment(t.path)

\* Where a request built for a target ends up: joining resolves "..", and so
\* does a server that decodes the path.
destination(t) ==
    IF t.path \in {"dots", "encodedDots"} \/ t.scheme = "other" \/ ~t.host
      THEN "elsewhere" ELSE "intended"

----------------------------------------------------------------------------
(* Merging one answer. *)

\* Mutated: an entry that is there already is kept.
mergeAll_KeepsFirst(prev, name, answer) ==
    [p \in Participations |->
        IF answer[p] = Absent \/ prev[p][name] # Absent
          THEN prev[p] ELSE [prev[p] EXCEPT ![name] = answer[p]]]

mergeAll(prev, name, answer) ==
    [p \in Participations |->
        IF answer[p] = Absent THEN prev[p] ELSE [prev[p] EXCEPT ![name] = answer[p]]]

\* Stores the document core sent, not the value that was resolved.
mergeOne(prev, name, answer) ==
    IF answer[subject] = Null THEN prev ELSE [prev EXCEPT ![subject][name] = Raw]

\* Mutated: the same slip as in mergeOne.
mergePhase_Raw(prev, name, answer) == [prev EXCEPT ![subject][name] = Raw]

mergePhase(prev, name, answer) == [prev EXCEPT ![subject][name] = answer[subject]]

merge(prev, name, answer) ==
    CASE op = "all" -> mergeAll(prev, name, answer)
      [] op = "one" -> mergeOne(prev, name, answer)
      [] op = "phase" -> mergePhase(prev, name, answer)

----------------------------------------------------------------------------

\* FetchAndMerge...: the first request goes to core.
Fetch(operation) ==
    /\ op = "idle" /\ op' = operation
    /\ \/ result' = "error" /\ UNCHANGED <<original, prevData, resolutions>>
       \/ /\ original' \in [Participations -> [DtoNames -> {Absent, Old}]]
          /\ prevData' = original'
          /\ \E n \in 0 .. MaxResolutions :
               resolutions' \in [1 .. n -> [dtoName : DtoNames, target : Targets]]
          /\ UNCHANGED result
    /\ UNCHANGED <<subject, answers, sent>>

working == op # "idle" /\ result = "none"
current == resolutions[Len(answers) + 1]

\* The first resolution that cannot be built, fetched or read ends the
\* operation: a phase gets all of the data or none.
Fail ==
    /\ working /\ Len(answers) < Len(resolutions)
    /\ sent' = IF buildURL(current.target) THEN sent \cup {destination(current.target)} ELSE sent
    /\ result' = "error"
    /\ UNCHANGED <<op, subject, original, resolutions, prevData, answers>>

\* A list may leave out participations; a single answer must hold its key.
Resolve ==
    /\ working /\ Len(answers) < Len(resolutions)
    /\ buildURL(current.target)
    /\ sent' = sent \cup {destination(current.target)}
    /\ \E answer \in Answer :
         /\ op # "all" => answer[subject] # Absent
         /\ prevData' = merge(prevData, current.dtoName, answer)
         /\ answers' = Append(answers, answer)
    /\ UNCHANGED <<op, subject, original, resolutions, result>>

Return ==
    /\ working /\ Len(answers) = Len(resolutions)
    /\ result' = "ok"
    /\ UNCHANGED <<op, subject, original, resolutions, prevData, answers, sent>>

Next == (\E operation \in Operations : Fetch(operation)) \/ Fail \/ Resolve \/ Return

Spec == Init /\ [][Next]_vars

----------------------------------------------------------------------------
(* Properties. *)

\* The reference: the entry of the last resolution under that name that
\* answered for the participation, or what core had.
resolved(p, name) ==
    LET speaks == {i \in DOMAIN answers : resolutions[i].dtoName = name /\ answers[i][p] # Absent}
    IN  IF speaks = {} THEN original[p][name]
        ELSE answers[CHOOSE i \in speaks : \A j \in speaks : j <= i][p]

\* Success means all of the data: every resolution has answered, and the
\* operations on all participations and on the phase return every resolved
\* value at its place, whatever the order and overlap of the resolutions, and
\* everything else as core had it.
Merged ==
    result = "ok" =>
        /\ Len(answers) = Len(resolutions)
        /\ op \in {"all", "phase"} =>
              \A p \in Participations, n \in DtoNames :
                  op = "all" \/ p = subject => prevData[p][n] = resolved(p, n)

\* The caller's token reaches the path core named or no service at all.
BearerKept == sent \subseteq {"intended"}

\* resolution.go, doc of FetchAndMergeCourseParticipationWithResolution: it
\* "enriches it with resolved data".
OneResolved ==
    result = "ok" /\ op = "one" =>
        \A i \in DOMAIN answers : prevData[subject][resolutions[i].dtoName] # Raw
=============================================================================
