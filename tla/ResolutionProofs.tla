-------------------------- MODULE ResolutionProofs --------------------------
(***************************************************************************)
(* Proofs about Resolution, for any participations, keys, values, targets  *)
(* and any bound on the number of resolutions.                             *)
(***************************************************************************)
EXTENDS Resolution, SequenceTheorems, TLAPS

\* What the services may be asked for is a record, its target one of Targets.
LEMMA CurrentTypes ==
    ASSUME TypeOK, Len(answers) < Len(resolutions)
    PROVE  /\ Len(answers) + 1 \in DOMAIN resolutions
           /\ current.dtoName \in DtoNames /\ current.target \in Targets
<1>1. Len(answers) \in Nat /\ Len(resolutions) \in Nat
  BY DEF TypeOK
<1>2. Len(answers) + 1 \in 1 .. Len(resolutions)
  BY <1>1
<1>3. resolutions \in Seq([dtoName : DtoNames, target : Targets])
  BY DEF TypeOK
<1>4. resolutions[Len(answers) + 1] \in [dtoName : DtoNames, target : Targets]
  BY <1>2, <1>3, ElementOfSeq
<1> QED
  BY <1>2, <1>3, <1>4 DEF current

\* A merge yields data, and a whole document only where an operation on one
\* participation puts it.
LEMMA MergeTypes ==
    ASSUME TypeOK, op \in Operations, NEW name \in DtoNames, NEW answer \in Answer,
           op # "all" => answer[subject] # Absent
    PROVE  /\ merge(prevData, name, answer) \in Data
           /\ \A p \in Participations, n \in DtoNames :
                 merge(prevData, name, answer)[p][n] = Raw => op = "one" /\ p = subject
<1>1. \A p \in Participations : answer[p] \in Entry /\ answer[p] # Raw
  BY ValuesAssumption DEF Answer, Entry, Absent, Null, Raw
<1>2. /\ subject \in Participations /\ Raw \in Entry /\ prevData \in Data
      /\ \A p \in Participations : prevData[p] \in [DtoNames -> Entry]
  BY DEF TypeOK, Data, Entry
<1>3. CASE op = "all"
  <2>1. merge(prevData, name, answer) = mergeAll(prevData, name, answer)
    BY <1>3 DEF merge
  <2>2. \A p \in Participations : mergeAll(prevData, name, answer)[p] \in [DtoNames -> Entry]
    BY <1>1, <1>2 DEF mergeAll
  <2>3. mergeAll(prevData, name, answer) \in Data
    BY <2>2 DEF mergeAll, Data
  <2>4. ASSUME NEW p \in Participations, NEW n \in DtoNames
        PROVE  mergeAll(prevData, name, answer)[p][n] # Raw
    BY <1>1, <1>2, <1>3 DEF mergeAll, TypeOK
  <2> QED
    BY <2>1, <2>3, <2>4
<1>4. CASE op = "one"
  BY <1>2, <1>4 DEF merge, mergeOne, Data, TypeOK
<1>5. CASE op = "phase"
  <2>1. merge(prevData, name, answer) = [prevData EXCEPT ![subject][name] = answer[subject]]
    BY <1>5 DEF merge, mergePhase
  <2> QED
    BY <1>1, <1>2, <1>5, <2>1 DEF Data, TypeOK
<1> QED
  BY <1>3, <1>4, <1>5 DEF Operations

----------------------------------------------------------------------------
(* Types. *)

\* Nothing has been answered before the first request.
Idle == op = "idle" => answers = <<>> /\ prevData = original

Types == TypeOK /\ Idle

\* Before the operation there is no data.
LEMMA TypesInit == Init => Types
BY ValuesAssumption DEF Init, Types, Idle, TypeOK, NoData, Data, Entry, Operations, Absent, Raw

\* Every answer keeps the types of the data.
LEMMA TypesStep == Types /\ [Next]_vars => Types'
<1> SUFFICES ASSUME Types, [Next]_vars PROVE TypeOK' /\ Idle'
  BY DEF Types
<1> USE DEF Types
<1>1. ASSUME NEW operation \in Operations, Fetch(operation)
      PROVE  TypeOK' /\ Idle'
  <2>1. /\ original' \in Data /\ prevData' \in Data
        /\ \A p \in Participations, n \in DtoNames :
              prevData'[p][n] = Raw => op = "one" /\ p = subject
    <3>1. {Absent, Old} \subseteq Entry /\ Raw \notin {Absent, Old}
      BY DEF Entry, Absent, Old, Raw
    <3>2. CASE UNCHANGED <<original, prevData>>
      BY <1>1, <3>2 DEF Fetch, TypeOK
    <3>3. CASE original' \in [Participations -> [DtoNames -> {Absent, Old}]] /\ prevData' = original'
      BY <3>1, <3>3 DEF Data
    <3> QED
      BY <1>1, <3>2, <3>3 DEF Fetch
  <2>2. op = "idle"
    BY <1>1 DEF Fetch
  <2>3. resolutions' \in Seq([dtoName : DtoNames, target : Targets])
    <3>1. ASSUME NEW n \in 0 .. MaxResolutions,
                 NEW r \in [1 .. n -> [dtoName : DtoNames, target : Targets]]
          PROVE  r \in Seq([dtoName : DtoNames, target : Targets])
      <4>1. n \in Nat
        BY BoundAssumption
      <4> DEFINE T == [dtoName : DtoNames, target : Targets]
      <4> HIDE DEF T
      <4>2. r \in [1 .. n -> T]
        BY DEF T
      <4>3. r \in Seq(T)
        BY <4>1, <4>2, SeqDef
      <4> QED
        BY <4>3 DEF T
    <3> QED
      BY <1>1, <3>1 DEF Fetch, TypeOK
  <2>4. answers' = <<>> /\ Len(answers') <= Len(resolutions')
    <3>1. answers' = <<>> /\ Len(resolutions') \in Nat
      BY <1>1, <2>2, <2>3 DEF Fetch, Idle
    <3> QED
      BY <3>1
  <2> QED
    BY <1>1, <2>1, <2>2, <2>3, <2>4 DEF Fetch, TypeOK, Idle, Operations
<1>2. CASE Fail
  BY <1>2 DEF TypeOK, Idle, Fail, working, destination
<1>3. CASE Resolve
  <2>1. PICK answer \in Answer :
            /\ op # "all" => answer[subject] # Absent
            /\ prevData' = merge(prevData, current.dtoName, answer)
            /\ answers' = Append(answers, answer)
    BY <1>3 DEF Resolve
  <2>2. op \in Operations /\ Len(answers) < Len(resolutions)
    BY <1>3 DEF Resolve, working, TypeOK
  <2>3. /\ prevData' \in Data
        /\ \A p \in Participations, n \in DtoNames :
              prevData'[p][n] = Raw => op = "one" /\ p = subject
    BY <2>1, <2>2, CurrentTypes, MergeTypes
  <2>4. answers' \in Seq(Answer) /\ Len(answers') <= Len(resolutions)
    BY <2>1, <2>2 DEF TypeOK
  <2> QED
    BY <1>3, <2>3, <2>4 DEF TypeOK, Idle, Resolve, working, destination
<1>4. CASE Return
  BY <1>4 DEF TypeOK, Idle, Return, working
<1>5. CASE UNCHANGED vars
  BY <1>5 DEF TypeOK, Idle, vars
<1> QED
  BY <1>1, <1>2, <1>3, <1>4, <1>5 DEF Next

\* Every variable keeps its type.
THEOREM TypeCorrect == Spec => []TypeOK
<1>1. Types => TypeOK
  BY DEF Types
<1> QED
  BY <1>1, TypesInit, TypesStep, PTL DEF Spec

----------------------------------------------------------------------------
(* The caller's token. *)

\* What buildURL lets through stays below the address core named: no "..",
\* however it is spelt, no other scheme, no missing host.
LEMMA BuiltURLIntended ==
    ASSUME NEW t \in Targets, buildURL(t)
    PROVE  destination(t) = "intended"
BY TargetsAssumption DEF buildURL, validateResolutionTarget, hasTraversalSegment, destination

\* A request is sent only to a target buildURL let through.
LEMMA BearerStep == TypeOK /\ BearerKept /\ [Next]_vars => BearerKept'
<1> SUFFICES ASSUME TypeOK, BearerKept, [Next]_vars PROVE BearerKept'
  OBVIOUS
<1>1. CASE \E operation \in Operations : Fetch(operation)
  BY <1>1 DEF Fetch, BearerKept
<1>2. CASE Fail
  BY <1>2, CurrentTypes, BuiltURLIntended DEF Fail, BearerKept
<1>3. CASE Resolve
  BY <1>3, CurrentTypes, BuiltURLIntended DEF Resolve, BearerKept
<1>4. CASE Return
  BY <1>4 DEF Return, BearerKept
<1>5. CASE UNCHANGED vars
  BY <1>5 DEF vars, BearerKept
<1> QED
  BY <1>1, <1>2, <1>3, <1>4, <1>5 DEF Next

\* The caller's token reaches the path core named or no service at all.
THEOREM TokenKept == Spec => []BearerKept
<1>1. Init => BearerKept
  BY DEF Init, BearerKept
<1>2. Types => TypeOK
  BY DEF Types
<1> QED
  BY <1>1, <1>2, TypesInit, TypesStep, BearerStep, PTL DEF Spec

----------------------------------------------------------------------------
(* The merge. *)

\* The resolutions under that name that answered for the participation.
speakers(p, name) ==
    {i \in DOMAIN answers : resolutions[i].dtoName = name /\ answers[i][p] # Absent}

\* The last of them has the say, or core when there is none.
LastSpeaks(p, name) ==
    \/ speakers(p, name) = {} /\ prevData[p][name] = original[p][name]
    \/ \E m \in speakers(p, name) :
          /\ \A j \in speakers(p, name) : j <= m
          /\ prevData[p][name] = answers[m][p]

concerned(p) == op = "all" \/ (op = "phase" /\ p = subject)

\* Half-way through the loop the data is that of the resolutions done so far.
MergedSoFar ==
    \A p \in Participations, n \in DtoNames : concerned(p) => LastSpeaks(p, n)

\* The CHOOSE of the reference has a single candidate.
LEMMA LastIsResolved ==
    ASSUME TypeOK, NEW p \in Participations, NEW n \in DtoNames, LastSpeaks(p, n)
    PROVE  prevData[p][n] = resolved(p, n)
<1>1. CASE speakers(p, n) = {}
  BY <1>1 DEF LastSpeaks, resolved, speakers
<1>2. CASE speakers(p, n) # {}
  <2>1. PICK m \in speakers(p, n) :
            /\ \A j \in speakers(p, n) : j <= m
            /\ prevData[p][n] = answers[m][p]
    BY <1>2 DEF LastSpeaks
  <2>2. speakers(p, n) \subseteq Nat
    BY DEF speakers, TypeOK
  <2>3. (CHOOSE i \in speakers(p, n) : \A j \in speakers(p, n) : j <= i) = m
    BY <2>1, <2>2
  <2> QED
    BY <1>2, <2>1, <2>3 DEF resolved, speakers
<1> QED
  BY <1>1, <1>2

\* One more answer: it speaks last, or says nothing of p under that name.
LEMMA AnswerSpeaks ==
    ASSUME TypeOK, MergedSoFar, Resolve,
           NEW p \in Participations, NEW n \in DtoNames, concerned(p)
    PROVE  LastSpeaks(p, n)'
<1> DEFINE k == Len(answers) + 1
<1>1. PICK answer \in Answer :
          /\ op # "all" => answer[subject] # Absent
          /\ prevData' = merge(prevData, current.dtoName, answer)
          /\ answers' = Append(answers, answer)
  BY DEF Resolve
<1>2. /\ answers \in Seq(Answer) /\ k \in Nat
      /\ DOMAIN answers' = 1 .. k /\ DOMAIN answers = 1 .. k - 1
      /\ answers'[k] = answer /\ \A i \in 1 .. k - 1 : answers'[i] = answers[i]
  BY <1>1 DEF TypeOK
<1>3. UNCHANGED <<op, subject, original, resolutions>> /\ current = resolutions[k]
  BY DEF Resolve, current
<1>4. LastSpeaks(p, n)
  BY DEF MergedSoFar
<1>5. prevData'[p][n] = IF current.dtoName = n /\ answer[p] # Absent THEN answer[p]
                                                                      ELSE prevData[p][n]
  <2>1. /\ current.dtoName \in DtoNames /\ prevData \in [Participations -> [DtoNames -> Entry]]
        /\ subject \in Participations
    BY CurrentTypes DEF Resolve, TypeOK, Data
  <2>2. CASE op = "all"
    <3>1. prevData' = mergeAll(prevData, current.dtoName, answer)
      BY <1>1, <2>2 DEF merge
    <3> QED
      BY <2>1, <3>1 DEF mergeAll
  <2>3. CASE op = "phase" /\ p = subject
    <3>1. prevData' = [prevData EXCEPT ![subject][current.dtoName] = answer[subject]]
      BY <1>1, <2>3 DEF merge, mergePhase
    <3> QED
      BY <1>1, <2>1, <2>3, <3>1
  <2> QED
    BY <2>2, <2>3 DEF concerned
<1>6. CASE current.dtoName = n /\ answer[p] # Absent
  <2>1. k \in speakers(p, n)' /\ \A j \in speakers(p, n)' : j <= k
    BY <1>2, <1>3, <1>6 DEF speakers
  <2>2. prevData'[p][n] = answers'[k][p]
    BY <1>2, <1>5, <1>6
  <2> QED
    BY <2>1, <2>2 DEF LastSpeaks
<1>7. CASE ~(current.dtoName = n /\ answer[p] # Absent)
  <2>1. speakers(p, n)' = speakers(p, n)
    BY <1>2, <1>3, <1>7 DEF speakers
  <2>2. \A m \in speakers(p, n) : answers'[m] = answers[m]
    BY <1>2 DEF speakers
  <2>3. prevData'[p][n] = prevData[p][n] /\ original' = original
    BY <1>3, <1>5, <1>7
  <2> QED
    BY <1>4, <2>1, <2>2, <2>3 DEF LastSpeaks
<1> QED
  BY <1>6, <1>7

\* The loop keeps what it has merged so far.
LEMMA MergedStep == Types /\ MergedSoFar /\ [Next]_vars => MergedSoFar'
<1> SUFFICES ASSUME Types, MergedSoFar, [Next]_vars PROVE MergedSoFar'
  OBVIOUS
<1>1. ASSUME NEW operation \in Operations, Fetch(operation)
      PROVE  MergedSoFar'
  <2>1. answers' = <<>> /\ prevData' = original' /\ op' # "idle"
    BY <1>1 DEF Fetch, Types, Idle, Operations
  <2>2. \A p \in Participations, n \in DtoNames : speakers(p, n)' = {}
    BY <2>1 DEF speakers
  <2> QED
    BY <2>1, <2>2 DEF MergedSoFar, LastSpeaks
<1>2. CASE Resolve
  <2>1. op' = op /\ op # "idle" /\ \A p \in Participations : concerned(p)' <=> concerned(p)
    BY <1>2 DEF Resolve, working, concerned
  <2> QED
    BY <1>2, <2>1, AnswerSpeaks DEF MergedSoFar, Types
<1>3. CASE UNCHANGED <<op, subject, original, resolutions, prevData, answers>>
  <2>1. \A p \in Participations, n \in DtoNames :
            (concerned(p)' <=> concerned(p)) /\ (LastSpeaks(p, n)' <=> LastSpeaks(p, n))
    BY <1>3 DEF concerned, LastSpeaks, speakers
  <2> QED
    BY <1>3, <2>1 DEF MergedSoFar
<1> QED
  BY <1>1, <1>2, <1>3 DEF Next, Fail, Return, vars

\* An operation that succeeded has an answer for every resolution.
Complete == result = "ok" => op # "idle" /\ Len(answers) = Len(resolutions)

\* Only the end of the loop is a success, and nothing follows it.
LEMMA CompleteStep == Complete /\ [Next]_vars => Complete'
<1> SUFFICES ASSUME Complete, [Next]_vars PROVE Complete'
  OBVIOUS
<1>1. ASSUME NEW operation \in Operations, Fetch(operation)
      PROVE  Complete'
  BY <1>1 DEF Complete, Fetch
<1>2. CASE Fail
  BY <1>2 DEF Complete, Fail
<1>3. CASE Resolve
  BY <1>3 DEF Complete, Resolve, working
<1>4. CASE Return
  BY <1>4 DEF Complete, Return, working
<1>5. CASE UNCHANGED vars
  BY <1>5 DEF Complete, vars
<1> QED
  BY <1>1, <1>2, <1>3, <1>4, <1>5 DEF Next

\* No operation succeeds with a part of the data.  Every resolved value is at
\* its place when an operation on all participations or on the phase succeeds,
\* whatever the order and overlap of the resolutions, and all else is as core
\* had it.
THEOREM MergedRight == Spec => []Merged
<1>1. Init => MergedSoFar
  BY DEF Init, MergedSoFar, concerned
<1>2. Init => Complete
  BY DEF Init, Complete
<1>3. Types /\ MergedSoFar /\ Complete => Merged
  <2> SUFFICES ASSUME Types, MergedSoFar, op \in {"all", "phase"},
                      NEW p \in Participations, NEW n \in DtoNames, op = "all" \/ p = subject
               PROVE  prevData[p][n] = resolved(p, n)
    BY DEF Merged, Complete
  <2>1. concerned(p)
    BY DEF concerned
  <2>2. TypeOK /\ LastSpeaks(p, n)
    BY <2>1 DEF Types, MergedSoFar
  <2> QED
    BY <2>2, LastIsResolved
<1> QED
  BY <1>1, <1>2, <1>3, TypesInit, TypesStep, MergedStep, CompleteStep, PTL DEF Spec
=============================================================================
