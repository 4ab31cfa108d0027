------------------------ MODULE PrivacyExportProofs ------------------------
(***************************************************************************)
(* Theorems about Export and the endpoint around it, for any items, any    *)
(* number of calls, any URLs and any allowlist.                            *)
(***************************************************************************)
EXTENDS PrivacyExport, SequenceTheorems, TLAPS

Items == (Names \cup {"contents.json"}) \X BOOLEAN

----------------------------------------------------------------------------
(* Types. *)

\* What every call does to the number of calls and the error.
LEMMA CalledTypes ==
    ASSUME ExportTypeOK, called
    PROVE  calls' \in 0 .. MaxCalls
BY MaxCallsAssumption DEF ExportTypeOK, called

LEMMA FailTypes ==
    ASSUME ExportTypeOK, err = None, NEW e \in Errors, failAdd(e)
    PROVE  /\ err' \in Errors \cup {None} /\ result' \in Results
           /\ failures' \in {0, 1} /\ (err' # None <=> failures' = 1)
           /\ entries' = entries
BY DEF ExportTypeOK, failAdd, Errors, Results, None

LEMMA AddTypes ==
    ASSUME ExportTypeOK, NEW n \in Names, Add(n)
    PROVE  ExportTypeOK'
<1>0. {"finished", "path", "collecting", "creating", "writing"} = Errors
    BY DEF Errors
<1>1. CASE AddRefused(n)
    <2>1. called /\ UNCHANGED <<zipWriter, tmpFile, finished, archive, stored, offered>>
        BY <1>1 DEF AddRefused
    <2>2. CASE err # None
        <3>1. result' = err /\ UNCHANGED <<err, entries, failures>>
            BY <1>1, <2>2 DEF AddRefused
        <3> QED BY <2>1, <2>2, <3>1, CalledTypes DEF ExportTypeOK, Results
    <2>3. CASE err = None
        <3>1. PICK e \in Errors : failAdd(e)
            BY <1>0, <1>1, <2>3 DEF AddRefused
        <3> QED BY <2>1, <2>3, <3>1, CalledTypes, FailTypes DEF ExportTypeOK
    <2> QED BY <2>2, <2>3
<1>2. CASE AddNothing(n)
    <2>1. /\ called /\ err = None
          /\ UNCHANGED <<zipWriter, tmpFile, finished, archive, stored, offered>>
        BY <1>2 DEF AddNothing, accepted
    <2>2. CASE failAdd("collecting")
        BY <1>0, <2>1, <2>2, CalledTypes, FailTypes DEF ExportTypeOK
    <2>3. CASE result' = "ok" /\ UNCHANGED <<err, entries, failures>>
        BY <2>1, <2>3, CalledTypes DEF ExportTypeOK, Results
    <2> QED BY <1>2, <2>2, <2>3 DEF AddNothing
<1>3. CASE AddData(n)
    <2>1. /\ called /\ err = None /\ offered' \subseteq Names
          /\ UNCHANGED <<tmpFile, finished, stored>>
        BY <1>3 DEF AddData, accepted, ExportTypeOK
    <2>2. CASE result' = "panicInAdd" /\ UNCHANGED <<zipWriter, err, entries, archive, failures>>
        BY <2>1, <2>2, CalledTypes DEF ExportTypeOK, Results
    <2>3. CASE /\ \E e \in {"creating", "writing"} : failAdd(e)
               /\ zipWriter' \in {"open", "broken", "nil"}
               /\ archive' = Append(archive, <<n, FALSE>>)
        <3>1. PICK e \in Errors : failAdd(e)
            BY <1>0, <2>3
        <3>2. archive' \in Seq(Items)
            BY <2>3, AppendProperties DEF ExportTypeOK, Items
        <3> QED BY <2>1, <2>3, <3>1, <3>2, CalledTypes, FailTypes DEF ExportTypeOK, Items
    <2>4. CASE /\ archive' = Append(archive, <<n, TRUE>>)
               /\ entries' = Append(entries, n)
               /\ result' = "ok" /\ UNCHANGED <<zipWriter, err, failures>>
        <3>1. archive' \in Seq(Items) /\ entries' \in Seq(Names)
            BY <2>4, AppendProperties DEF ExportTypeOK, Items
        <3> QED BY <2>1, <2>4, <3>1, CalledTypes DEF ExportTypeOK, Results, Items
    <2> QED BY <1>3, <2>2, <2>3, <2>4 DEF AddData, ExportTypeOK
<1> QED BY <1>1, <1>2, <1>3 DEF Add

LEMMA UploadTypes ==
    ASSUME ExportTypeOK, UploadTo
    PROVE  ExportTypeOK'
<1>1. CASE UploadRefused
    BY <1>1, CalledTypes DEF UploadRefused, ExportTypeOK, Results, Errors, None
<1>2. CASE UploadPanics
    BY <1>2, CalledTypes DEF UploadPanics, uploading, ExportTypeOK, Results
<1>3. CASE UploadDiskFails
    BY <1>3, CalledTypes DEF UploadDiskFails, uploading, ExportTypeOK, Results, Errors
<1>4. CASE Upload
    <2>1. archive' \in Seq(Items)
        BY <1>4, AppendProperties DEF Upload, withContents, ExportTypeOK, Items
    <2>2. /\ called /\ zipWriter' = "nil" /\ UNCHANGED <<err, entries, offered, failures>>
          /\ result' \in {"ok", "uploading"} /\ tmpFile' \in {tmpFile, "closed"}
          /\ finished' \in {finished, TRUE} /\ stored' \in {stored, archive'}
        BY <1>4 DEF Upload, uploading
    <2> QED BY <2>1, <2>2, CalledTypes DEF ExportTypeOK, Results, Items
<1> QED BY <1>1, <1>2, <1>3, <1>4 DEF UploadTo

LEMMA CallTypes ==
    ASSUME ExportTypeOK, ExportNext
    PROVE  ExportTypeOK'
<1>1. CASE Close
    BY <1>1, CalledTypes DEF Close, close, removeFile, ExportTypeOK, Results
<1> QED BY <1>1, AddTypes, UploadTypes DEF ExportNext

\* An Add or an upload is a call, and the deferred Close is one uncounted.
LEMMA IsCall ==
    ASSUME Next
    PROVE  ExportNext \/ UNCHANGED exportVars \/ Unwind
BY DEF Next, DirectUse, Refuse, Accept, HandlerAdds, HandlerReturns,
       AnswerWithoutUpload, UploadAndAnswer, ExportNext

LEMMA TypeStep == TypeOK /\ [Next]_vars => TypeOK'
<1> SUFFICES ASSUME TypeOK, [Next]_vars PROVE TypeOK'
    OBVIOUS
<1>1. ExportTypeOK'
    <2>1. CASE UNCHANGED exportVars
        BY <2>1 DEF TypeOK, ExportTypeOK, exportVars
    <2>2. CASE Unwind
        BY <2>2 DEF TypeOK, ExportTypeOK, Unwind, close, removeFile
    <2>3. CASE ExportNext
        BY <2>3, CallTypes DEF TypeOK
    <2> QED BY <2>1, <2>2, <2>3, IsCall DEF vars
<1>2. CASE UNCHANGED vars
    BY <1>1, <1>2 DEF TypeOK, vars
<1>3. CASE DirectUse
    BY <1>1, <1>3 DEF TypeOK, DirectUse
<1>4. CASE Refuse
    <2>1. status' \in {"400", "401", "403", "500"}
        BY <1>4 DEF Refuse, targetStatus, None
    <2> QED BY <1>1, <1>4, <2>1 DEF TypeOK, Refuse, None
<1>5. CASE Accept
    BY <1>1, <1>5 DEF TypeOK, Accept
<1>6. CASE HandlerAdds
    BY <1>1, <1>6 DEF TypeOK, HandlerAdds
<1>7. CASE HandlerReturns
    BY <1>1, <1>7 DEF TypeOK, HandlerReturns, None
<1>8. CASE AnswerWithoutUpload
    <2>1. conclude \in {"500", "204"}
        BY <1>8 DEF AnswerWithoutUpload, conclude
    <2> QED BY <1>1, <1>8, <2>1 DEF TypeOK, AnswerWithoutUpload, answer, None
<1>9. CASE UploadAndAnswer
    BY <1>1, <1>9 DEF TypeOK, UploadAndAnswer, answer, None
<1>10. CASE Unwind
    BY <1>1, <1>10 DEF TypeOK, Unwind
<1> QED BY <1>2, <1>3, <1>4, <1>5, <1>6, <1>7, <1>8, <1>9, <1>10 DEF Next

LEMMA TypeInit == Init => TypeOK
<1> SUFFICES ASSUME Init PROVE TypeOK
    OBVIOUS
<1>1. <<>> \in Seq(Names) /\ <<>> \in Seq(Items)
    BY EmptySeq
<1>2. ExportTypeOK
    <2>1. /\ zipWriter = "open" /\ tmpFile = "open" /\ err = None /\ finished = FALSE
          /\ entries = <<>> /\ archive = <<>> /\ stored = <<None>> /\ result = "ok"
          /\ offered = {} /\ failures = 0 /\ calls = 0
        BY DEF Init, NewExport
    <2>2. archive \in Seq(Items) /\ entries \in Seq(Names)
        BY <1>1, <2>1
    <2>3. calls \in 0 .. MaxCalls
        BY <2>1, MaxCallsAssumption
    <2>4. err \in Errors \cup {None} /\ result \in Results
        BY <2>1 DEF Results
    <2>5. failures \in {0, 1} /\ (err # None <=> failures = 1)
        BY <2>1
    <2> QED BY <2>1, <2>2, <2>3, <2>4, <2>5 DEF ExportTypeOK, Items
<1>3. created = FALSE /\ pc \in {"request", "direct"} /\ status = None
    BY DEF Init
<1> QED BY <1>2, <1>3 DEF TypeOK, None

\* Every variable of an export and of the endpoint keeps its type, and the
\* stored error stands for exactly one failed call of Add*.
THEOREM TypeCorrect == Spec => []TypeOK
BY TypeInit, TypeStep, PTL DEF Spec

----------------------------------------------------------------------------
(* The archive.                                                            *)

\* A failed call and a successful upload are final.
LEMMA FrozenStep ==
    ASSUME TypeOK, [Next]_vars, failures > 0 \/ finished
    PROVE  entries' = entries /\ archive' = archive /\ stored' = stored
<1>1. finished \/ err # None
    BY DEF TypeOK, ExportTypeOK
<1>2. ASSUME NEW n \in Names, Add(n)
      PROVE  entries' = entries /\ archive' = archive /\ stored' = stored
    BY <1>1, <1>2 DEF Add, AddRefused, AddNothing, AddData, accepted, failAdd
<1>3. CASE UploadTo
    BY <1>1, <1>3 DEF UploadTo, UploadRefused, UploadPanics, UploadDiskFails, Upload, uploading
<1>4. CASE Close \/ Unwind
    BY <1>4 DEF Close, Unwind
<1>5. CASE UNCHANGED exportVars
    BY <1>5 DEF exportVars
<1> QED BY <1>2, <1>3, <1>4, <1>5, IsCall DEF ExportNext, vars

\* Nothing is added, sealed or stored after an error or an accepted upload.
THEOREM FinalStates == Spec => Frozen
<1>1. TypeOK /\ [Next]_vars =>
        [failures > 0 \/ finished =>
           /\ entries' = entries /\ archive' = archive /\ stored' = stored]_exportVars
    BY FrozenStep
<1> QED BY <1>1, TypeCorrect, PTL DEF Spec, Frozen

\* Every item whose callback delivered data is among the entries.
listed == \A n \in offered : \E i \in DOMAIN entries : entries[i] = n

\* The archive of an export without errors holds its entries, and nothing is
\* stored while its writer is there.
Whole ==
    /\ err = None /\ zipWriter # "nil" => archive = written
    /\ err = None /\ isEmpty => archive = <<>>
    /\ err = None => listed
    /\ zipWriter # "nil" => stored = <<None>> /\ ~finished

WholeInv == ExportTypeOK /\ Whole /\ StoredWhole

\* The records of a sequence of entries, all of them whole.
recordsOf(s) == [i \in DOMAIN s |-> <<s[i], TRUE>>]

LEMMA RecordsSeq ==
    ASSUME NEW s \in Seq(Names)
    PROVE  recordsOf(s) \in Seq(Items) /\ Len(recordsOf(s)) = Len(s)
<1>1. /\ Len(s) \in Nat /\ DOMAIN s = 1 .. Len(s)
      /\ \A i \in 1 .. Len(s) : s[i] \in Names
    BY LenProperties, ElementOfSeq
<1>2. recordsOf(s) \in [1 .. Len(s) -> Items]
    BY <1>1 DEF recordsOf, Items
<1>3. recordsOf(s) \in Seq(Items)
    BY <1>1, <1>2, SeqDef
<1>4. Len(recordsOf(s)) = Len(s)
    BY <1>1, <1>2, <1>3, LenProperties
<1> QED BY <1>3, <1>4

\* They grow with the sequence.
LEMMA RecordsGrow ==
    ASSUME NEW s \in Seq(Names), NEW n \in Names
    PROVE  /\ recordsOf(Append(s, n)) = Append(recordsOf(s), <<n, TRUE>>)
           /\ \A i \in DOMAIN s : i \in DOMAIN Append(s, n) /\ Append(s, n)[i] = s[i]
           /\ \E i \in DOMAIN Append(s, n) : Append(s, n)[i] = n
<1> DEFINE t == Append(s, n)
<1> DEFINE grown == Append(recordsOf(s), <<n, TRUE>>)
<1>1. /\ t \in Seq(Names) /\ Len(t) = Len(s) + 1 /\ Len(s) \in Nat
      /\ \A i \in 1 .. Len(s) : t[i] = s[i]
      /\ t[Len(s) + 1] = n
      /\ DOMAIN t = 1 .. Len(s) + 1 /\ DOMAIN s = 1 .. Len(s)
    BY AppendProperties, LenProperties
<1> HIDE DEF t
<1>2. /\ recordsOf(s) \in Seq(Items) /\ Len(recordsOf(s)) = Len(s)
      /\ recordsOf(t) \in Seq(Items) /\ Len(recordsOf(t)) = Len(t)
    BY <1>1, RecordsSeq
<1>3. <<n, TRUE>> \in Items
    BY DEF Items
<1>4. /\ grown \in Seq(Items) /\ Len(grown) = Len(s) + 1
      /\ \A i \in 1 .. Len(s) : grown[i] = recordsOf(s)[i]
      /\ grown[Len(s) + 1] = <<n, TRUE>>
    <2> DEFINE rs == recordsOf(s)
    <2> DEFINE x == <<n, TRUE>>
    <2>1. rs \in Seq(Items) /\ Len(rs) = Len(s) /\ x \in Items
        BY <1>2, <1>3
    <2> HIDE DEF rs, x
    <2>2. /\ Append(rs, x) \in Seq(Items) /\ Len(Append(rs, x)) = Len(s) + 1
          /\ \A i \in 1 .. Len(s) : Append(rs, x)[i] = rs[i]
          /\ Append(rs, x)[Len(s) + 1] = x
        BY <2>1, AppendProperties
    <2> QED BY <2>2 DEF rs, x
<1> HIDE DEF grown
<1>5. \A i \in 1 .. Len(s) : recordsOf(t)[i] = grown[i]
    <2> SUFFICES ASSUME NEW i \in 1 .. Len(s) PROVE recordsOf(t)[i] = grown[i]
        OBVIOUS
    <2>1. i \in DOMAIN s /\ i \in DOMAIN t /\ t[i] = s[i]
        BY <1>1
    <2> QED BY <1>4, <2>1 DEF recordsOf
<1>6. recordsOf(t)[Len(s) + 1] = grown[Len(s) + 1]
    <2>1. Len(s) + 1 \in DOMAIN t
        BY <1>1
    <2> QED BY <1>1, <1>4, <2>1 DEF recordsOf
<1>7. \A i \in 1 .. Len(recordsOf(t)) : recordsOf(t)[i] = grown[i]
    BY <1>1, <1>2, <1>5, <1>6
<1>8. recordsOf(t) = grown
    BY <1>1, <1>2, <1>4, <1>7, SeqEqual
<1>9. \A i \in DOMAIN s : i \in DOMAIN t /\ t[i] = s[i]
    BY <1>1
<1>10. \E i \in DOMAIN t : t[i] = n
    <2>1. Len(s) + 1 \in DOMAIN t
        BY <1>1
    <2> QED BY <1>1, <2>1
<1> QED BY <1>8, <1>9, <1>10 DEF grown, t

LEMMA WholeAdd ==
    ASSUME WholeInv, NEW n \in Names, Add(n)
    PROVE  Whole' /\ StoredWhole'
<1>0. ExportTypeOK /\ Whole /\ StoredWhole /\ entries \in Seq(Names)
    BY DEF WholeInv, ExportTypeOK
\* A call that fails leaves an error and the entries it found.
<1>1. ASSUME err' # None, UNCHANGED <<entries, stored, finished, zipWriter>>,
             stored # <<None>> => offered' = offered
      PROVE  Whole' /\ StoredWhole'
    BY <1>0, <1>1 DEF Whole, StoredWhole, isEmpty, written
\* So does one that changes nothing.
<1>2. ASSUME UNCHANGED <<err, entries, stored, finished, zipWriter, archive, offered>>
      PROVE  Whole' /\ StoredWhole'
    BY <1>0, <1>2 DEF Whole, StoredWhole, isEmpty, written, listed
<1>3. CASE AddRefused(n)
    <2>1. UNCHANGED <<entries, stored, finished, zipWriter, archive, offered>>
        BY <1>3 DEF AddRefused, failAdd
    <2>2. err' = err \/ err' # None
        BY <1>3 DEF AddRefused, failAdd, None
    <2> QED BY <1>1, <1>2, <2>1, <2>2
<1>4. CASE AddNothing(n)
    <2>1. UNCHANGED <<entries, stored, finished, zipWriter, archive, offered>>
        BY <1>4 DEF AddNothing, failAdd
    <2>2. err' = err \/ err' # None
        BY <1>4 DEF AddNothing, failAdd, None
    <2> QED BY <1>1, <1>2, <2>1, <2>2
<1>5. CASE AddData(n)
    <2>1. err = None /\ UNCHANGED <<tmpFile, finished, stored>>
        BY <1>5 DEF AddData, accepted
    <2>2. CASE zipWriter = "nil"
        <3>1. UNCHANGED <<err, entries, zipWriter, archive, offered>>
            BY <1>5, <2>2 DEF AddData
        <3> QED BY <1>2, <2>1, <3>1
    <2>3. CASE zipWriter # "nil"
        <3>1. /\ stored = <<None>> /\ ~finished /\ stored' = stored /\ ~finished'
              /\ archive = written /\ listed
            BY <1>0, <2>1, <2>3 DEF Whole
        <3>2. CASE \E e \in {"creating", "writing"} : failAdd(e)
            <4>1. err' # None
                BY <3>2 DEF failAdd, None
            <4> QED BY <3>1, <4>1 DEF Whole, StoredWhole
        <3>3. CASE /\ archive' = Append(archive, <<n, TRUE>>)
                   /\ entries' = Append(entries, n)
                   /\ UNCHANGED <<zipWriter, err, failures>>
            <4>1. offered' = offered \cup {n}
                BY <1>5, <2>3 DEF AddData
            <4>2. written' = recordsOf(entries') /\ written = recordsOf(entries)
                BY DEF written, recordsOf
            <4>3. archive' = written'
                BY <1>0, <3>1, <3>3, <4>2, RecordsGrow
            <4>4. listed'
                <5>1. /\ \A i \in DOMAIN entries : i \in DOMAIN entries' /\ entries'[i] = entries[i]
                      /\ \E i \in DOMAIN entries' : entries'[i] = n
                    BY <1>0, <3>3, RecordsGrow
                <5> QED BY <3>1, <4>1, <5>1 DEF listed
            <4>5. entries' # <<>>
                BY <1>0, <3>3, AppendProperties, EmptySeq, LenProperties
            <4> QED BY <3>1, <4>3, <4>4, <4>5 DEF Whole, StoredWhole, isEmpty
        <3> QED BY <1>5, <2>3, <3>2, <3>3 DEF AddData
    <2> QED BY <2>2, <2>3
<1> QED BY <1>3, <1>4, <1>5 DEF Add

LEMMA WholeUpload ==
    ASSUME WholeInv, UploadTo
    PROVE  Whole' /\ StoredWhole'
<1>0. ExportTypeOK /\ Whole /\ StoredWhole
    BY DEF WholeInv
<1>1. UNCHANGED <<err, entries, offered>> /\ written' = written /\ (isEmpty' <=> isEmpty)
      /\ (listed' <=> listed)
    BY DEF UploadTo, UploadRefused, UploadPanics, UploadDiskFails, Upload, written, isEmpty, listed
<1>2. CASE UploadRefused \/ UploadPanics
    <2>1. UNCHANGED <<zipWriter, finished, archive, stored>>
        BY <1>2 DEF UploadRefused, UploadPanics
    <2> QED BY <1>0, <1>1, <2>1 DEF Whole, StoredWhole, listed
<1>3. CASE UploadDiskFails
    <2>1. zipWriter # "nil" /\ UNCHANGED <<finished, archive, stored>>
        BY <1>3 DEF UploadDiskFails
    <2> QED BY <1>0, <1>1, <2>1 DEF Whole, StoredWhole, listed
<1>4. CASE Upload
    <2>1. /\ err = None /\ zipWriter' = "nil" /\ stored' \in {stored, archive'} /\ listed
          /\ zipWriter = "open" \/ (zipWriter = "nil" /\ isEmpty)
        BY <1>0, <1>4 DEF Upload, uploading, Whole
    <2>2. archive' = IF isEmpty THEN <<>> ELSE Append(written, <<"contents.json", TRUE>>)
        BY <1>0, <1>4, <2>1 DEF Upload, withContents, Whole
    <2> QED BY <1>0, <1>1, <2>1, <2>2 DEF Whole, StoredWhole, listed
<1> QED BY <1>2, <1>3, <1>4 DEF UploadTo

LEMMA WholeStep ==
    ASSUME TypeOK, Whole, StoredWhole, [Next]_vars
    PROVE  Whole' /\ StoredWhole'
<1>0. WholeInv
    BY DEF WholeInv, TypeOK
<1>1. CASE Close \/ Unwind
    <2>1. zipWriter' = "nil" /\ UNCHANGED <<err, entries, offered, archive, stored, finished>>
        BY <1>1 DEF Close, Unwind, close
    <2> QED BY <1>0, <2>1 DEF WholeInv, Whole, StoredWhole, listed, written, isEmpty
<1>2. CASE UNCHANGED exportVars
    BY <1>0, <1>2 DEF exportVars, WholeInv, Whole, StoredWhole, listed, written, isEmpty
<1> QED BY <1>0, <1>1, <1>2, WholeAdd, WholeUpload, IsCall DEF ExportNext, vars

LEMMA WholeInvariant == Spec => [](TypeOK /\ Whole /\ StoredWhole)
<1>1. Init => Whole /\ StoredWhole
    <2> SUFFICES ASSUME Init PROVE Whole /\ StoredWhole
        OBVIOUS
    <2>1. /\ entries = <<>> /\ archive = <<>> /\ stored = <<None>> /\ ~finished /\ offered = {}
        BY DEF Init, NewExport
    <2>2. written = <<>>
        BY <2>1, EmptySeq DEF written
    <2> QED BY <2>1, <2>2 DEF Whole, StoredWhole, listed
<1> QED BY <1>1, TypeInit, TypeStep, WholeStep, PTL DEF Spec

\* Whatever fails, only complete archives are stored.
THEOREM ArchivesWhole == Spec => []StoredWhole
BY WholeInvariant, PTL

----------------------------------------------------------------------------
(* The endpoint.                                                           *)

\* Until the endpoint uploads, the writer is there, so nothing is stored; what
\* a request stores goes to the URL it was let through with.
Conduct ==
    /\ pc \in {"request", "handler", "conclude"} => zipWriter # "nil"
    /\ pc \in {"handler", "conclude", "unwind"} => targetStatus(target) = None
    /\ pc = "done" => targetStatus(target) = None \/ stored = <<None>>

ConductInv == TypeOK /\ Whole /\ StoredWhole /\ Conduct

\* A handler's calls leave the writer alone.
LEMMA AddKeepsWriter ==
    ASSUME NEW n \in Names, Add(n), zipWriter # "nil"
    PROVE  zipWriter' # "nil"
BY DEF Add, AddRefused, AddNothing, AddData

LEMMA ConductStep ==
    ASSUME ConductInv, [Next]_vars
    PROVE  Conduct'
<1>0. Conduct /\ Whole
    BY DEF ConductInv
<1>1. CASE UNCHANGED vars
    BY <1>0, <1>1 DEF Conduct, vars, exportVars, targetStatus
<1>2. CASE DirectUse
    BY <1>2 DEF Conduct, DirectUse
<1>3. CASE Refuse
    BY <1>0, <1>3 DEF Conduct, Whole, Refuse, exportVars
<1>4. CASE Accept
    BY <1>0, <1>4 DEF Conduct, Accept, exportVars, targetStatus
<1>5. CASE HandlerAdds
    BY <1>0, <1>5, AddKeepsWriter DEF Conduct, HandlerAdds, targetStatus
<1>6. CASE HandlerReturns
    BY <1>0, <1>6 DEF Conduct, HandlerReturns, exportVars, targetStatus
<1>7. CASE AnswerWithoutUpload
    BY <1>0, <1>7 DEF Conduct, AnswerWithoutUpload, answer, targetStatus
<1>8. CASE UploadAndAnswer
    BY <1>0, <1>8 DEF Conduct, UploadAndAnswer, answer, targetStatus
<1>9. CASE Unwind
    BY <1>0, <1>9 DEF Conduct, Unwind, targetStatus
<1> QED BY <1>1, <1>2, <1>3, <1>4, <1>5, <1>6, <1>7, <1>8, <1>9 DEF Next

LEMMA ConductInvariant == Spec => []ConductInv
<1>1. Init => Conduct
    BY DEF Init, NewExport, Conduct
<1>2. ConductInv /\ [Next]_vars => Conduct'
    BY ConductStep
<1>3. ConductInv <=> TypeOK /\ Whole /\ StoredWhole /\ Conduct
    BY DEF ConductInv
<1> QED BY <1>1, <1>2, <1>3, WholeInvariant, PTL DEF Spec

\* The endpoint sends personal data to a host of the allowlist only, and under
\* a wildcard to a proper subdomain only.
THEOREM HostsAllowed == Spec => []SentToAllowedHost
<1>1. ConductInv => SentToAllowedHost
    <2> SUFFICES ASSUME ConductInv, stored # <<None>>, pc # "direct"
                 PROVE  /\ target.https \/ target.local
                        /\ \/ AllowedHosts = {} \/ target.host \in AllowedHosts
                           \/ target.host[1] # "" /\ <<"*", target.host[2]>> \in AllowedHosts
        BY DEF SentToAllowedHost
    <2>1. targetStatus(target) = None /\ pc \in {"unwind", "done"} /\ target \in URLs
        BY DEF ConductInv, Conduct, Whole, TypeOK
    <2>2. /\ target.https \/ target.local
          /\ AllowedHosts = {} \/ isAllowedHost(target.host, AllowedHosts)
        BY <2>1, URLsAssumption DEF targetStatus, None
    <2>3. ASSUME isAllowedHost(target.host, AllowedHosts), target.host \notin AllowedHosts
          PROVE  target.host[1] # "" /\ <<"*", target.host[2]>> \in AllowedHosts
        BY <2>3, HostsAssumption DEF isAllowedHost
    <2> QED BY <2>2, <2>3
<1> QED BY <1>1, ConductInvariant, PTL

LEMMA AnswerStep ==
    ASSUME ConductInv, AnswerTruthful, [Next]_vars
    PROVE  AnswerTruthful'
<1>0. /\ TypeOK /\ ExportTypeOK /\ Whole /\ StoredWhole /\ Conduct
      /\ Whole' /\ StoredWhole' /\ TypeOK'
    BY TypeStep, WholeStep DEF ConductInv, TypeOK
<1>1. ASSUME status' = None PROVE AnswerTruthful'
    BY <1>1 DEF AnswerTruthful, None
<1>2. CASE UNCHANGED vars
    BY <1>0, <1>2 DEF AnswerTruthful, vars, exportVars
<1>3. CASE DirectUse
    BY <1>0, <1>1, <1>3 DEF DirectUse, TypeOK
<1>4. CASE Refuse
    <2>1. stored' = <<None>> /\ status' \in {"400", "401", "403", "500"}
        BY <1>0, <1>4 DEF Refuse, Conduct, Whole, exportVars, targetStatus, None
    <2> QED BY <2>1 DEF AnswerTruthful, None
<1>5. CASE Accept \/ HandlerAdds
    BY <1>0, <1>1, <1>5 DEF Accept, HandlerAdds, TypeOK
<1>6. CASE HandlerReturns
    <2>1. stored' = <<None>> /\ status' \in {None, "500"}
        BY <1>0, <1>6 DEF HandlerReturns, Conduct, Whole, exportVars, TypeOK
    <2> QED BY <2>1 DEF AnswerTruthful, None
<1>7. CASE AnswerWithoutUpload
    <2>1. stored' = <<None>> /\ UNCHANGED exportVars
        BY <1>0, <1>7 DEF AnswerWithoutUpload, Conduct, Whole, exportVars
    <2>2. CASE err # None
        <3>1. status' = "500"
            BY <1>7, <2>2 DEF AnswerWithoutUpload, answer, conclude
        <3> QED BY <2>1, <3>1 DEF AnswerTruthful
    <2>3. CASE err = None
        <3>1. isEmpty /\ status' = "204"
            BY <1>7, <2>3 DEF AnswerWithoutUpload, answer, conclude
        <3>2. offered = {}
            BY <1>0, <2>3, <3>1 DEF Whole, listed, isEmpty
        <3>3. failures = 0
            BY <1>0, <2>3 DEF ExportTypeOK
        <3> QED BY <2>1, <3>1, <3>2, <3>3 DEF AnswerTruthful, exportVars
    <2> QED BY <2>2, <2>3
<1>8. CASE UploadAndAnswer
    <2>1. /\ err = None /\ ~isEmpty /\ UploadTo /\ zipWriter # "nil" /\ stored = <<None>>
          /\ status' = IF result' = "ok" THEN "200" ELSE "500"
        BY <1>0, <1>8 DEF UploadAndAnswer, conclude, answer, Conduct, Whole
    <2>2. CASE Upload
        <3>1. /\ failures' = 0 /\ result' \in {"ok", "uploading"}
              /\ result' = "ok" => stored' = archive'
            BY <1>0, <2>1, <2>2 DEF Upload, ExportTypeOK
        <3>2. archive' = Append(archive, <<"contents.json", TRUE>>)
            BY <2>1, <2>2 DEF Upload, withContents
        <3>3. archive = written
            BY <1>0, <2>1 DEF Whole
        <3>4. Len(archive) = Len(entries) /\ archive \in Seq(Items) /\ Len(entries) \in Nat
              /\ Len(entries) # 0
            BY <1>0, <2>1, <3>3, RecordsSeq, EmptySeq
            DEF ExportTypeOK, written, recordsOf, isEmpty
        <3>5. Len(archive') = Len(entries) + 1 /\ Len(<<None>>) = 1
            BY <3>2, <3>4, AppendProperties DEF Items
        <3>6. archive' # <<None>>
            BY <3>4, <3>5
        <3> QED BY <1>0, <2>1, <3>1, <3>6 DEF AnswerTruthful
    <2>3. CASE UploadRefused \/ UploadPanics \/ UploadDiskFails
        <3>1. stored' = <<None>> /\ status' = "500"
            BY <1>0, <2>1, <2>3
            DEF UploadRefused, UploadPanics, UploadDiskFails, ExportTypeOK, Errors, None
        <3> QED BY <3>1 DEF AnswerTruthful
    <2> QED BY <2>1, <2>2, <2>3 DEF UploadTo
<1>9. CASE Unwind
    BY <1>0, <1>9 DEF AnswerTruthful, Unwind
<1> QED BY <1>2, <1>3, <1>4, <1>5, <1>6, <1>7, <1>8, <1>9 DEF Next

\* The answer tells what has become of the data, whatever failed.
THEOREM AnswersTrue == Spec => []AnswerTruthful
<1>1. Init => AnswerTruthful
    BY DEF Init, NewExport, AnswerTruthful, None
<1>2. ConductInv /\ AnswerTruthful /\ [Next]_vars => AnswerTruthful'
    BY AnswerStep
<1> QED BY <1>1, <1>2, ConductInvariant, PTL DEF Spec
=============================================================================
