----------------------------- MODULE MCEndpoints -----------------------------
(* Instances of Endpoints for TLC. *)
EXTENDS Endpoints

\* Every combination of the roles a token can carry that the code tells apart.
RoleSets == SUBSET {<<"", PromptAdmin>>, <<"", PromptLecturer>>, <<"", "Tutors">>,
                    <<Course, CourseLecturer>>, <<Course, CourseEditor>>, <<Course, "Tutors">>}

AllCallers ==
    [credential : {"valid"}, roles : RoleSets, student : {"no", "course", "phase"}]
    \cup [credential : Credentials, roles : {RoleNames}, student : {"phase"}]

\* Every list of roles; behind a group of its own, the lists that differ in
\* the lookups they need.
AllLists == SUBSET Roles
SomeLists == {{CourseLecturer}, {PromptLecturer}, {CourseEditor, CourseStudent}}

AllRoutes ==
    {registered(<<>>, "owned", roles, phaseID, prefix) :
        roles \in AllLists, phaseID \in {"malformed", "set"}, prefix \in {"", Course}}
    \cup {registered(group, endpoint, {PromptAdmin, "Tutors"}, phaseID, Course) :
        group \in {<<>>, <<without("identify")>>} \cup {<<authenticate(roles)>> : roles \in SomeLists},
        endpoint \in Endpoint, phaseID \in {"malformed", "nil", "set"}}
    \cup {registered(<<authenticate(outer)>>, "owned", inner, "set", Course) :
        outer \in SomeLists, inner \in SomeLists}
=============================================================================
