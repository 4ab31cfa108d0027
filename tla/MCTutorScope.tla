--------------------------- MODULE MCTutorScope ---------------------------
(* Instances of TutorScope for TLC. *)
EXTENDS TutorScope

\* Editors and lecturers of the course with and without a global role, with
\* every form of login; one of them is a student of the phase as well.
ScopeRoles == {{<<Course, CourseEditor>>},
               {<<Course, CourseEditor>>, <<"", PromptAdmin>>},
               {<<Course, CourseEditor>>, <<"", PromptLecturer>>},
               {<<Course, CourseLecturer>>, <<"", PromptLecturer>>}}

ScopeCallers ==
    [credential : {"valid"}, roles : ScopeRoles, student : {"no"},
     login : {<<"other", l>> : l \in Logins \cup {EmptyLogin}}]
    \cup {[credential |-> "valid", roles |-> {<<Course, CourseEditor>>}, student |-> "phase",
           login |-> <<"stored", l>>] : l \in Logins}

\* Every order and omission of the two middlewares, with the role lists that
\* decide whether course roles are looked up; and routes that authenticate a
\* second time, around the scoping or after it.
Lists == {{PromptAdmin, CourseLecturer, CourseEditor},
          {PromptAdmin, PromptLecturer, CourseLecturer, CourseEditor},
          {CourseEditor, CourseStudent},
          {PromptLecturer, CourseStudent}}
Outer == authenticate({PromptAdmin, CourseLecturer, CourseEditor})
Inner == authenticate({PromptLecturer, CourseEditor})

ScopeChains ==
    UNION {{<<authenticate(l), without("scope")>>, <<without("scope"), authenticate(l)>>,
            <<authenticate(l)>>} : l \in Lists}
    \cup {<<>>, <<Outer, without("scope"), Inner>>, <<Outer, Inner, without("scope")>>}

ScopeRoutes == [chain : ScopeChains, phaseID : {"set"}, prefix : {Course}]
             \cup [chain : {<<authenticate({CourseEditor}), without("scope")>>},
                   phaseID : {"nil"}, prefix : {Course}]
=============================================================================
