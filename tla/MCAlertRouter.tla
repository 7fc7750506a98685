---------------------------- MODULE MCAlertRouter ----------------------------
(***************************************************************************)
(* Small instances of AlertRouter for TLC.                                 *)
(***************************************************************************)
EXTENDS AlertRouter

CONSTANTS a1, a2

\* Route names as in the sample configuration, shortened.
OneRoute  == <<"chat">>
TwoRoutes == <<"chat", "mail">>

\* Every alert on the one route, or on both.
AllMatch == [rt \in RouteNames |-> {a1, a2}]
\* a1 on the first route, both on the second.
SomeMatch == [rt \in RouteNames |-> IF rt = "chat" THEN {a1} ELSE {a1, a2}]

NoLimit  == [rt \in RouteNames |-> 0]
\* The first route is not limited, the second is.
SomeLimit == [rt \in RouteNames |-> IF rt = "chat" THEN 0 ELSE 1]

Window3 == [rt \in RouteNames |-> 3]
Window0 == [rt \in RouteNames |-> 0]

NoChannels == [rt \in RouteNames |-> {}]
BothChannels == [rt \in RouteNames |-> {"slack", "email"}]

Singles == {<<a1>>, <<a2>>}
Pairs   == {<<a1>>, <<a1, a2>>}

CoverAll == [s \in Silences |-> {a1}]

\* Handlers differ in name only (safety runs).
HandlersAlike == Permutations(Handlers)

=============================================================================
