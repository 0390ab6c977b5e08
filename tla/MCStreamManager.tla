-------------------------- MODULE MCStreamManager --------------------------
\* "x.y" is a name with a dot: namespaces lists it as "x".
EXTENDS StreamManager

MCSpace == {<<"d", "x">>, <<"d", "x.y">>}
MCStem == [n \in {"x", "x.y"} |-> "x"]

=============================================================================
