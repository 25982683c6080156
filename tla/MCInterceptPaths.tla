-------------------------- MODULE MCInterceptPaths --------------------------
(* An instance of InterceptPaths: the names "", "tmp", "tmpx", "home" and    *)
(* "..", of which "tmpx" begins with "tmp" and every name with "".           *)
EXTENDS InterceptPaths

CONSTANTS empty, tmp, tmpx, home, dotdot

Length == [n \in Names |-> CASE n = empty -> 0 [] n = dotdot -> 2 [] n = tmp -> 3 [] OTHER -> 4]
BeginsWith == {<<n, n>> : n \in Names} \union {<<n, empty>> : n \in Names} \union {<<tmpx, tmp>>}

TmpPath == <<tmp>>
WorkingDirs == {Root, <<tmp>>}

Abs(p) == [relative |-> FALSE, path |-> p]
Rel(p) == [relative |-> TRUE, path |-> p]

\* "/", "/tmp", "/tmp/", "/tmpx", "/tmp/home", "tmp"
ListedPaths == {Abs(Root), Abs(<<tmp>>), Abs(<<tmp, empty>>), Abs(<<tmpx>>),
                Abs(<<tmp, home>>), Rel(<<tmp>>)}

\* "/tmp/home", "/tmp/tmpx", "/tmpx/home", "/home/tmp", "../tmp/home", "tmp/home"
OpenedPaths == {Abs(<<tmp, home>>), Abs(<<tmp, tmpx>>), Abs(<<tmpx, home>>), Abs(<<home, tmp>>),
                Rel(<<dotdot, tmp, home>>), Rel(<<tmp, home>>)}
=============================================================================
