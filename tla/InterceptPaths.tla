--------------------------- MODULE InterceptPaths ---------------------------
(***************************************************************************)
(* The configuration of the interception libraries: which paths the        *)
(* wrappers of open and fopen hand to the runtime.                         *)
(*                                                                         *)
(* The code compares strings.  Here a path is the sequence of the names    *)
(* between its slashes, "/" being the one empty name; a trailing slash is  *)
(* an empty last name.  What the code tells apart in a name is its length  *)
(* and which names it begins with.                                         *)
(***************************************************************************)
EXTENDS Naturals, Sequences, Functions

CONSTANTS
    Names,          \* the names that paths are made of
    Empty,          \* the empty name
    NameLength,     \* name -> its length in characters
    Begins,         \* the pairs <<m, n>>: name m begins with name n
    Tmp,            \* "/tmp"
    Cwds,           \* the working directories of the program
    Listed, Opened, \* what configurations list and what programs open
    MaxEntries      \* bound: paths in a list of the configuration

Root == <<Empty>>
Path == Seq(Names) \ {<< >>}

\* What is written in a configuration or given to open.
Given == [relative : BOOLEAN, path : Path]

\* What holds of strings: "" has no characters; a prefix is no longer than the name,
\* and is the name if it is as long; of two prefixes the shorter is one of the longer.
ASSUME NameAssumption ==
    /\ Empty \in Names
    /\ NameLength \in [Names -> Nat] /\ NameLength[Empty] = 0
    /\ \A n \in Names : <<n, n>> \in Begins
    /\ \A m, n \in Names : <<m, n>> \in Begins => NameLength[n] <= NameLength[m]
    /\ \A m, n \in Names : <<m, n>> \in Begins /\ NameLength[n] = NameLength[m] => m = n
    /\ \A k, m, n \in Names :
          <<k, m>> \in Begins /\ <<k, n>> \in Begins /\ NameLength[n] <= NameLength[m]
            => <<m, n>> \in Begins
ASSUME PathAssumption == Tmp \in Path /\ Cwds \subseteq Path /\ Listed \union Opened \subseteq Given
ASSUME EntriesAssumption == MaxEntries \in Nat

VARIABLES
    state,          \* "start", "loaded", or "answered"
    path_entries_,  \* the entries in the order they are tried
    configured,     \* history: the entries as the configuration lists them
    asked, answer   \* the last path that a wrapper asked about, and the answer

vars == <<state, path_entries_, configured, asked, answer>>

PathEntry == [path : Path, do_include : BOOLEAN]
Entry(p, include) == [path |-> p, do_include |-> include]

Init ==
    /\ state = "start"
    /\ path_entries_ = << >> /\ configured = << >>
    /\ asked = Root /\ answer = FALSE

-----------------------------------------------------------------------------
\* A mistaken Absolute: a name below the working directory is cut down to the rest.
AbsoluteCuts(given, cwd) ==
    IF ~given.relative /\ Len(cwd) <= Len(given.path) /\ SubSeq(given.path, 1, Len(cwd)) = cwd
    THEN SubSeq(given.path, Len(cwd) + 1, Len(given.path)) ELSE given.path

\* filesystem::absolute: a relative name is put after the working directory, and
\* nothing is resolved.
Absolute(given, cwd) ==
    IF given.relative /\ cwd # Root THEN cwd \o given.path ELSE given.path

\* path.length(): every name and the slash before it.
length[p \in Seq(Names)] ==
    IF p = << >> THEN 0 ELSE 1 + NameLength[Head(p)] + length[Tail(p)]

\* A mistaken comparison: every name of prefix is compared as the last one is.
FindsAnyName(p, prefix) ==
    /\ Len(prefix) <= Len(p)
    /\ \A i \in 1 .. Len(prefix) : <<p[i], prefix[i]>> \in Begins

\* absolute_path.find(prefix) == 0, as strings: the last name of prefix need not
\* be the whole name in p.
FindsAtStart(p, prefix) ==
    /\ Len(prefix) <= Len(p)
    /\ \A i \in 1 .. Len(prefix) - 1 : p[i] = prefix[i]
    /\ <<p[Len(prefix)], prefix[Len(prefix)]>> \in Begins

\* A mistaken sort: the shortest path is tried first.
SortingsAscending(entries) ==
    {sorted \in {[i \in DOMAIN entries |-> entries[perm[i]]] :
                   perm \in Bijection(DOMAIN entries, DOMAIN entries)} :
        \A i, j \in DOMAIN entries : i < j => length[sorted[i].path] <= length[sorted[j].path]}

\* std::sort by descending length: entries of one length come in any order.
Sortings(entries) ==
    {sorted \in {[i \in DOMAIN entries |-> entries[perm[i]]] :
                   perm \in Bijection(DOMAIN entries, DOMAIN entries)} :
        \A i, j \in DOMAIN entries : i < j => length[sorted[i].path] >= length[sorted[j].path]}

LoadDefault ==
    /\ state = "start" /\ state' = "loaded"
    /\ path_entries_' = <<Entry(Tmp, TRUE), Entry(Root, FALSE)>>
    /\ configured' = path_entries_'
    /\ UNCHANGED <<asked, answer>>

\* The includes and then the excludes, made absolute, and sorted.
ParseYAML(include, exclude, cwd) ==
    /\ state = "start" /\ state' = "loaded"
    /\ configured' = [i \in DOMAIN include |-> Entry(Absolute(include[i], cwd), TRUE)]
                  \o [i \in DOMAIN exclude |-> Entry(Absolute(exclude[i], cwd), FALSE)]
    /\ path_entries_' \in Sortings(configured')
    /\ UNCHANGED <<asked, answer>>

\* The first entry that the path starts with decides; without one it is FALSE.
ShouldIntercept(given, cwd) ==
    /\ state # "start" /\ state' = "answered"
    /\ asked' = Absolute(given, cwd)
    /\ LET hits == {i \in DOMAIN path_entries_ : FindsAtStart(asked', path_entries_[i].path)}
       IN  answer' = \E i \in hits : /\ \A j \in hits : i <= j
                                     /\ path_entries_[i].do_include
    /\ UNCHANGED <<path_entries_, configured>>

-----------------------------------------------------------------------------
Lists == UNION {[1 .. n -> Listed] : n \in 0 .. MaxEntries}

Next ==
    \/ LoadDefault
    \/ \E include, exclude \in Lists, cwd \in Cwds : ParseYAML(include, exclude, cwd)
    \/ \E given \in Opened, cwd \in Cwds : ShouldIntercept(given, cwd)

Spec == Init /\ [][Next]_vars

-----------------------------------------------------------------------------
\* Properties.

\* The entries, the configuration and the last question have their types.
TypeOK ==
    /\ state \in {"start", "loaded", "answered"}
    /\ path_entries_ \in Seq(PathEntry)
    /\ configured \in Seq(PathEntry)
    /\ asked \in Path
    /\ answer \in BOOLEAN

\* The configured entries that p starts with.
Matching(p) == {i \in DOMAIN configured : FindsAtStart(p, configured[i].path)}

\* Of the entries that a path starts with, however they were listed, one of the
\* longest has decided ("Sort by descending path length to ensure longest
\* matches are checked first"), and without any it is not intercepted.
LongestMatchDecides ==
    state = "answered" =>
        \/ Matching(asked) = {} /\ answer = FALSE
        \/ \E i \in Matching(asked) :
              /\ answer = configured[i].do_include
              /\ \A j \in Matching(asked) :
                   length[configured[j].path] <= length[configured[i].path]

\* A tie between matches is only ever between two entries of the same path: what
\* the sort leaves open matters for nothing but a path that is both included and
\* excluded.
TiesAreOfOnePath ==
    \A i, j \in Matching(asked) :
        length[configured[i].path] = length[configured[j].path]
          => configured[i].path = configured[j].path
=============================================================================
