----------------------------- MODULE DriverTables -----------------------------
(***************************************************************************)
(* The two tables of paths that the driver keeps: the watch roots of        *)
(* src/src/knFcFlt/knFcConfig.cpp and the exclude patterns of               *)
(* src/src/knFcFlt/knFcExclude.cpp, with the tests made against them.  A     *)
(* path is a sequence of characters; the code's comparisons fold case.      *)
(***************************************************************************)
EXTENDS Naturals, Sequences

CONSTANTS
    Upcase,         \* the system's case folding: a function on characters
    Sep,            \* the path separator
    Dot             \* the first character of an extension pattern

\* RtlEqualUnicodeString, ignoring case.
EqualCi(a, b) ==
    /\ Len(a) = Len(b)
    /\ \A k \in 1 .. Len(a) : Upcase[a[k]] = Upcase[b[k]]

\* RtlPrefixUnicodeString, ignoring case.
PrefixCi(a, b) == Len(a) <= Len(b) /\ EqualCi(a, SubSeq(b, 1, Len(a)))

\* knFcSuffixCi.
SuffixCi(hay, needle) ==
    /\ Len(needle) <= Len(hay)
    /\ EqualCi(SubSeq(hay, Len(hay) - Len(needle) + 1, Len(hay)), needle)

\* knFcSubstringCi.
SubstringCi(hay, needle) ==
    /\ Len(needle) <= Len(hay)
    /\ \E i \in 0 .. Len(hay) - Len(needle) :
          EqualCi(SubSeq(hay, i + 1, i + Len(needle)), needle)

\* The body of the loop of knFcConfigPathStartsWithAnyRoot: the root is a
\* prefix, and the path goes on at a boundary.
RootMatches(root, path) ==
    /\ root # << >>
    /\ PrefixCi(root, path)
    /\ \/ root[Len(root)] = Sep
       \/ Len(path) = Len(root)
       \/ path[Len(root) + 1] = Sep

StartsWithAnyRoot(roots, path) ==
    /\ path # << >>
    /\ \E k \in 1 .. Len(roots) : RootMatches(roots[k], path)

\* knFcExcludeMatches: patterns that begin with a dot are suffixes, others may
\* stand anywhere in the path.
Excluded(patterns, path) ==
    /\ path # << >>
    /\ \E k \in 1 .. Len(patterns) :
          IF patterns[k][1] = Dot THEN SuffixCi(path, patterns[k])
                                  ELSE SubstringCi(path, patterns[k])

Accepts_Bug(table, item, cap, chars, memory) ==     \* no cap
    item # << >> /\ Len(item) <= chars /\ memory

\* What knFcConfigAddRoot and knFcExcludeAdd test before they append a copy: the
\* item is not empty nor longer than the table takes, there is memory for the
\* copy, and the table has a place.
Accepts(table, item, cap, chars, memory) ==
    item # << >> /\ Len(item) <= chars /\ memory /\ Len(table) < cap
=============================================================================
