-------------------------------- MODULE Path --------------------------------
(***************************************************************************)
(* Paths (core/filesystem/Path.cpp, Path.h) and create_directory()         *)
(* (core/filesystem/filesystem.cpp).  A string is the sequence of its      *)
(* segments, what stands between the separators: "/a/b" is <<"", "a",      *)
(* "b">>, "a/" is <<"a", "">> and the empty string is <<"">>.              *)
(***************************************************************************)
EXTENDS Naturals, SequencesExt

CONSTANTS
    Strings,    \* the strings that paths are made of
    Names       \* the names that are appended to a path

VARIABLES
    p,          \* Path::p
    given,      \* history: the string that p was constructed from, <<>> if p changed since
    dirs,       \* the directories that exist
    made        \* history: the last create_directory(): its path and what it returned

vars == <<p, given, dirs, made>>

Root == <<"", "">>
CurrentDir == <<".">>

IsAbsolute(s) == Len(s) > 1 /\ s[1] = ""
IsEmpty(s) == s = <<"">>

\* A segment that holds a dot, and a segment without its first character.
Dotted == {".", "..", "b.c", ".c"}
Beheaded(seg) ==
    CASE seg = ".." -> "." [] seg = "b.c" -> ".c" [] seg = ".c" -> "c" [] OTHER -> ""

RemoveEndingSeparator(s) ==
    IF s # Root /\ Len(s) > 1 /\ Last(s) = "" THEN Front(s) ELSE s

\* append(): nothing is put between p and a path that begins with a separator.
Appended(s, t) ==
    RemoveEndingSeparator(IF IsEmpty(s) THEN t
                          ELSE s \o (IF IsAbsolute(t) THEN Tail(t) ELSE t))

\* The parts that resolve() finds: it looks for separators and takes what
\* stands between them, without "."; the last part starts behind the first
\* character of what is left.
Parts(s) ==
    LET nonEmpty(seg) == IF seg = "" THEN <<>> ELSE <<seg>>
    IN  IF Len(s) = 1 THEN nonEmpty(Beheaded(s[1]))
        ELSE (IF s[1] = "." THEN <<>> ELSE nonEmpty(s[1]))
             \o SelectSeq(SubSeq(s, 2, Len(s) - 1), LAMBDA seg : seg # ".")
             \o nonEmpty(Last(s))

\* Mutant of WithoutDots: ".." is dropped and nothing with it.
WithoutDotsOnly(parts) == SelectSeq(parts, LAMBDA part : part # "..")

\* Every ".." takes away the part before it, if there is one.
WithoutDots(parts) ==
    FoldLeft(LAMBDA kept, part :
                 IF part # ".." THEN Append(kept, part)
                 ELSE IF kept = <<>> THEN kept ELSE Front(kept),
             <<>>, parts)

\* resolve()
Resolved(s) ==
    LET joined == FoldLeft(LAMBDA path, part : Appended(path, <<part>>), <<"">>, WithoutDots(Parts(s)))
        again == IF \E i \in 1..Len(s) : s[i] \in Dotted
                 THEN IF IsAbsolute(s) /\ ~IsAbsolute(joined) THEN <<"">> \o joined ELSE joined
                 ELSE s
    IN  IF IsEmpty(again) THEN CurrentDir ELSE again

\* Path(const char*)
Constructed(s) == Resolved(RemoveEndingSeparator(s))

\* parent(): up to the last separator, which the constructor removes.
Parent(s) ==
    IF s = Root \/ Len(s) = 1 THEN CurrentDir ELSE Constructed(Front(s) \o <<"">>)

HasParent(s) == Parent(s) # CurrentDir

\* is_parent_of(): with a separator behind both, one string begins with the other.
IsParentOf(s, child) == IsAbsolute(s) /\ s # child /\ IsPrefix(s, child)

-----------------------------------------------------------------------------
(* create_directory()                                                        *)

\* The stack: the path and its parents, as long as these have a parent.
Pending(s) ==
    LET up[n \in 0..Len(s)] == IF n = 0 THEN s ELSE Parent(up[n - 1])
        depth == {n \in 0..Len(s) : \A k \in 1..n : HasParent(up[k])}
    IN  [i \in 1..Cardinality(depth) |-> up[i - 1]]

\* mkdir() and stat() of the platform: a directory can be made in one that exists.
Exists(s, existing) == s \in {Root, CurrentDir} \cup existing
Container(s) ==
    IF Len(s) = 1 THEN CurrentDir ELSE IF Len(s) = 2 /\ s[1] = "" THEN Root ELSE Front(s)

\* The stack from its top: the first failure ends it.
MakeAll(stack, existing) ==
    FoldLeft(LAMBDA r, s :
                 IF ~r.ok \/ Exists(s, r.dirs) THEN r
                 ELSE IF Exists(Container(s), r.dirs) THEN [r EXCEPT !.dirs = @ \cup {s}]
                 ELSE [r EXCEPT !.ok = FALSE],
             [dirs |-> existing, ok |-> TRUE], Reverse(stack))

-----------------------------------------------------------------------------
Init == p = <<"">> /\ given = <<>> /\ dirs = {} /\ made = <<>>

Construct(s) ==
    /\ IsEmpty(p)
    /\ p' = Constructed(s)
    /\ given' = s
    /\ UNCHANGED <<dirs, made>>

\* operator/=, of a path that is not longer than the strings.
AppendName(n) ==
    /\ Len(p) < 4
    /\ p' = Appended(p, <<n>>)
    /\ given' = <<>>
    /\ UNCHANGED <<dirs, made>>

GoUp ==
    /\ p' = Parent(p)
    /\ given' = <<>>
    /\ UNCHANGED <<dirs, made>>

\* Only for a path as the constructor leaves it, and for the first directories.
CreateDirectory ==
    /\ given # <<>>
    /\ dirs = {}
    /\ LET result == MakeAll(Pending(p), dirs)
       IN  dirs' = result.dirs /\ made' = <<p, result.ok>>
    /\ UNCHANGED <<p, given>>

\* The path goes out of scope; the next one looks at another disk.
Destruct == p' = <<"">> /\ given' = <<>> /\ dirs' = {} /\ made' = <<>>

Next ==
    \/ \E s \in Strings : Construct(s)
    \/ \E n \in Names : AppendName(n)
    \/ GoUp \/ CreateDirectory \/ Destruct

Spec == Init /\ [][Next]_vars

-----------------------------------------------------------------------------
(* Properties.                                                             *)

\* The strings that the class is made for: no separator follows another, no "."
\* stands at the end, and a relative path of a single name has no dot in it.
Tidy(string) ==
    LET s == RemoveEndingSeparator(string)
    IN  /\ \A i \in 2..Len(s) : s[i] # "" \/ s = Root
        /\ Len(s) > 1 => Last(s) # "."
        /\ Len(s) = 1 => s[1] \notin {"b.c", ".c"}

\* A segment stays when no ".." behind it, taken with the names in between,
\* cancels it.
Stays(s, i) ==
    LET count(Which(_), j) == Cardinality({k \in i..j : Which(s[k])})
        isName(seg) == seg \notin {"", ".", ".."}
        isUp(seg) == seg = ".."
    IN  isName(s[i]) /\ \A j \in i..Len(s) : count(isName, j) > count(isUp, j)

\* The path that a string means, without looking at how resolve() works.
Meaning(s) ==
    LET staying == {i \in 1..Len(s) : Stays(s, i)}
        names == [k \in 1..Cardinality(staying) |->
                    s[CHOOSE i \in staying : Cardinality({j \in staying : j < i}) = k - 1]]
    IN  IF IsAbsolute(s) THEN <<"">> \o (IF names = <<>> THEN <<"">> ELSE names)
        ELSE IF names = <<>> THEN CurrentDir ELSE names

\* resolve() splits, pops and joins strings in place; whatever mixture of ".",
\* ".." and names it is given, the result is the path that is meant.
ResolvesToMeaning == (given # <<>> /\ Tidy(given)) => p = Meaning(given)

\* What is appended to a path and resolved is below the path, and parent() leads
\* back: parent(), append(), the constructor and is_parent_of() agree.
ParentOfChild ==
    (given # <<>> /\ Tidy(given) /\ Tidy(p)) =>
        \A n \in Names :
            LET child == Constructed(Appended(p, <<n>>))
            IN  /\ Parent(Appended(p, <<n>>)) = p
                /\ (IsAbsolute(p) /\ p # Root) => IsParentOf(p, child)
                /\ ~IsParentOf(child, p)

\* create_directory() makes all directories on the way to an absolute path, and
\* says that it did only if it did.
DirectoryIsMade ==
    (made # <<>> /\ Tidy(given)) =>
        /\ made[2] => Exists(made[1], dirs)
        /\ IsAbsolute(made[1]) => made[2]

\* The three together: what a path means, how paths are built and taken apart,
\* and what is made of them on the disk.
PathsAgree == ResolvesToMeaning /\ ParentOfChild /\ DirectoryIsMade
=============================================================================
