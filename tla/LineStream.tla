----------------------------- MODULE LineStream -----------------------------
(***************************************************************************)
(* What tailing a file promises, whatever the chunks, crashes and retries: *)
(* the lines taken from it are those of some prefix, each once, with its   *)
(* true place, number and bytes, and the prefix only grows.  Of a file     *)
(* that was ever truncated it promises only that lines taken stay.         *)
(***************************************************************************)
EXTENDS Naturals, Sequences

CONSTANTS
    Writes,     \* what may be appended at once
    LinesOf(_)  \* the complete lines of a byte string

VARIABLES
    content,  \* the file
    cut,      \* it was truncated
    taken     \* the lines taken from it, with their places

Init ==
    /\ content = << >>
    /\ cut = FALSE
    /\ taken = {}

Grow ==
    /\ \E w \in Writes : content' = content \o w
    /\ UNCHANGED <<cut, taken>>

Cut ==
    /\ \E n \in 0 .. Len(content) : content' = SubSeq(content, 1, n)
    /\ cut' = TRUE
    /\ UNCHANGED taken

Take ==
    /\ taken \subseteq taken'
    /\ ~cut => \E n \in 0 .. Len(content) : taken' = LinesOf(SubSeq(content, 1, n))
    /\ UNCHANGED <<content, cut>>

Next == Grow \/ Cut \/ Take

Spec == Init /\ [][Next]_<<content, cut, taken>>
=============================================================================
