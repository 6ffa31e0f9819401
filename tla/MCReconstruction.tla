--------------------------- MODULE MCReconstruction ---------------------------
(***************************************************************************)
(* An instance of Reconstruction for TLC: thread 2 was spawned by thread 1 *)
(* and begins with a copy of it.  In one choice of contents the counter    *)
(* goes back, in another a record is beyond the limit.  The third file,    *)
(* which may take either path, serves thread 1.                            *)
(***************************************************************************)
EXTENDS Reconstruction, TLC

CONSTANTS f, g, h

U(input, cached) == [input |-> input, cached |-> cached]

Parent == <<Meta(1, 0), Token(1, U(1, 0), None)>>
Child  == <<Meta(2, 5), Token(5, U(1, 0), None), Token(8, U(3, 1), None)>>
Spare  == <<Meta(1, 6), Token(7, U(1, 0), None)>>

\* The cached part of the counter goes back between two chunks.
ParentReset == <<Meta(1, 0), Token(1, U(2, 1), None), Token(4, U(2, 0), U(1, 0))>>

ChildOversized == <<Meta(2, 5), Oversized>>

MCContents ==
    {(f :> Parent @@ g :> Child @@ h :> Spare),
     (f :> ParentReset @@ g :> ChildOversized @@ h :> Spare)}

MCWritten == (f :> 2 @@ g :> 2 @@ h :> 0)

MCStarts == {(1 :> f @@ 2 :> g)}
=============================================================================
