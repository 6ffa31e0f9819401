---------------------------- MODULE MCRecordStream ----------------------------
(***************************************************************************)
(* An instance of RecordStream for TLC.  Time stamps lie within the gap or *)
(* beyond it, and may go back; the counter may rise, repeat, and go back   *)
(* in all its parts, in the cached or in the uncached one; a restart may   *)
(* say nothing of its own usage; a meta record may have no time stamp or   *)
(* be another thread's.                                                    *)
(***************************************************************************)
EXTENDS RecordStream

U(input, cached) == [input |-> input, cached |-> cached]

MCRecords ==
    {Meta(2, 0), Meta(2, None), Meta(1, 0)} \cup
    {Token(at, U(1, 1), U(1, 0)) : at \in {1, 4}} \cup
    {Token(at, U(3, 2), U(1, 0)) : at \in {2, 4}} \cup
    {Token(at, U(2, 0), U(1, 0)) : at \in {2, 4}} \cup
    {Token(4, U(2, 0), None)}
=============================================================================
