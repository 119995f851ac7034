-------------------------- MODULE MCAsyncLogWriter --------------------------
(* Instances of AsyncLogWriter for TLC. *)
EXTENDS AsyncLogWriter

\* every id is new, or one of them is a duplicate in the middle of a batch
MCNone == {}
MCOneStored == {3}
==============================================================================
