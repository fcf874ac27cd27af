---------------------------- MODULE MCProviderCall ----------------------------
(***************************************************************************)
(* A small instance of ProviderCall for TLC: the records that make a       *)
(* difference to each other, one pipe's worth of them at a time.           *)
(***************************************************************************)
EXTENDS ProviderCall, TLC

Record(kind, says) == [kind |-> kind, says |-> says]

\* What may go wrong with a stream, and a terminal record to end it.
StreamRecords ==
  {Record("completed", "nothing"), Record("error", "network"),
   Record("text", "authentication"), Record("failed", "authentication")}
=============================================================================
