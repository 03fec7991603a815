-------------------------- MODULE MCParquetStore --------------------------
(* ParquetStore for TLC: schema versions "v.1" and "v/1" share the tokens   *)
(* v 1, and "v" with the checksum "1" shares them too.                      *)
EXTENDS ParquetStore

Dot == [text |-> "v.1", token |-> <<"v", "1">>]
Slash == [text |-> "v/1", token |-> <<"v", "1">>]
Short == [text |-> "v", token |-> <<"v">>]
One == [text |-> "1", token |-> <<"1">>]

MCSchemaVersions == {Dot, Slash, Short}
MCChecksums == {One}

MCWritten ==
  { [stream |-> "a", schema |-> Dot, checksum |-> NoChecksum],
    [stream |-> "a", schema |-> Slash, checksum |-> NoChecksum],
    [stream |-> "a", schema |-> Short, checksum |-> One],
    [stream |-> "b", schema |-> Dot, checksum |-> NoChecksum] }

A == [stream |-> "a", schema |-> Dot, checksum |-> NoChecksum]

MCAsked ==
  { FragmentFromMetadata(A),
    FragmentFromMetadata([A EXCEPT !.schema = Short, !.checksum = One]),
    [FragmentFromMetadata(A) EXCEPT !.stream = "b"] }

MCBatches ==
  { <<>>, <<"trades", "trades">>, <<"trades", "archive">>, <<"null">> }
=============================================================================
