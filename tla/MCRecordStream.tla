---------------------------- MODULE MCRecordStream ----------------------------
(* A small instance of RecordStream for TLC: MaxRecords bounds the copies of *)
(* answers, without which the stream grows for ever.                         *)
EXTENDS RecordStream

CONSTANT MaxRecords

MCNext == Next /\ Len(stream') <= MaxRecords

MCSpec == Init /\ [][MCNext]_streamVars
=============================================================================
