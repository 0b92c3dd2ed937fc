----------------------------- MODULE MCStoredBytes -----------------------------
(* Instances of StoredBytes for TLC. *)
EXTENDS StoredBytes

MCSchema == <<"text", "fixed">>
MCNames == <<<<>>, <<1>>>>
MCBatchMagic == <<3, 4>>
MCTexts == {<<>>, <<1>>}
MCVectors == {<<>>, <<1, 0>>}
=============================================================================
