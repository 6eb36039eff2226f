-------------------------- MODULE MCCollectionPass --------------------------
(* CollectionPass for TLC: three sources, two of them on the same topic.     *)
EXTENDS CollectionPass

Shared == <<"door", "lock", "door">>
==============================================================================
