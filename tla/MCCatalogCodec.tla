--------------------------- MODULE MCCatalogCodec ---------------------------
(* TLC instances of CatalogCodec: names of one or two letters.  16 + 1 + 16  *)
(* exceeds MAX_VALUE = 32 as 2 + 1 + 2 exceeds 4.                            *)
EXTENDS CatalogCodec

Short == <<"A">>
Long == <<"A", "B">>
OneAndTwo == {Short, Long}
Three == <<"A", "B", "C">>
OneAndThree == {Short, Three}
OneTable == {Short}
=============================================================================
