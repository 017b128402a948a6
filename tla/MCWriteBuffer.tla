----------------------------- MODULE MCWriteBuffer ----------------------------
(* The empty key and one of length 2.                                        *)
EXTENDS WriteBuffer

MCKeyLen == [k \in Keys |-> IF k = "" THEN 0 ELSE 2]
===============================================================================
