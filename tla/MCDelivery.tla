----------------------------- MODULE MCDelivery -----------------------------
(* An image, an audio artifact and the answer's text; or an audio artifact   *)
(* and a file.                                                               *)
EXTENDS Delivery

MCItems == {1, 2, 3}
MCKindOf == <<"image", "audio", "text">>

MCMediaItems == {1, 2}
MCMediaOf == [d \in MCMediaItems |-> IF d = 1 THEN "audio" ELSE "file"]
=============================================================================
