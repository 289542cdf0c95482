----------------------------- MODULE MCHistory -----------------------------
(***************************************************************************)
(* History with a small message, one with a secret, one that is over the   *)
(* message limit and one that is too, but cannot be encoded; the budget    *)
(* holds two or three records.                                             *)
(***************************************************************************)
EXTENDS History

Message(json, bytes, secret) ==
  [json |-> json, encodes |-> TRUE, bytes |-> bytes, secret |-> secret]

MCMarker == Message(1, 1, FALSE)
Small    == Message(2, 2, FALSE)
Masked   == Message(3, 3, FALSE)
Secret   == Message(2, 4, TRUE)
Long     == Message(9, 9, FALSE)
\* Over the message limit only because the mask is longer than the secret.
Padded   == Message(4, 4, TRUE)
LongMask == Message(6, 5, FALSE)
\* A list of NaN that is as long.
NaNs     == [Long EXCEPT !.encodes = FALSE]

MCMessages == {MCMarker, Small, Masked, Secret, Long, Padded, LongMask, NaNs}

MCPayloads == {Small, Secret, Long, Padded, NaNs}

MCRedacted == [m \in MCMessages |->
  IF m = Secret THEN Masked ELSE IF m = Padded THEN LongMask ELSE m]
=============================================================================
