------------------------------- MODULE MCLink -------------------------------
(* An instance of Link with six bits of history. *)
EXTENDS Link

MCJumps == {-10, 1, 11}

=============================================================================
