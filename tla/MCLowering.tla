----------------------------- MODULE MCLowering -----------------------------
(* Words of four bits; types of one, two and four; three arguments packed. *)
EXTENDS IntegerLowering

MCWidths == {1, 2, 4}
MCPackBits == {2, 4}
MCSlots == {1, 2}
OnlyWords == {4}

=============================================================================
