------------------------- MODULE MCRigelExpandPseudo -------------------------
(***************************************************************************)
(* Model values for RigelExpandPseudo.  The implicit operands a MOVi32imm *)
(* may carry in the run are none, a killed implicit use of register 0     *)
(* (which is also the Dst of half the pseudos), or a dead implicit def of *)
(* register 1.                                                            *)
(***************************************************************************)
EXTENDS RigelExpandPseudo

\* -1 sets every bit; 6 and 9 differ in both halves and in the top bit of
\* the low half.
MCImms == {-1, 6, 9}

MCImpChoices ==
  { {},
    {[reg |-> 0, use |-> TRUE, flag |-> TRUE]},
    {[reg |-> 1, use |-> FALSE, flag |-> TRUE]} }
=============================================================================
