---------------------------- MODULE MCValidator ----------------------------
(* A validator of three slots with slots of three bits.                    *)
EXTENDS Validator

\* The heads from which no subtraction goes below slot 0.
LateHeads == {4, 5}
=============================================================================
