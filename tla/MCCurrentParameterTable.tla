----------------------- MODULE MCCurrentParameterTable -----------------------
(* Two contracts; a wide book, one that lies below and one above, and one    *)
(* with an empty column.                                                     *)
EXTENDS CurrentParameterTable, TLC
CONSTANTS c1, c2

MCBooks == {<<1, 3>>, <<1, 2>>, <<2, 3>>, <<1, None>>}

ContractSymmetry == Permutations(Codes)
=============================================================================
