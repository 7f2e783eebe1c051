--------------------------- MODULE MCConversions ---------------------------
(***************************************************************************)
(* Inputs for Conversions: bytes with all bits, no bits and both; the      *)
(* footer of a chain shortened to its shape, dashes around letters; fields *)
(* whose values look like the tags that are searched for.                  *)
(***************************************************************************)
EXTENDS Conversions

MCAlphabet ==
    [bytes  |-> {0, 150, 255},
     text   |-> {0, 21, 63, Other},
     chain  |-> {"-", "E", "N", "x"},
     fcp    |-> {<<128, 2, 1, 44>>, <<129, 2, 128, 2>>, <<130, 1, 65>>, <<138, 0>>, <<131, 2, 128, 129>>},
     length |-> {0, 1, 127, 128, 130, 255},
     label  |-> {" ", "A", "B"},
     pins   |-> {0, 1}]

MCMaxLen == [bytes |-> 7, text |-> 6, chain |-> 9, fcp |-> 5, length |-> 2, label |-> 6, pins |-> 10]

MCFooter == <<"-", "E", "N", "-">>
=============================================================================
