--------------------------- MODULE MCRequestChain ---------------------------
(***************************************************************************)
(* TLC instance of RequestChain: two members of different groups.          *)
(***************************************************************************)
EXTENDS RequestChain

TwoGroups == <<"g", "h">>
=============================================================================
