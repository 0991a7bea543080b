--------------------------- MODULE MCAsyncHandshake ---------------------------
(* AsyncHandshake against heads that take every branch.                       *)
EXTENDS AsyncHandshake, MCHeads

=============================================================================
