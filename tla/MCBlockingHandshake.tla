-------------------------- MODULE MCBlockingHandshake --------------------------
(* BlockingHandshake against heads that take every branch.                    *)
EXTENDS BlockingHandshake, MCHeads

=============================================================================
