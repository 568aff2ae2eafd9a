---------------------------- MODULE MCIoResource ----------------------------
(* The instance of IoResource that TLC checks. *)
EXTENDS IoResource

MCQuota == [dma_pages |-> 3, dma_mappings |-> 2, outstanding_requests |-> 1, buffer_loans |-> 2]

=============================================================================
