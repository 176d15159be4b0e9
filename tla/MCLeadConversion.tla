-------------------------- MODULE MCLeadConversion --------------------------
(* A manager and a sales person at one lead, and two LEAD_CONVERTED events. *)
EXTENDS LeadConversion, TLC

CONSTANTS manager, seller

MCRoleOf == (manager :> "manager") @@ (seller :> "sales")

=============================================================================
