------------------------ MODULE MCContractSignature ------------------------
(* One manager at a contract that is under review, with its document       *)
(* attached; an update carries metadata, or another document and another   *)
(* signing_platform.                                                       *)
EXTENDS ContractSignature

CONSTANTS d1, d2, docusign, other

MCRoleOf == [e \in Editors |-> "manager"]

MCPlatforms == {docusign, other}

MCContents == {[doc |-> None, meta |-> TRUE, platform |-> None],
               [doc |-> d2, meta |-> FALSE, platform |-> other]}

=============================================================================
