--------------------------- MODULE LeadConversion ---------------------------
(***************************************************************************)
(* A lead of the CRM and its conversion into a client: LeadsService        *)
(* (modules/leads/leads.service.ts), LEADS_WORKFLOW and LeadEventsHandler. *)
(*                                                                         *)
(* Closing a lead emits LEAD_CONVERTED after the write and before the      *)
(* commit.  The event is handled later, on another connection, in one      *)
(* transaction: it takes the advisory lock of the lead, looks for a client *)
(* already linked, inserts one, and writes the link and the status into    *)
(* the lead.  Any error in it undoes all of it, and nobody tries again.    *)
(***************************************************************************)
EXTENDS StatusWorkflow, Naturals, FiniteSets

CONSTANTS Events,    \* the LEAD_CONVERTED events; a bound on how many are emitted
          MaxLost    \* bound: conversions that fail or die with their process

VARIABLES event,     \* event[v]: how far the handling of v has got
          linked,    \* linked: leads.client_id, the event that created the client
          clients,   \* events that left a client behind
          lost

vars == <<workflowVars, event, linked, clients, lost>>

-----------------------------------------------------------------------------
(* The roles of the table in two classes: those that may also reactivate   *)
(* and archive, and the sales roles.                                       *)
LeadManagers == {"manager"}
LeadTeam     == LeadManagers \cup {"sales"}

LeadStatuses == {"new", "contacted", "in_contact", "qualified", "proposal",
                 "negotiation", "closed", "lost", "inactive"}

LeadEdge(from, to, roles) == [from |-> from, to |-> to, roles |-> roles]

LEADS_WORKFLOW ==
  {LeadEdge({"new"}, "contacted", LeadTeam),
   LeadEdge({"new", "contacted"}, "in_contact", LeadTeam),
   LeadEdge({"contacted", "in_contact"}, "qualified", LeadTeam),
   LeadEdge({"qualified"}, "proposal", LeadTeam),
   LeadEdge({"proposal"}, "negotiation", LeadTeam),
   LeadEdge({"proposal", "negotiation"}, "closed", LeadTeam),
   LeadEdge(LeadStatuses \ {"closed", "lost", "inactive"}, "lost", LeadTeam),
   LeadEdge({"lost", "inactive"}, "new", LeadManagers),
   LeadEdge({"closed", "lost"}, "inactive", LeadManagers)}

ASSUME LeadAssumption ==
  /\ Statuses = LeadStatuses /\ Edges = LEADS_WORKFLOW
  /\ None \notin Events /\ MaxLost \in Nat

Handling == {"none", "queued", "converting", "done"}

TypeOK ==
  /\ WorkflowTypeOK
  /\ event \in [Events -> Handling]
  /\ linked \in Events \cup {None}
  /\ clients \subseteq Events
  /\ lost \in 0..MaxLost
  \* whoever left a client has been handled to the end
  /\ \A v \in clients : event[v] = "done"
  /\ linked # None => linked \in clients

Init ==
  /\ WorkflowInit({"new"})
  /\ event = [v \in Events |-> "none"]
  /\ linked = None /\ clients = {}
  /\ lost = 0

conversion == <<event, linked, clients, lost>>

-----------------------------------------------------------------------------
(* The requests.                                                           *)

Unused == {v \in Events : event[v] = "none"}
Closing == {e \in Editors : edit[e].pc = "validated" /\ edit[e].to = "closed"}

OpenLead(e) == Load(e) /\ UNCHANGED conversion

SubmitLead(e, versioned, to) ==
  /\ Submit(e, versioned, to)
  \* bound: there is an event for every request that may emit one
  /\ to = "closed" => Cardinality(Closing) < Cardinality(Unused)
  /\ UNCHANGED conversion

RefuseLead(e) == Refuse(e) /\ UNCHANGED conversion

\* mutant: the other edge into "closed" is forgotten
EmitsFromNegotiation(e) == edit[e].to = "closed" /\ edit[e].from = "negotiation"
EmitsConversion(e) == edit[e].to = "closed"

\* The event leaves as soon as the row is written, whatever becomes of the commit.
WriteLead(e) ==
  /\ Write(e)
  /\ IF EmitsConversion(e)
     THEN \E v \in Unused : event' = [event EXCEPT ![v] = "queued"]
     ELSE event' = event
  /\ UNCHANGED <<linked, clients, lost>>

CommitLead(e) == Commit(e) /\ UNCHANGED conversion
RollBackLead(e) == RollBack(e) /\ UNCHANGED conversion

StartRemoveLead == StartRemoval /\ UNCHANGED conversion
\* LeadsService.remove writes deleted_at whether or not it is there already.
RemoveLead == WriteRemoval /\ UNCHANGED conversion
CommitRemoveLead == CommitRemoval /\ UNCHANGED conversion
RollBackRemoveLead == RollBackRemoval /\ UNCHANGED conversion

Removal == StartRemoveLead \/ RemoveLead \/ CommitRemoveLead \/ RollBackRemoveLead

-----------------------------------------------------------------------------
(* The handler of LEAD_CONVERTED.                                          *)

NoAdvisoryLock == TRUE              \* mutant: nothing serialises the handlers
\* pg_advisory_xact_lock: one conversion of the lead at a time
AdvisoryLockFree == \A v \in Events : event[v] # "converting"

NeverConverted == FALSE             \* mutant: client_id is not looked at
AlreadyConverted == linked # None

BeginConversion(v) ==
  /\ event[v] = "queued" /\ AdvisoryLockFree
  /\ event' = [event EXCEPT ![v] = IF AlreadyConverted THEN "done" ELSE "converting"]
  /\ UNCHANGED <<workflowVars, linked, clients, lost>>

\* mutant: the client is committed first and the update of the lead left out
FinishUnlinked(v) ==
  /\ event[v] = "converting" /\ RowUnlocked
  /\ event' = [event EXCEPT ![v] = "done"]
  /\ clients' = clients \cup {v}
  /\ UNCHANGED <<workflowVars, linked, lost>>

\* mutant: the update of the lead leaves updated_at alone
FinishUntouched(v) ==
  /\ event[v] = "converting" /\ RowUnlocked
  /\ status' = "closed"
  /\ event' = [event EXCEPT ![v] = "done"]
  /\ linked' = v /\ clients' = clients \cup {v}
  /\ UNCHANGED <<deleted, holder, edit, removing, lost>>

\* The update of the lead waits for its row, and looks at neither the status
\* nor deleted_at; the client, the link and the artist are committed together.
FinishConversion(v) ==
  /\ event[v] = "converting"
  /\ OtherWrite("closed")
  /\ event' = [event EXCEPT ![v] = "done"]
  /\ linked' = v /\ clients' = clients \cup {v}
  /\ UNCHANGED lost

\* A statement fails, or the process dies with the event.
LoseConversion(v) ==
  /\ event[v] \in {"queued", "converting"} /\ lost < MaxLost
  /\ event' = [event EXCEPT ![v] = "done"]
  /\ lost' = lost + 1
  /\ UNCHANGED <<workflowVars, linked, clients>>

-----------------------------------------------------------------------------
Request(e) ==
  \/ OpenLead(e)
  \/ \E versioned \in BOOLEAN, to \in Statuses \cup {None} : SubmitLead(e, versioned, to)
  \/ RefuseLead(e) \/ WriteLead(e) \/ CommitLead(e) \/ RollBackLead(e)

Handler(v) == BeginConversion(v) \/ FinishConversion(v) \/ LoseConversion(v)

Next ==
  \/ \E e \in Editors : Request(e)
  \/ Removal
  \/ \E v \in Events : Handler(v)

Spec == Init /\ [][Next]_vars

(* A row that is locked is let go, and a handler runs to its end.  Those   *)
(* that wait for the row are served in turn by the database, hence strong  *)
(* fairness where a handler needs it: people may keep editing.  Nothing    *)
(* obliges a person to send a request.                                     *)
Fairness ==
  /\ WF_vars(\/ \E e \in Editors : CommitLead(e) \/ RollBackLead(e)
             \/ CommitRemoveLead \/ RollBackRemoveLead)
  /\ WF_vars(\E v \in Events : BeginConversion(v))
  /\ SF_vars(\E v \in Events : FinishConversion(v))

FairSpec == Spec /\ Fairness

-----------------------------------------------------------------------------
(* However a lead comes to be closed more than once (closed again after it *)
(* was archived and reactivated, or by two requests at the same time), it  *)
(* becomes one client: the lock and the look at client_id in               *)
(* LeadEventsHandler.onLeadConverted.                                      *)
OneClientPerLead == Cardinality(clients) <= 1

(* No client is left that the lead does not name.                          *)
ClientsAreLinked == clients \subseteq {linked}

(* A request that says which version it saw moves the lead along an edge   *)
(* of the workflow that its role may use, from the status the lead has at  *)
(* that moment, whoever wrote in between: the version and the history      *)
(* entry are in one transaction with the write (LeadsService.update).      *)
MovesAlongWorkflow ==
  [][\A e \in Editors : holder = e /\ edit[e].versioned /\ status' # status =>
       Permitted(status, status', RoleOf[e])]_vars

(* A lead that is closed gets its client, unless the conversion was lost:  *)
(* no request and no other handler can hold it up forever.                 *)
ClosedLeadBecomesClient ==
  [](status = "closed" => <>(linked # None \/ lost > 0))

=============================================================================
