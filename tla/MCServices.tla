------------------------------ MODULE MCServices ------------------------------
(***************************************************************************)
(* One model-checking instance of the parts of the server around the       *)
(* allocators.  They share no state, so a behaviour is a behaviour of one  *)
(* of them: part says of which, and the variables of the others stay as    *)
(* they began.  The state graph is the disjoint union of theirs.           *)
(***************************************************************************)
EXTENDS Enrollment, Notices, TaskNotes, FeishuIngress, GroupPanel, AppCredentials, DisplayNames,
        AuditDelegation, Polling, Budgets, Traffic, Broadcast, PersonalPanel, TLC

CONSTANTS x1, x2  \* the two actors of a part, where it has two that are alike
VARIABLE part

Twins == Permutations({x1, x2})

Parts == {"enrollment", "notices", "task notes", "ingress", "group panel", "app credentials",
          "display names", "audit", "polling", "budgets", "traffic", "broadcast", "personal panel"}

\* An order of the bot to leave the group and one to come back, in the same second.
LeaveAndReturn == {[id |-> 1, time |-> 1, removed |-> TRUE], [id |-> 2, time |-> 1, removed |-> FALSE]}

\* Each part begins in any of its initial states; the others begin in one.
Init ==
    /\ part \in Parts
    /\ EnrollInit /\ (part # "enrollment" => /\ \A c \in Codes : pending[c] = "unused"
                                             /\ \A b \in AuthBots : ~botRow[b].deleted)
    /\ NoticeInit /\ NoteInit /\ PollingInit /\ TrafficInit /\ BroadcastInit /\ AuditDelegationInit
    /\ IngressInit /\ (part # "ingress" => \A c \in Chats : route[c] = NoBot)
    /\ GroupPanelInit /\ (part # "group panel" => scope = 0)
    /\ AppCredentialsInit /\ (part # "app credentials" => registry = NoEntry(0))
    /\ DisplayNamesInit /\ (part # "display names" => \A u \in NamedActors : label[u] = "none")
    /\ BudgetsInit /\ (part # "budgets" => kind = "tier")
    /\ PersonalPanelInit /\ (part # "personal panel" => \A k, l \in Tickets : named[k] = named[l] /\ named[k] = CHOOSE b \in Bindings : TRUE)

Next ==
    /\ UNCHANGED part
    /\ IF part = "enrollment" THEN EnrollNext ELSE UNCHANGED enrollVars
    /\ IF part = "notices" THEN NoticeNext ELSE UNCHANGED noticeVars
    /\ IF part = "task notes" THEN NoteNext ELSE UNCHANGED noteVars
    /\ IF part = "ingress" THEN IngressNext ELSE UNCHANGED ingressVars
    /\ IF part = "group panel" THEN GroupPanelNext ELSE UNCHANGED gpVars
    /\ IF part = "app credentials" THEN AppCredentialsNext ELSE UNCHANGED acVars
    /\ IF part = "display names" THEN DisplayNamesNext ELSE UNCHANGED dnVars
    /\ IF part = "audit" THEN AuditDelegationNext ELSE UNCHANGED adVars
    /\ IF part = "polling" THEN PollingNext ELSE UNCHANGED pollingVars
    /\ IF part = "budgets" THEN BudgetsNext ELSE UNCHANGED budgetVars
    /\ IF part = "traffic" THEN TrafficNext ELSE UNCHANGED trafficVars
    /\ IF part = "broadcast" THEN BroadcastNext ELSE UNCHANGED broadcastVars
    /\ IF part = "personal panel" THEN PersonalPanelNext ELSE UNCHANGED personalVars

vars == <<part, enrollVars, noticeVars, noteVars, ingressVars, gpVars, acVars, dnVars, adVars,
          pollingVars, budgetVars, trafficVars, broadcastVars, personalVars>>

Spec == Init /\ [][Next]_vars

ServicesTypeOK ==
    /\ EnrollTypeOK /\ NoticeTypeOK /\ NoteTypeOK /\ IngressTypeOK /\ GroupPanelTypeOK
    /\ AppCredentialsTypeOK /\ DisplayNamesTypeOK /\ AuditDelegationTypeOK /\ PollingTypeOK
    /\ BudgetsTypeOK /\ TrafficTypeOK /\ BroadcastTypeOK /\ PersonalPanelTypeOK
=============================================================================
