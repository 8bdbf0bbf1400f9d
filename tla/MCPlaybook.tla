----------------------------- MODULE MCPlaybook -----------------------------
(* Three playbooks that share the name of a gate, two of them the id.       *)
EXTENDS Playbook

MCPlaybooks == {"lead", "other", "refund"}
MCPlaybookId == [lead |-> <<"lead">>, other |-> <<"lead">>, refund |-> <<"refund">>]
MCSteps == [lead |-> <<[id |-> <<"draft">>, gate |-> FALSE], [id |-> <<"sign">>, gate |-> TRUE],
                       [id |-> <<"send">>, gate |-> FALSE]>>,
            other |-> <<[id |-> <<"sign">>, gate |-> TRUE]>>,
            refund |-> <<[id |-> <<"sign">>, gate |-> TRUE]>>]
=============================================================================
