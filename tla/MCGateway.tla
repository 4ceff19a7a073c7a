----------------------------- MODULE MCGateway -----------------------------
(***************************************************************************)
(* Instances of Gateway for TLC: what the model may ask for.               *)
(***************************************************************************)
EXTENDS Gateway

safe == [tool |-> "read_file", risk |-> "safe", irreversible |-> FALSE, blocked |-> FALSE]
shell == [tool |-> "run_shell", risk |-> "danger", irreversible |-> FALSE, blocked |-> FALSE]
curl == [tool |-> "run_shell", risk |-> "danger", irreversible |-> FALSE, blocked |-> TRUE]

Answers == {<<>>, <<safe, shell>>, <<curl>>}
=============================================================================
