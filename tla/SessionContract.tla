-------------------------- MODULE SessionContract --------------------------
(***************************************************************************)
(* What a session promises its user and its operator, without pumps,       *)
(* tables or queues: a command gets at most one result, and only once it   *)
(* was sent; whatever the user is told lies within the policy by the       *)
(* registry snapshot of that moment; a session that is over says nothing.  *)
(***************************************************************************)
CONSTANTS
    Commands,           \* a session's commands
    Items               \* everything a user can be told about

VARIABLES
    scope,              \* what the user may be told now
    status,             \* each command: "unsent", "open" or "answered"
    told,               \* what the last step told the user about
    results,            \* the commands the last step gave a result for
    over                \* the session has ended

contract == <<scope, status, told, results, over>>

Init ==
    /\ scope \subseteq Items
    /\ status = [c \in Commands |-> "unsent"]
    /\ told = {} /\ results = {}
    /\ over = FALSE

\* The user sends a command; it may be answered at once, with nothing.
Ask ==
    /\ ~over
    /\ told' = {}
    /\ \E c \in Commands :
         /\ status[c] = "unsent"
         /\ \/ status' = [status EXCEPT ![c] = "open"] /\ results' = {}
            \/ status' = [status EXCEPT ![c] = "answered"] /\ results' = {c}
    /\ UNCHANGED <<scope, over>>

\* The user is told something: the result of an open command, or news.
Tell ==
    /\ ~over
    /\ told' \subseteq scope
    /\ \/ results' = {} /\ status' = status
       \/ \E c \in Commands :
            /\ status[c] = "open"
            /\ status' = [status EXCEPT ![c] = "answered"]
            /\ results' = {c}
    /\ UNCHANGED <<scope, over>>

Silent == told' = {} /\ results' = {}

\* The snapshot changes, and with it what the user may be told.
Move == scope' \subseteq Items /\ Silent /\ UNCHANGED <<status, over>>

End == over' = TRUE /\ Silent /\ UNCHANGED <<scope, status>>

\* Whatever else happens, the user is told nothing.
Rest == Silent /\ UNCHANGED <<scope, status, over>>

Next == Ask \/ Tell \/ Move \/ End \/ Rest

Spec == Init /\ [][Next]_contract
=============================================================================
