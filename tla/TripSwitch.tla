----------------------------- MODULE TripSwitch -----------------------------
(***************************************************************************)
(* The trip switch (trip.py): a file whose existence closes the gateway.   *)
(* The canary makes it through trip(), an operator by hand; only an        *)
(* operator removes it.  is_tripped looks at the file system at most once  *)
(* per CheckInterval and answers from its last look in between.            *)
(***************************************************************************)
EXTENDS Naturals

CONSTANT CheckInterval      \* check_interval

ASSUME CheckIntervalAssumption == CheckInterval \in Nat \ {0}

VARIABLES
    file,           \* the trip file exists
    cached,         \* _cached
    checked,        \* time since _last_check, CheckInterval when a look is due
    stood           \* history: how long a file made by hand has been there

tripVars == <<file, cached, checked, stood>>

Due == checked >= CheckInterval

\* The answer of is_tripped.
is_tripped == IF Due THEN file ELSE cached

\* Mutant: every call counts as a look.
LooksAlways ==
    /\ cached' = is_tripped
    /\ checked' = 0
    /\ UNCHANGED <<file, stood>>

Looks ==
    /\ cached' = is_tripped
    /\ checked' = IF Due THEN 0 ELSE checked
    /\ UNCHANGED <<file, stood>>

\* trip: the file is there, and the next call looks again.
TripFile == file' = TRUE /\ stood' = CheckInterval /\ checked' = CheckInterval

OperatorTrips ==
    /\ ~file /\ file' = TRUE /\ stood' = 0
    /\ UNCHANGED <<cached, checked>>

OperatorClears ==
    /\ file /\ file' = FALSE /\ stood' = 0
    /\ UNCHANGED <<cached, checked>>

Until(t) == IF t < CheckInterval THEN t + 1 ELSE t

TripTick ==
    /\ checked' = Until(checked)
    /\ stood' = IF file THEN Until(stood) ELSE stood
    /\ UNCHANGED <<file, cached>>

\* A new process; the file outlives it.
TripStarts == cached' = FALSE /\ checked' = CheckInterval /\ UNCHANGED <<file, stood>>

TripInit ==
    /\ file \in BOOLEAN /\ stood = IF file THEN CheckInterval ELSE 0
    /\ cached = FALSE /\ checked = CheckInterval

TripTypeOK ==
    /\ file \in BOOLEAN /\ cached \in BOOLEAN
    /\ checked \in 0 .. CheckInterval /\ stood \in 0 .. CheckInterval
=============================================================================
