----------------------------- MODULE WebRequest ----------------------------
(* The requests of the web server, which its modules speak of.             *)
CONSTANTS
    Request,    \* who asks, one API call each
    Safe,       \* those with a safe method: they change nothing
    None        \* nobody, and nothing

ASSUME RequestAssumption == None \notin Request /\ Safe \subseteq Request
=============================================================================
