------------------------------- MODULE Guard -------------------------------
(***************************************************************************)
(* The guard (internal/guard): read-only mode, what a place allows, and    *)
(* the confirmation tokens. A token is the answer to a request that must   *)
(* be confirmed, so it is named after that request; its authenticity is    *)
(* that only an issued one verifies.                                       *)
(***************************************************************************)
EXTENDS Naturals, FiniteSets, WebRequest

CONSTANT Ttl        \* confirmTTL, in ticks

ASSUME GuardAssumption == Ttl \in Nat

VARIABLES
    clock,
    readOnly,   \* the switch
    tokens,     \* what the token handed to a request binds, and when it expires
    seen,       \* the spent tokens that are remembered
    costs       \* the tokens whose measured cost is remembered, and the cost

guardVars == <<clock, readOnly, tokens, seen, costs>>

NoToken == [parts |-> None, exp |-> 0]

GuardInit ==
    /\ clock = 0 /\ readOnly \in BOOLEAN
    /\ tokens = [r \in Request |-> NoToken]
    /\ seen = {} /\ costs = [t \in {} |-> "few"]

-----------------------------------------------------------------------------
(* Verdicts.                                                               *)

\* What the rules say of a place: "normal", "warn" or "protected".
Rules(place) == CASE place = "protected" -> "protected"
                  [] place = "warn" -> "confirm"
                  [] OTHER -> "ok"

Check(place) == IF readOnly THEN "read_only" ELSE Rules(place)

\* What lies strictly beneath it; read-only mode has no say in it.
Contains(below) == Rules(below)

worstGuard(verdicts) ==
    CHOOSE v \in verdicts :
        \A w \in verdicts : LET rank == [read_only |-> 3, protected |-> 2, confirm |-> 1, ok |-> 0]
                            IN rank[w] <= rank[v]

guardRefuses(verdict) == verdict \in {"read_only", "protected"}

-----------------------------------------------------------------------------
(* Tokens.                                                                 *)

Expired(t) == clock > tokens[t].exp
Live(ts) == {t \in ts : ~Expired(t)}
Only(f, ts) == [t \in DOMAIN f \cap ts |-> f[t]]

\* Issue and recordCost. A summary with nothing measured leaves the ledger, and
\* what it would sweep, alone.
Issue(r, parts, cost) ==
    /\ tokens' = [tokens EXCEPT ![r] = [parts |-> parts, exp |-> clock + Ttl]]
    /\ IF cost = "unmeasured" THEN UNCHANGED <<seen, costs>>
       ELSE /\ seen' = Live(seen)
            /\ costs' = [t \in Live(DOMAIN costs) \cup {r} |-> IF t = r THEN cost ELSE costs[t]]
    /\ UNCHANGED <<clock, readOnly>>

\* Mutant: a token is good for whatever it is shown with.
verifyToken_AnyParts(t, parts) == tokens[t] # NoToken /\ ~Expired(t)

\* The stateless half of Redeem and Peek.
verifyToken(t, parts) == tokens[t] # NoToken /\ ~Expired(t) /\ tokens[t].parts = parts

\* Mutant: a request shown a spent token has it swept first, and accepts it.
Redeem_Forgetful(t) ==
    /\ seen' = {t} /\ costs' = Only(costs, Live(Request) \ {t})
    /\ UNCHANGED <<clock, readOnly, tokens>>

\* The other half, under seenMu: the sweep reads the clock once more.
Redeem(t) ==
    /\ t \notin Live(seen)
    /\ seen' = Live(seen) \cup {t}
    /\ costs' = Only(costs, Live(Request) \ {t})
    /\ UNCHANGED <<clock, readOnly, tokens>>

Spent(t) ==
    /\ t \in Live(seen)
    /\ seen' = Live(seen) /\ costs' = Only(costs, Live(Request))
    /\ UNCHANGED <<clock, readOnly, tokens>>

\* Peek: the cost measured for the challenge, if there is still a record.
Peek(t, parts) ==
    IF verifyToken(t, parts) /\ t \notin seen /\ t \in DOMAIN costs THEN {costs[t]} ELSE {}

SetReadOnly(v) == readOnly' = v /\ UNCHANGED <<clock, tokens, seen, costs>>

Tick == clock' = clock + 1 /\ UNCHANGED <<readOnly, tokens, seen, costs>>
=============================================================================
