----------------------------- MODULE MCRequests ----------------------------
EXTENDS Requests, TLC
CONSTANTS a, b, c, d, e

\* The lines that may have to be durable; d and e change nothing.
AllLines == {a, b, c} \X (0 .. 2) \X {"intent", "result", "denied"}

\* A scene is what is said of it, over this.
Empty ==
    [handler |-> [r \in Request |-> "none"],
     place |-> [r \in Request |-> [self |-> "normal", below |-> "normal"]],
     shows |-> [r \in Request |-> None], about |-> [r \in Request |-> "x"],
     want |-> [r \in Request |-> TRUE],
     signed |-> {}, live |-> {0}, slow |-> FALSE, faults |-> 0, acl |-> {"trivial"}, aclmode |-> {"keeps"},
     left |-> [saves |-> 0, ticks |-> 0, moves |-> 0, signouts |-> 0, removals |-> 0,
               expiries |-> 0, closes |-> 0]]

With(handlers) == [Empty EXCEPT !.handler = handlers @@ @]

\* A sink that hangs, fails and is closed.
SlowSink == [With(a :> "mkdir") EXCEPT !.slow = TRUE, !.faults = 1, !.left.closes = 1]
OneWriter == [With(a :> "mkdir" @@ b :> "mkdir") EXCEPT !.slow = TRUE]

\* The switch is thrown twice while a job waits and a batch runs.
Switch == [With(a :> "settings" @@ b :> "settings" @@ c :> "jobChown") EXCEPT
              !.want[b] = FALSE, !.faults = 1, !.left.saves = 1]
Batches == {[With(a :> "settings" @@ b :> "batch" @@ c :> "batch") EXCEPT !.shows[c] = b],
            [With(a :> "settings" @@ b :> "batch") EXCEPT !.faults = 1],
            [With(b :> "batch" @@ c :> "batch") EXCEPT !.shows[c] = b, !.faults = 1]}

\* One token, shown twice, or for something else.
Tokens == {[With(a :> "delete" @@ b :> "delete" @@ c :> h) EXCEPT
               !.shows[b] = a, !.shows[c] = a, !.left.ticks = 2] : h \in {"delete", "jobDelete"}}

\* ACLs that appear, on a dataset whose mode changes.
Acls == {[With(a :> h @@ b :> h) EXCEPT !.shows[b] = a, !.acl = {"trivial", "acl"},
             !.aclmode = {"keeps", "discards"}, !.left.moves = 1] : h \in {"chmod", "jobChmod"}}

\* Two unsafe requests sign in, or two and a safe one, or two safe ones.
SignsIn(who, what) == [With([r \in who |-> "plain"]) EXCEPT !.signed = who, !.live = {0, 1}, !.left = what @@ @]
Signing ==
    LET all == [signouts |-> 1, removals |-> 1, expiries |-> 1] IN
    {SignsIn({a, b}, all), SignsIn({a, d}, all), SignsIn({d, e}, [signouts |-> 1]),
     SignsIn({a, b, d}, [signouts |-> 0])}

Others == {[With(a :> h @@ b :> h @@ c :> "settings") EXCEPT !.shows[b] = a, !.faults = 1,
               !.place[a].below = "warn", !.place[b].below = "warn"]
              : h \in {"upload", "jobDelete", "jobTrash", "jobTransfer", "restore", "empty"}}

MCScenes == {SlowSink, OneWriter, Switch} \cup Batches \cup Tokens \cup Acls \cup Signing \cup Others
=============================================================================
