-------------------------- MODULE RequestsProofs ---------------------------
(***************************************************************************)
(* Theorems about whole requests, for every number of them, every scene    *)
(* and every failure of the disk: how they sign in, what the audit log     *)
(* promises them, what they leave in the trail, what the switch forbids,   *)
(* and what they were agreed to.                                           *)
(*                                                                         *)
(* SignInv, LogInv, TrailInv, LockShape with BoundShape, and ConsentInv    *)
(* are inductive in that order, each with those before it.  Most of        *)
(* TrailInv speaks of at[r], the steps ahead of a request: Plan is what a  *)
(* handler's steps look like, Fit how they agree with what is already      *)
(* written, recorded and done, and a step of a request is mostly a lemma   *)
(* that what is left of a plan is a plan, and fits.                        *)
(***************************************************************************)
EXTENDS Requests, SignInProofs, SequenceTheorems, TLAPS
-----------------------------------------------------------------------------
(* Plans.                                                                  *)

Working == {"call", "run", "open"}
Recording == {"record", "entry", "intent"}
Answering == {"result", "note", "sorry", "failed", "report"}
Denying == {"deny", "dismiss", "strike"}
Locked == {"intent", "save", "apply", "report", "failed", "undo"}
Final == {"result", "sum", "deny", "dismiss", "sorry", "failed", "report", "undo"}
Name == Working \cup Recording \cup Answering \cup Denying \cup Locked \cup
        {"look", "confirm", "submit", "start", "each", "seal", "sum", "slot", "bind", "body", "land",
         "root", "rooted", "clear", "lock", "spend"}
Step == Name \X (0 .. 2)

\* How far a step is in the life of its item.
Rank(x) ==
    IF x = "slot" THEN 0
    ELSE IF x \in {"look", "seal", "each", "lock"} THEN 1
    ELSE IF x = "clear" THEN 2
    ELSE IF x \in {"confirm", "spend"} THEN 3
    ELSE IF x \in {"bind", "root", "rooted"} THEN 4
    ELSE IF x \in Recording THEN 5
    ELSE IF x = "submit" THEN 6
    ELSE IF x = "start" THEN 7
    ELSE IF x \in Working \cup {"save"} THEN 8
    ELSE IF x \in {"body", "apply"} THEN 9
    ELSE IF x = "land" THEN 10
    ELSE IF x \in {"result", "note", "report", "sum"} THEN 11
    ELSE 12

\* The next step under the settings lock.
Successor(x) == IF x = "lock" THEN "intent" ELSE IF x = "intent" THEN "save"
                ELSE IF x = "save" THEN "apply" ELSE "report"

\* The steps of an item follow one another, and rise.
Rises(q) == \A i, j \in DOMAIN q : i < j /\ q[i][2] = q[j][2] => Rank(q[i][1]) < Rank(q[j][1])
Together(q) == \A i, j, k \in DOMAIN q :
    i < j /\ j < k /\ q[i][2] = q[k][2] /\ q[i][2] # 0 => q[j][2] = q[i][2]

\* What is of no item, and stays clear of what the whole request writes.
Numbers(q) == \A i \in DOMAIN q :
    /\ q[i][2] = 0 => q[i][1] \in {"seal", "confirm", "spend", "sum", "deny", "dismiss", "rooted"}
    /\ q[i][1] \in {"sum", "rooted"} => q[i][2] = 0
    /\ q[i][1] = "root" => \A j \in DOMAIN q : q[j][2] = q[i][2]
    /\ q[i][1] = "rooted" => \A j \in DOMAIN q : i < j => q[j][2] # 0

\* What comes last, and what only ever comes in place of what was ahead.
Sudden == Denying \cup {"sorry", "failed", "undo"}
Ends(q) == \A i \in DOMAIN q :
    /\ q[i][1] \in Final => i = Len(q)
    /\ q[i][1] \in Sudden => i = 1

\* What is recorded has its answer ahead.
Whole(q) == \A i \in DOMAIN q :
    /\ q[i][1] \in {"submit", "start", "open", "body", "save"} => \A j \in DOMAIN q : i < j => q[j][2] = q[i][2]
    /\ q[i][1] = "each" =>
          /\ i + 3 \in DOMAIN q
          /\ q[i + 1] = <<"entry", q[i][2]>> /\ q[i + 2] = <<"call", q[i][2]>> /\ q[i + 3] = <<"note", q[i][2]>>
    /\ q[i][1] \in {"each", "entry"} => q[Len(q)] = <<"sum", 0>>
    /\ q[i][1] \in Recording => \E j \in DOMAIN q : i < j /\ q[j] \in Answering \X {q[i][2]}

\* Under the settings lock there is one way through.
Through == {"lock", "intent", "save", "apply"}
UnderLock(q) == \A i \in DOMAIN q :
    /\ q[i][1] \in Through => i + 1 \in DOMAIN q /\ q[i + 1][1] = Successor(q[i][1])
    /\ i + 1 \in DOMAIN q /\ q[i + 1][1] \in Locked => q[i][1] \in Through

Plan(q) == q \in Seq(Step) /\ Rises(q) /\ Together(q) /\ Numbers(q) /\ Ends(q) /\ Whole(q) /\ UnderLock(q)

Asked(x) == IF x \in Recording THEN "intent" ELSE IF x \in Denying THEN "denied" ELSE "result"
Asking(r) == call[r].st # "idle"
H(r) == {x \in (0 .. 2) \X {"intent", "result", "denied", "challenge"} : <<r, x[1], x[2]>> \in handed}
R(r) == {n \in 0 .. 2 : <<r, n>> \in recorded}
W(r) == {n \in 0 .. 2 : <<r, n>> \in ran}

\* What a plan presumes of the lines handed in, of what is recorded, and of what is done.
Unwritten(q, asks, h) == \A j \in DOMAIN q :
    (j > 1 \/ ~asks) /\ q[j][1] # "undo" =>
        /\ {<<q[j][2], "result">>, <<q[j][2], "denied">>, <<q[j][2], "challenge">>} \cap h = {}
        /\ Rank(q[j][1]) <= 5 => <<q[j][2], "intent">> \notin h
        /\ q[j][1] = "root" => <<0, "result">> \notin h /\ <<0, "denied">> \notin h /\ <<0, "challenge">> \notin h
Permitted(q, rec) == \A j \in DOMAIN q :
    q[j][1] \notin Denying /\ Rank(q[j][1]) > 5 /\ q[j][2] # 0 =>
        q[j][2] \in rec \/ \E i \in DOMAIN q : i < j /\ q[i] \in Recording \X {q[j][2]}
Answered(q, h, rec) == \A n \in rec :
    n # 0 /\ (<<n, "result">> \in h \/ \E j \in DOMAIN q : q[j] \in Answering \X {n})
Unrecorded(q, rec) == \A i, j \in DOMAIN q : i <= j /\ Rank(q[i][1]) <= 5 => q[j][2] \notin rec
Past(q, rec, done) == \A n \in done : n \in rec /\ \A j \in DOMAIN q : q[j][2] = n => Rank(q[j][1]) > 8
Justified(h, rec) ==
    /\ \A n \in 1 .. 2 : <<n, "result">> \in h => n \in rec
    /\ <<0, "intent">> \notin h
Fit(q, asks, h, rec, done) ==
    /\ Unwritten(q, asks, h) /\ Permitted(q, rec) /\ Answered(q, h, rec)
    /\ Unrecorded(q, rec) /\ Past(q, rec, done) /\ Justified(h, rec)

Handled(r) == sign[r] \in {"served", "refused"}

-----------------------------------------------------------------------------
(* The invariant of the log.                                               *)

AnyLine == Request \X (0 .. 2) \X {"intent", "result", "denied", "challenge"}
CallState == [st : {"idle", "admit", "wait", "back"}, line : Line \cup {NoLine},
              ok : BOOLEAN, inFlight : BOOLEAN]
LogTypeOK ==
    /\ call \in [Caller -> CallState]
    /\ work \in [Line -> {"none", "write", "mirror", "over"}]
    /\ out \in [Line -> {"none", "flushed", "absent", "doubtful"}]
    /\ ch \in Seq(AnyLine)
    /\ drain \in {"take", "mirror", "done"}
    /\ dropped \in Nat /\ reported \in Nat
    /\ log \in {"open", "joining", "flushing", "closed", "abandoned"}

\* A line is handed in once, and goes one way: the queue's, or a worker's.
Queue == {ch[i] : i \in DOMAIN ch}
LineShape == \A l \in Line :
    /\ l \notin handed => work[l] = "none" /\ l \notin file /\ l \notin Queue
    /\ work[l] # "none" => l \notin Queue
    /\ work[l] = "write" => l \notin file
    /\ work[l] \in {"none", "write"} => out[l] = "none"
    /\ work[l] \in {"mirror", "over"} => out[l] # "none"
    /\ out[l] = "flushed" => l \in safe
    /\ out[l] = "absent" => work[l] = "over" /\ l \notin file

\* Of a line somebody waits for, and of the answer that came.
CallShape ==
    /\ \A o \in Caller : Asking(o) =>
        LET l == call[o].line IN
        /\ l \in Line /\ l \in handed /\ l \notin Queue
        /\ call[o].st = "admit" => work[l] = "none" /\ l \notin file
        /\ call[o].st = "wait" => work[l] # "none"
        /\ call[o].st = "back" /\ call[o].ok => l \in safe
        /\ call[o].st = "back" /\ ~call[o].ok /\ ~call[o].inFlight =>
              work[l] \in {"none", "over"} /\ l \notin file
    /\ \A o, u \in Caller : Asking(o) /\ Asking(u) /\ call[o].line = call[u].line => o = u

CloseShape ==
    /\ drain = "done" => shut /\ ch = <<>> /\ reported = dropped
    /\ log \in {"flushing", "closed"} => Writers = {} /\ drain = "done"

LogInv == LogTypeOK /\ LineShape /\ CallShape /\ CloseShape

-----------------------------------------------------------------------------
(* The invariant of the trail.                                             *)

\* Who asks stands before the step that asks.
Askers == Recording \cup Denying \cup {"result", "sum", "rooted", "failed", "report"}
AskShape ==
    /\ \A r \in Request : Asking(r) =>
        /\ at[r] # <<>> /\ at[r][1][1] \in Askers
        /\ call[r].line = <<r, at[r][1][2], Asked(at[r][1][1])>>
        /\ call[r].line \in handed
        /\ at[r][1][1] = "sum" => mem[r].big
    /\ \A o \in Caller \ Request : ~Asking(o)

\* What of the settings is theirs alone, and what is not theirs.
Kinds(r, q) == \A j \in DOMAIN q :
    /\ q[j][1] \in Locked \cup {"lock"} => What(r) = "settings"
    /\ q[j][1] \in Working => What(r) # "settings"
PlanShape == \A r \in Request :
    /\ Plan(at[r]) /\ Fit(at[r], Asking(r), H(r), R(r), W(r)) /\ Kinds(r, at[r])
    /\ ~Handled(r) => at[r] = <<>> /\ H(r) = {} /\ R(r) = {} /\ W(r) = {}
    /\ r \in Safe => at[r] = <<>>
    /\ sign[r] # "new" => r \in Uses

OwnLines ==
    /\ twice = {}
    /\ handed \subseteq AnyLine
    /\ recorded \cup ran \subseteq Request \X (0 .. 2)

RecordShape == \A x \in recorded : <<x[1], x[2], "intent">> \in safe

MemShape == DOMAIN mem = Request /\ \A r \in Request : DOMAIN mem[r] = DOMAIN Blank

TrailInv ==
    /\ scene \in Scenes /\ at \in [Request -> Seq(Step)] /\ MemShape
    /\ AskShape /\ PlanShape /\ OwnLines /\ RecordShape

-----------------------------------------------------------------------------
(* The switch. *)
Match == readOnly = stored \/ (readOnly /\ blind)
LockShape ==
    /\ \A r \in Request : cfgMu = r <=> at[r] # <<>> /\ at[r][1][1] \in Locked
    /\ cfgMu \in Request \cup {None}
    /\ cfgMu = None => Match
    /\ \A r \in Request : cfgMu = r =>
          IF at[r][1][1] = "apply" THEN stored = scene.want[r] ELSE Match
Guarded(q, n) == \A j \in DOMAIN q : q[j] \in Working \X {n} => \E i \in DOMAIN q : i < j /\ q[i] \in Checks \X {n}
BoundShape ==
    /\ bound # {} => readOnly
    /\ bound \cap ran = {}
    /\ bound \subseteq Uses \X (0 .. 2)
    /\ \A x \in bound : Guarded(Ahead(x[1]), x[2]) /\ What(x[1]) # "settings"

-----------------------------------------------------------------------------
(* The scripts the handlers begin with. *)

\* What a script looks like before its first step.
Script(q) == Plan(q) /\ Permitted(q, {}) /\ \A j \in DOMAIN q : q[j][1] # "spend"

LEMMA Ranks ==
    /\ Rank("slot") = 0
    /\ Rank("look") = 1 /\ Rank("seal") = 1 /\ Rank("each") = 1 /\ Rank("lock") = 1
    /\ Rank("clear") = 2 /\ Rank("confirm") = 3 /\ Rank("spend") = 3
    /\ Rank("bind") = 4 /\ Rank("root") = 4 /\ Rank("rooted") = 4
    /\ Rank("record") = 5 /\ Rank("entry") = 5 /\ Rank("intent") = 5
    /\ Rank("submit") = 6 /\ Rank("start") = 7
    /\ Rank("call") = 8 /\ Rank("run") = 8 /\ Rank("open") = 8 /\ Rank("save") = 8
    /\ Rank("body") = 9 /\ Rank("apply") = 9 /\ Rank("land") = 10
    /\ Rank("result") = 11 /\ Rank("note") = 11 /\ Rank("report") = 11 /\ Rank("sum") = 11
    /\ Rank("deny") = 12 /\ Rank("dismiss") = 12 /\ Rank("strike") = 12
    /\ Rank("sorry") = 12 /\ Rank("failed") = 12 /\ Rank("undo") = 12
  BY DEF Rank, Recording, Working

LEMMA RankType == \A x \in Name : Rank(x) \in 0 .. 12
  BY DEF Rank

LEMMA StepsAre ==
    ASSUME NEW s \in Seq(Name)
    PROVE  /\ Steps(s) \in Seq(Step) /\ Len(Steps(s)) = Len(s) /\ DOMAIN Steps(s) = 1 .. Len(s)
           /\ \A i \in 1 .. Len(s) : Steps(s)[i] = <<s[i], 1>>
  BY DEF Steps, Step

\* A script of one item: every step once, and in order.
InOrder(s) ==
    /\ \A i, j \in DOMAIN s : i < j => Rank(s[i]) < Rank(s[j])
    /\ \A i \in DOMAIN s :
        /\ s[i] \notin {"sum", "rooted", "each", "entry", "spend"} /\ s[i] \notin Sudden
        /\ s[i] \in Final => i = Len(s)
        /\ Rank(s[i]) > 5 => \E k \in DOMAIN s : k < i /\ s[k] \in Recording
        /\ s[i] \in Recording => \E k \in DOMAIN s : i < k /\ s[k] \in Answering
        /\ s[i] \in Through => i + 1 \in DOMAIN s /\ s[i + 1] = Successor(s[i])
        /\ i + 1 \in DOMAIN s /\ s[i + 1] \in Locked => s[i] \in Through

LEMMA OneItem ==
    ASSUME NEW s \in Seq(Name), InOrder(s)
    PROVE  Script(Steps(s))
<1> DEFINE q == Steps(s)
<1>1. q \in Seq(Step) /\ Len(q) = Len(s) /\ DOMAIN q = DOMAIN s /\ \A i \in DOMAIN q : q[i] = <<s[i], 1>>
  <2>1. DOMAIN s = 1 .. Len(s)
    OBVIOUS
  <2> QED
    BY <2>1, StepsAre
<1> HIDE DEF q
<1>2. \A i \in DOMAIN q : q[i][1] = s[i] /\ q[i][2] = 1
  BY <1>1
<1>3. Permitted(q, {})
  <2> SUFFICES ASSUME NEW j \in DOMAIN q, Rank(q[j][1]) > 5
               PROVE  \E i \in DOMAIN q : i < j /\ q[i] \in Recording \X {q[j][2]}
    BY DEF Permitted
  <2>1. PICK k \in DOMAIN s : k < j /\ s[k] \in Recording
    BY <1>1, <1>2 DEF InOrder
  <2>2. k \in DOMAIN q /\ q[k] = <<s[k], 1>> /\ q[j][2] = 1
    BY <1>1, <1>2, <2>1
  <2> QED
    BY <2>1, <2>2
<1>4. Rises(q) /\ Together(q) /\ Numbers(q) /\ Ends(q) /\ UnderLock(q)
  BY <1>1, <1>2 DEF InOrder, Rises, Together, Numbers, Ends, UnderLock
<1>5. Whole(q)
  <2>1. ASSUME NEW i \in DOMAIN q, q[i][1] \in Recording
        PROVE  \E j \in DOMAIN q : i < j /\ q[j] \in Answering \X {q[i][2]}
    <3>1. PICK k \in DOMAIN s : i < k /\ s[k] \in Answering
      BY <1>1, <1>2, <2>1 DEF InOrder
    <3>2. k \in DOMAIN q /\ q[k] = <<s[k], 1>> /\ q[i][2] = 1
      BY <1>1, <1>2, <2>1, <3>1
    <3> QED
      BY <3>1, <3>2
  <2> QED
    BY <1>1, <1>2, <2>1 DEF InOrder, Whole
<1> QED
  BY <1>1, <1>2, <1>3, <1>4, <1>5 DEF Script, Plan, q, InOrder

LEMMA SyncScript == Script(Steps(<<"look", "confirm", "record", "call", "result">>))
<1> DEFINE s == <<"look", "confirm", "record", "call", "result">>
<1>1. s \in Seq(Name)
  BY DEF Name, Working, Recording, Answering, Locked
<1>2. \A i, j \in DOMAIN s : i < j => Rank(s[i]) < Rank(s[j])
  BY Ranks
<1>3. \A i \in DOMAIN s : /\ s[i] \notin {"sum", "rooted", "each", "entry", "spend"} /\ s[i] \notin Sudden
                          /\ s[i] \in Final => i = Len(s)
  BY DEF Final, Sudden, Denying
<1>4. \A i \in DOMAIN s : /\ Rank(s[i]) > 5 => 3 < i /\ 3 \in DOMAIN s /\ s[3] \in Recording
                          /\ s[i] \in Recording => i < 5 /\ 5 \in DOMAIN s /\ s[5] \in Answering
  BY Ranks DEF Recording, Answering
<1>5. \A i \in DOMAIN s : s[i] \notin Through /\ s[i] \notin Locked
  BY DEF Locked, Through
<1> HIDE DEF s
<1>6. InOrder(s)
  BY <1>2, <1>3, <1>4, <1>5 DEF InOrder
<1> QED
  BY <1>1, <1>6, OneItem DEF s

LEMMA UploadScript == Script(Steps(<<"slot", "look", "confirm", "bind", "record", "open", "body", "land", "result">>))
<1> DEFINE s == <<"slot", "look", "confirm", "bind", "record", "open", "body", "land", "result">>
<1>1. s \in Seq(Name)
  BY DEF Name, Working, Recording, Answering, Locked
<1>2. \A i, j \in DOMAIN s : i < j => Rank(s[i]) < Rank(s[j])
  BY Ranks
<1>3. \A i \in DOMAIN s : /\ s[i] \notin {"sum", "rooted", "each", "entry", "spend"} /\ s[i] \notin Sudden
                          /\ s[i] \in Final => i = Len(s)
  BY DEF Final, Sudden, Denying
<1>4. \A i \in DOMAIN s : /\ Rank(s[i]) > 5 => 5 < i /\ 5 \in DOMAIN s /\ s[5] \in Recording
                          /\ s[i] \in Recording => i < 9 /\ 9 \in DOMAIN s /\ s[9] \in Answering
  BY Ranks DEF Recording, Answering
<1>5. \A i \in DOMAIN s : s[i] \notin Through /\ s[i] \notin Locked
  BY DEF Locked, Through
<1> HIDE DEF s
<1>6. InOrder(s)
  BY <1>2, <1>3, <1>4, <1>5 DEF InOrder
<1> QED
  BY <1>1, <1>6, OneItem DEF s

LEMMA JobScript == Script(Steps(<<"look", "confirm", "record", "submit", "start", "run", "result">>))
<1> DEFINE s == <<"look", "confirm", "record", "submit", "start", "run", "result">>
<1>1. s \in Seq(Name)
  BY DEF Name, Working, Recording, Answering, Locked
<1>2. \A i, j \in DOMAIN s : i < j => Rank(s[i]) < Rank(s[j])
  BY Ranks
<1>3. \A i \in DOMAIN s : /\ s[i] \notin {"sum", "rooted", "each", "entry", "spend"} /\ s[i] \notin Sudden
                          /\ s[i] \in Final => i = Len(s)
  BY DEF Final, Sudden, Denying
<1>4. \A i \in DOMAIN s : /\ Rank(s[i]) > 5 => 3 < i /\ 3 \in DOMAIN s /\ s[3] \in Recording
                          /\ s[i] \in Recording => i < 7 /\ 7 \in DOMAIN s /\ s[7] \in Answering
  BY Ranks DEF Recording, Answering
<1>5. \A i \in DOMAIN s : s[i] \notin Through /\ s[i] \notin Locked
  BY DEF Locked, Through
<1> HIDE DEF s
<1>6. InOrder(s)
  BY <1>2, <1>3, <1>4, <1>5 DEF InOrder
<1> QED
  BY <1>1, <1>6, OneItem DEF s

LEMMA TrashScript == Script(Steps(<<"look", "confirm", "root", "record", "submit", "start", "run", "result">>))
<1> DEFINE s == <<"look", "confirm", "root", "record", "submit", "start", "run", "result">>
<1>1. s \in Seq(Name)
  BY DEF Name, Working, Recording, Answering, Locked
<1>2. \A i, j \in DOMAIN s : i < j => Rank(s[i]) < Rank(s[j])
  BY Ranks
<1>3. \A i \in DOMAIN s : /\ s[i] \notin {"sum", "rooted", "each", "entry", "spend"} /\ s[i] \notin Sudden
                          /\ s[i] \in Final => i = Len(s)
  BY DEF Final, Sudden, Denying
<1>4. \A i \in DOMAIN s : /\ Rank(s[i]) > 5 => 4 < i /\ 4 \in DOMAIN s /\ s[4] \in Recording
                          /\ s[i] \in Recording => i < 8 /\ 8 \in DOMAIN s /\ s[8] \in Answering
  BY Ranks DEF Recording, Answering
<1>5. \A i \in DOMAIN s : s[i] \notin Through /\ s[i] \notin Locked
  BY DEF Locked, Through
<1> HIDE DEF s
<1>6. InOrder(s)
  BY <1>2, <1>3, <1>4, <1>5 DEF InOrder
<1> QED
  BY <1>1, <1>6, OneItem DEF s

LEMMA RestoreScript == Script(Steps(<<"seal", "clear", "record", "submit", "start", "run", "result">>))
<1> DEFINE s == <<"seal", "clear", "record", "submit", "start", "run", "result">>
<1>1. s \in Seq(Name)
  BY DEF Name, Working, Recording, Answering, Locked
<1>2. \A i, j \in DOMAIN s : i < j => Rank(s[i]) < Rank(s[j])
  BY Ranks
<1>3. \A i \in DOMAIN s : /\ s[i] \notin {"sum", "rooted", "each", "entry", "spend"} /\ s[i] \notin Sudden
                          /\ s[i] \in Final => i = Len(s)
  BY DEF Final, Sudden, Denying
<1>4. \A i \in DOMAIN s : /\ Rank(s[i]) > 5 => 3 < i /\ 3 \in DOMAIN s /\ s[3] \in Recording
                          /\ s[i] \in Recording => i < 7 /\ 7 \in DOMAIN s /\ s[7] \in Answering
  BY Ranks DEF Recording, Answering
<1>5. \A i \in DOMAIN s : s[i] \notin Through /\ s[i] \notin Locked
  BY DEF Locked, Through
<1> HIDE DEF s
<1>6. InOrder(s)
  BY <1>2, <1>3, <1>4, <1>5 DEF InOrder
<1> QED
  BY <1>1, <1>6, OneItem DEF s

LEMMA EmptyScript == Script(Steps(<<"seal", "confirm", "record", "submit", "start", "run", "result">>))
<1> DEFINE s == <<"seal", "confirm", "record", "submit", "start", "run", "result">>
<1>1. s \in Seq(Name)
  BY DEF Name, Working, Recording, Answering, Locked
<1>2. \A i, j \in DOMAIN s : i < j => Rank(s[i]) < Rank(s[j])
  BY Ranks
<1>3. \A i \in DOMAIN s : /\ s[i] \notin {"sum", "rooted", "each", "entry", "spend"} /\ s[i] \notin Sudden
                          /\ s[i] \in Final => i = Len(s)
  BY DEF Final, Sudden, Denying
<1>4. \A i \in DOMAIN s : /\ Rank(s[i]) > 5 => 3 < i /\ 3 \in DOMAIN s /\ s[3] \in Recording
                          /\ s[i] \in Recording => i < 7 /\ 7 \in DOMAIN s /\ s[7] \in Answering
  BY Ranks DEF Recording, Answering
<1>5. \A i \in DOMAIN s : s[i] \notin Through /\ s[i] \notin Locked
  BY DEF Locked, Through
<1> HIDE DEF s
<1>6. InOrder(s)
  BY <1>2, <1>3, <1>4, <1>5 DEF InOrder
<1> QED
  BY <1>1, <1>6, OneItem DEF s

LEMMA SettingsScript == Script(Steps(<<"lock", "intent", "save", "apply", "report">>))
<1> DEFINE s == <<"lock", "intent", "save", "apply", "report">>
<1>1. s \in Seq(Name)
  BY DEF Name, Working, Recording, Answering, Locked
<1>2. \A i, j \in DOMAIN s : i < j => Rank(s[i]) < Rank(s[j])
  BY Ranks
<1>3. \A i \in DOMAIN s : /\ s[i] \notin {"sum", "rooted", "each", "entry", "spend"} /\ s[i] \notin Sudden
                          /\ s[i] \in Final => i = Len(s)
  BY DEF Final, Sudden, Denying
<1>4. \A i \in DOMAIN s : /\ Rank(s[i]) > 5 => 2 < i /\ 2 \in DOMAIN s /\ s[2] \in Recording
                          /\ s[i] \in Recording => i < 5 /\ 5 \in DOMAIN s /\ s[5] \in Answering
  BY Ranks DEF Recording, Answering
<1>5. \A i \in DOMAIN s :
        /\ s[i] \in Through => i + 1 \in DOMAIN s /\ s[i + 1] = Successor(s[i])
        /\ i + 1 \in DOMAIN s => s[i] \in Through
  BY DEF Successor, Through
<1> HIDE DEF s
<1>6. InOrder(s)
  BY <1>2, <1>3, <1>4, <1>5 DEF InOrder
<1> QED
  BY <1>1, <1>6, OneItem DEF s

\* What the handlers put together.

LEMMA JobSteps == Job(<<"look", "confirm", "record">>) = Steps(<<"look", "confirm", "record", "submit", "start", "run", "result">>)
<1> DEFINE p == <<<<"look", 1>>, <<"confirm", 1>>, <<"record", 1>>>>
             \o <<<<"submit", 1>>, <<"start", 1>>, <<"run", 1>>, <<"result", 1>>>>
           w == <<<<"look", 1>>, <<"confirm", 1>>, <<"record", 1>>, <<"submit", 1>>, <<"start", 1>>, <<"run", 1>>, <<"result", 1>>>>
<1>1. Len(p) = 7 /\ p \in Seq(Step) /\ w \in Seq(Step) /\ Len(w) = 7
  BY DEF Step, Name, Working, Recording, Answering
<1>2. p[1] = w[1] /\ p[2] = w[2] /\ p[3] = w[3] /\ p[4] = w[4] /\ p[5] = w[5] /\ p[6] = w[6] /\ p[7] = w[7]
  OBVIOUS
<1>3. \A i \in 1 .. 7 : p[i] = w[i]
  BY <1>2
<1>4. p = w
  BY <1>1, <1>3, SeqEqual
<1>5. /\ p = Steps(<<"look", "confirm", "record">>) \o Steps(<<"submit", "start", "run", "result">>)
      /\ w = Steps(<<"look", "confirm", "record", "submit", "start", "run", "result">>)
  BY DEF Steps
<1> QED
  BY <1>4, <1>5 DEF Job, Queued

LEMMA TrashSteps == Job(<<"look", "confirm", "root", "record">>) = Steps(<<"look", "confirm", "root", "record", "submit", "start", "run", "result">>)
<1> DEFINE p == <<<<"look", 1>>, <<"confirm", 1>>, <<"root", 1>>, <<"record", 1>>>>
             \o <<<<"submit", 1>>, <<"start", 1>>, <<"run", 1>>, <<"result", 1>>>>
           w == <<<<"look", 1>>, <<"confirm", 1>>, <<"root", 1>>, <<"record", 1>>, <<"submit", 1>>, <<"start", 1>>, <<"run", 1>>, <<"result", 1>>>>
<1>1. Len(p) = 8 /\ p \in Seq(Step) /\ w \in Seq(Step) /\ Len(w) = 8
  BY DEF Step, Name, Working, Recording, Answering
<1>2. p[1] = w[1] /\ p[2] = w[2] /\ p[3] = w[3] /\ p[4] = w[4] /\ p[5] = w[5] /\ p[6] = w[6] /\ p[7] = w[7] /\ p[8] = w[8]
  OBVIOUS
<1>3. \A i \in 1 .. 8 : p[i] = w[i]
  BY <1>2
<1>4. p = w
  BY <1>1, <1>3, SeqEqual
<1>5. p = Steps(<<"look", "confirm", "root", "record">>) \o Steps(<<"submit", "start", "run", "result">>)
  BY DEF Steps
<1>6. w = Steps(<<"look", "confirm", "root", "record", "submit", "start", "run", "result">>)
  <2> DEFINE z == Steps(<<"look", "confirm", "root", "record", "submit", "start", "run", "result">>)
  <2>1. z \in Seq(Step) /\ Len(z) = 8
    BY DEF Steps, Step, Name, Working, Recording, Answering
  <2>2. z[1] = w[1] /\ z[2] = w[2] /\ z[3] = w[3] /\ z[4] = w[4] /\ z[5] = w[5] /\ z[6] = w[6] /\ z[7] = w[7] /\ z[8] = w[8]
    BY DEF Steps
  <2> HIDE DEF w, z
  <2>3. \A i \in 1 .. 8 : z[i] = w[i]
    BY <2>2
  <2>4. z = w
    BY <1>1, <2>1, <2>3, SeqEqual
  <2> QED
    BY <2>4 DEF z
<1> QED
  BY <1>4, <1>5, <1>6 DEF Job, Queued

LEMMA RestoreSteps == Job(<<"seal", "clear", "record">>) = Steps(<<"seal", "clear", "record", "submit", "start", "run", "result">>)
<1> DEFINE p == <<<<"seal", 1>>, <<"clear", 1>>, <<"record", 1>>>>
             \o <<<<"submit", 1>>, <<"start", 1>>, <<"run", 1>>, <<"result", 1>>>>
           w == <<<<"seal", 1>>, <<"clear", 1>>, <<"record", 1>>, <<"submit", 1>>, <<"start", 1>>, <<"run", 1>>, <<"result", 1>>>>
<1>1. Len(p) = 7 /\ p \in Seq(Step) /\ w \in Seq(Step) /\ Len(w) = 7
  BY DEF Step, Name, Working, Recording, Answering
<1>2. p[1] = w[1] /\ p[2] = w[2] /\ p[3] = w[3] /\ p[4] = w[4] /\ p[5] = w[5] /\ p[6] = w[6] /\ p[7] = w[7]
  OBVIOUS
<1>3. \A i \in 1 .. 7 : p[i] = w[i]
  BY <1>2
<1>4. p = w
  BY <1>1, <1>3, SeqEqual
<1>5. /\ p = Steps(<<"seal", "clear", "record">>) \o Steps(<<"submit", "start", "run", "result">>)
      /\ w = Steps(<<"seal", "clear", "record", "submit", "start", "run", "result">>)
  BY DEF Steps
<1> QED
  BY <1>4, <1>5 DEF Job, Queued

LEMMA EmptySteps == Job(<<"seal", "confirm", "record">>) = Steps(<<"seal", "confirm", "record", "submit", "start", "run", "result">>)
<1> DEFINE p == <<<<"seal", 1>>, <<"confirm", 1>>, <<"record", 1>>>>
             \o <<<<"submit", 1>>, <<"start", 1>>, <<"run", 1>>, <<"result", 1>>>>
           w == <<<<"seal", 1>>, <<"confirm", 1>>, <<"record", 1>>, <<"submit", 1>>, <<"start", 1>>, <<"run", 1>>, <<"result", 1>>>>
<1>1. Len(p) = 7 /\ p \in Seq(Step) /\ w \in Seq(Step) /\ Len(w) = 7
  BY DEF Step, Name, Working, Recording, Answering
<1>2. p[1] = w[1] /\ p[2] = w[2] /\ p[3] = w[3] /\ p[4] = w[4] /\ p[5] = w[5] /\ p[6] = w[6] /\ p[7] = w[7]
  OBVIOUS
<1>3. \A i \in 1 .. 7 : p[i] = w[i]
  BY <1>2
<1>4. p = w
  BY <1>1, <1>3, SeqEqual
<1>5. /\ p = Steps(<<"seal", "confirm", "record">>) \o Steps(<<"submit", "start", "run", "result">>)
      /\ w = Steps(<<"seal", "confirm", "record", "submit", "start", "run", "result">>)
  BY DEF Steps
<1> QED
  BY <1>4, <1>5 DEF Job, Queued

LEMMA Permanent == <<"look", "confirm">> \o <<>> \o <<"record">> = <<"look", "confirm", "record">>
<1> DEFINE p == <<"look", "confirm">> \o <<>> \o <<"record">>
           w == <<"look", "confirm", "record">>
<1>1. Len(p) = 3 /\ p \in Seq(Name) /\ w \in Seq(Name) /\ Len(w) = 3
  BY DEF Name, Recording
<1>2. p[1] = w[1] /\ p[2] = w[2] /\ p[3] = w[3]
  OBVIOUS
<1>3. \A i \in 1 .. 3 : p[i] = w[i]
  BY <1>2
<1> QED
  BY <1>1, <1>3, SeqEqual

LEMMA ToTrash == <<"look", "confirm">> \o <<"root">> \o <<"record">> = <<"look", "confirm", "root", "record">>
<1> DEFINE p == <<"look", "confirm">> \o <<"root">> \o <<"record">>
           w == <<"look", "confirm", "root", "record">>
<1>1. Len(p) = 4 /\ p \in Seq(Name) /\ w \in Seq(Name) /\ Len(w) = 4
  BY DEF Name, Recording
<1>2. p[1] = w[1] /\ p[2] = w[2] /\ p[3] = w[3] /\ p[4] = w[4]
  OBVIOUS
<1>3. \A i \in 1 .. 4 : p[i] = w[i]
  BY <1>2
<1> QED
  BY <1>1, <1>3, SeqEqual

LEMMA BatchSteps == deleteBatch.steps =
    <<<<"seal", 0>>, <<"confirm", 0>>, <<"each", 1>>, <<"entry", 1>>, <<"call", 1>>, <<"note", 1>>,
      <<"each", 2>>, <<"entry", 2>>, <<"call", 2>>, <<"note", 2>>, <<"sum", 0>>>>
<1> DEFINE p == <<<<"seal", 0>>, <<"confirm", 0>>>> \o Item(1) \o Item(2) \o <<<<"sum", 0>>>>
           w == <<<<"seal", 0>>, <<"confirm", 0>>, <<"each", 1>>, <<"entry", 1>>, <<"call", 1>>, <<"note", 1>>,
                  <<"each", 2>>, <<"entry", 2>>, <<"call", 2>>, <<"note", 2>>, <<"sum", 0>>>>
<1>1. Len(p) = 11 /\ Len(w) = 11
  BY DEF Item
<1>2. p \in Seq(Step)
  BY DEF Item, Step, Name, Working, Recording, Answering
<1>3. w \in Seq(Step)
  BY DEF Step, Name, Working, Recording, Answering
<1>4. p[1] = w[1] /\ p[2] = w[2] /\ p[3] = w[3] /\ p[4] = w[4] /\ p[5] = w[5] /\ p[6] = w[6]
  BY DEF Item
<1>5. p[7] = w[7] /\ p[8] = w[8] /\ p[9] = w[9] /\ p[10] = w[10] /\ p[11] = w[11]
  BY DEF Item
<1> HIDE DEF p, w
<1>6. \A i \in 1 .. 11 : p[i] = w[i]
  BY <1>4, <1>5
<1>7. p = w
  BY <1>1, <1>2, <1>3, <1>6, SeqEqual
<1> QED
  BY <1>7 DEF deleteBatch, Handler, p, w

LEMMA BatchScript == Script(deleteBatch.steps)
<1> DEFINE q == <<<<"seal", 0>>, <<"confirm", 0>>, <<"each", 1>>, <<"entry", 1>>, <<"call", 1>>, <<"note", 1>>,
                  <<"each", 2>>, <<"entry", 2>>, <<"call", 2>>, <<"note", 2>>, <<"sum", 0>>>>
<1>1. q \in Seq(Step)
  BY DEF Step, Name, Working, Recording, Answering
<1>2. deleteBatch.steps = q
  BY BatchSteps
<1>3. \A i, j \in DOMAIN q : i < j /\ q[i][2] = q[j][2] => Rank(q[i][1]) < Rank(q[j][1])
  BY Ranks
<1>4. \A i, j, k \in DOMAIN q : i < j /\ j < k /\ q[i][2] = q[k][2] /\ q[i][2] # 0 => q[j][2] = q[i][2]
  OBVIOUS
<1>5. \A i \in DOMAIN q :
        /\ q[i][2] = 0 => q[i][1] \in {"seal", "confirm", "spend", "sum", "deny", "dismiss", "rooted"}
        /\ q[i][1] \in {"sum", "rooted"} => q[i][2] = 0
        /\ q[i][1] \in Final => i = Len(q)
        /\ q[i][1] \notin {"root", "rooted", "submit", "start", "open", "body", "save", "spend"}
        /\ q[i][1] \notin Through /\ q[i][1] \notin Locked /\ q[i][1] \notin Sudden
  BY DEF Final, Locked, Through, Sudden, Denying
<1>6. \A i \in DOMAIN q : q[i][1] = "each" =>
        /\ i + 3 \in DOMAIN q
        /\ q[i + 1] = <<"entry", q[i][2]>> /\ q[i + 2] = <<"call", q[i][2]>> /\ q[i + 3] = <<"note", q[i][2]>>
  OBVIOUS
<1>7. \A j \in DOMAIN q : Rank(q[j][1]) > 5 /\ q[j][2] # 0 =>
        \/ 4 < j /\ 4 \in DOMAIN q /\ q[4] \in Recording \X {q[j][2]}
        \/ 8 < j /\ 8 \in DOMAIN q /\ q[8] \in Recording \X {q[j][2]}
  BY Ranks DEF Recording
<1>8. q[Len(q)] = <<"sum", 0>> /\ \A j \in DOMAIN q : q[j][1] \in Recording =>
        \/ j < 6 /\ 6 \in DOMAIN q /\ q[6] \in Answering \X {q[j][2]}
        \/ j < 10 /\ 10 \in DOMAIN q /\ q[10] \in Answering \X {q[j][2]}
  BY DEF Recording, Answering
<1> HIDE DEF q
<1>9. Plan(q)
  <2>1. Rises(q) /\ Together(q) /\ Numbers(q) /\ Ends(q) /\ UnderLock(q)
    BY <1>3, <1>4, <1>5 DEF Rises, Together, Numbers, Ends, UnderLock
  <2>2. Whole(q)
    BY <1>5, <1>6, <1>8 DEF Whole
  <2> QED
    BY <1>1, <2>1, <2>2 DEF Plan
<1>10. Permitted(q, {})
  BY <1>7 DEF Permitted
<1> QED
  BY <1>2, <1>5, <1>9, <1>10 DEF Script

\* Only the settings take the lock; what changes an ACL has looked at it before.
Apart(q) == \A j \in DOMAIN q : q[j][1] \notin Locked \cup {"lock"}
Looks(q) == \A j \in DOMAIN q : q[j][1] \in Working \cup {"start"} => \E i \in DOMAIN q : i < j /\ q[i][1] = "look"

LEMMA PlainSteps ==
    /\ Apart(Steps(<<"look", "confirm", "record", "call", "result">>))
    /\ Apart(Steps(<<"slot", "look", "confirm", "bind", "record", "open", "body", "land", "result">>))
    /\ Apart(Steps(<<"look", "confirm", "record", "submit", "start", "run", "result">>))
    /\ Apart(Steps(<<"look", "confirm", "root", "record", "submit", "start", "run", "result">>))
    /\ Apart(Steps(<<"seal", "clear", "record", "submit", "start", "run", "result">>))
    /\ Apart(Steps(<<"seal", "confirm", "record", "submit", "start", "run", "result">>))
    /\ Apart(deleteBatch.steps) /\ Apart(<<>>) /\ Script(<<>>)
<1>1. Apart(Steps(<<"look", "confirm", "record", "call", "result">>))
  BY DEF Apart, Steps, Locked
<1>2. Apart(Steps(<<"slot", "look", "confirm", "bind", "record", "open", "body", "land", "result">>))
  BY DEF Apart, Steps, Locked
<1>3. Apart(Steps(<<"look", "confirm", "record", "submit", "start", "run", "result">>))
  BY DEF Apart, Steps, Locked
<1>4. Apart(Steps(<<"look", "confirm", "root", "record", "submit", "start", "run", "result">>))
  BY DEF Apart, Steps, Locked
<1>5. Apart(Steps(<<"seal", "clear", "record", "submit", "start", "run", "result">>))
  BY DEF Apart, Steps, Locked
<1>6. Apart(Steps(<<"seal", "confirm", "record", "submit", "start", "run", "result">>))
  BY DEF Apart, Steps, Locked
<1>7. Apart(<<>>) /\ Script(<<>>)
  BY DEF Apart, Script, Plan, Permitted, Rises, Together, Numbers, Ends, Whole, UnderLock
<1>8. Apart(deleteBatch.steps)
  BY BatchSteps DEF Apart, Locked
<1> QED
  BY <1>1, <1>2, <1>3, <1>4, <1>5, <1>6, <1>7, <1>8, Zenon

LEMMA AclSteps == Looks(Steps(<<"look", "confirm", "record", "call", "result">>))
                  /\ Looks(Steps(<<"look", "confirm", "record", "submit", "start", "run", "result">>))
<1> DEFINE s == <<"look", "confirm", "record", "call", "result">>
           t == <<"look", "confirm", "record", "submit", "start", "run", "result">>
<1>1. /\ 1 \in DOMAIN Steps(s) /\ Steps(s)[1][1] = "look" /\ \A j \in DOMAIN Steps(s) : j >= 1
      /\ 1 \in DOMAIN Steps(t) /\ Steps(t)[1][1] = "look" /\ \A j \in DOMAIN Steps(t) : j >= 1
      /\ Working \cup {"start"} \subseteq {"call", "run", "open", "start"}
      /\ DOMAIN Steps(s) \subseteq Int /\ DOMAIN Steps(t) \subseteq Int
  BY DEF Steps, Working
<1> HIDE DEF s, t
<1>2. Looks(Steps(s)) /\ Looks(Steps(t))
  <2>1. ASSUME NEW q, 1 \in DOMAIN q, q[1][1] = "look", \A j \in DOMAIN q : j >= 1, DOMAIN q \subseteq Int
        PROVE  Looks(q)
    BY <2>1, <1>1 DEF Looks
  <2> QED
    BY <1>1, <2>1
<1> QED
  BY <1>2 DEF s, t

LEMMA SettingsSteps == \A j \in DOMAIN Steps(<<"lock", "intent", "save", "apply", "report">>) :
    Steps(<<"lock", "intent", "save", "apply", "report">>)[j][1] \notin Working
  BY DEF Steps, Working

\* Every handler has a script.
Fine(h, q) ==
    /\ Script(q)
    /\ h # "settings" => Apart(q)
    /\ h = "settings" => \A j \in DOMAIN q : q[j][1] \notin Working
    /\ h \in {"chmod", "jobChmod"} => Looks(q)

LEMMA Handlers == \A h \in DOMAIN dispatch : Fine(h, dispatch[h].steps)
<1>1. \A h \in {"mkdir", "rename", "delete", "chmod", "chown"} : Fine(h, dispatch[h].steps)
  <2>1. \A h \in {"mkdir", "rename", "delete", "chmod", "chown"} :
            dispatch[h].steps = Steps(<<"look", "confirm", "record", "call", "result">>)
    BY DEF dispatch, mkdir, rename, deleteSingle, chmod, chown, Handler, Sync
  <2> QED
    BY <2>1, SyncScript, PlainSteps, AclSteps DEF Fine
<1>2. \A h \in {"jobDelete", "jobTransfer", "jobChmod", "jobChown"} : Fine(h, dispatch[h].steps)
  <2>1. jobDelete(TRUE).steps = Job(<<"look", "confirm", "record">>)
    BY Permanent DEF jobDelete, Handler
  <2>2. /\ dispatch["jobDelete"].steps = jobDelete(TRUE).steps
        /\ dispatch["jobTransfer"].steps = Job(<<"look", "confirm", "record">>)
        /\ dispatch["jobChmod"].steps = Job(<<"look", "confirm", "record">>)
        /\ dispatch["jobChown"].steps = Job(<<"look", "confirm", "record">>)
    BY DEF dispatch, jobTransfer, jobChmod, jobChown, Handler
  <2>3. \A h \in {"jobDelete", "jobTransfer", "jobChmod", "jobChown"} :
            dispatch[h].steps = Steps(<<"look", "confirm", "record", "submit", "start", "run", "result">>)
    BY <2>1, <2>2, JobSteps
  <2> QED
    BY <2>3, JobScript, PlainSteps, AclSteps DEF Fine
<1>3. Fine("jobTrash", dispatch["jobTrash"].steps)
  <2>1. dispatch["jobTrash"].steps = Job(<<"look", "confirm", "root", "record">>)
    BY ToTrash DEF dispatch, jobDelete, Handler
  <2> QED
    BY <2>1, TrashSteps, TrashScript, PlainSteps DEF Fine
<1>4. Fine("restore", dispatch["restore"].steps)
  BY RestoreSteps, RestoreScript, PlainSteps DEF Fine, dispatch, trashRestore, Handler
<1>5. Fine("empty", dispatch["empty"].steps)
  BY EmptySteps, EmptyScript, PlainSteps DEF Fine, dispatch, trashEmpty, Handler
<1>6. Fine("upload", dispatch["upload"].steps)
  BY UploadScript, PlainSteps DEF Fine, dispatch, upload, Handler
<1>7. Fine("settings", dispatch["settings"].steps)
  BY SettingsScript, SettingsSteps DEF Fine, dispatch, postSettings, Handler
<1>8. Fine("plain", dispatch["plain"].steps)
  BY PlainSteps DEF Fine, dispatch, Handler
<1>9. Fine("batch", dispatch["batch"].steps)
  <2>1. dispatch["batch"].steps = deleteBatch.steps
    BY DEF dispatch
  <2> QED
    BY <2>1, BatchScript, PlainSteps DEF Fine
<1> QED
  BY <1>1, <1>2, <1>3, <1>4, <1>5, <1>6, <1>7, <1>8, <1>9 DEF dispatch
-----------------------------------------------------------------------------
(* What a step makes of a plan. *)

\* p is what follows the first d steps of q; and x with t after it.
Follows(p, q, d) ==
    /\ p \in Seq(Step) /\ Len(p) = Len(q) - d
    /\ \A i \in 1 .. Len(p) : i + d \in 1 .. Len(q) /\ p[i] = q[i + d]
Puts(p, x, t) ==
    /\ p \in Seq(Step) /\ Len(p) = Len(t) + 1 /\ p[1] = x
    /\ \A i \in 1 .. Len(t) : p[i + 1] = t[i]

LEMMA TailFollows ==
    ASSUME NEW q \in Seq(Step), q # <<>>
    PROVE  Follows(Tail(q), q, 1) /\ Head(q) = q[1] /\ Len(q) \in Nat \ {0} /\ DOMAIN q = 1 .. Len(q)
<1>1. /\ Len(q) \in Nat \ {0} /\ Head(q) = q[1] /\ Tail(q) \in Seq(Step) /\ Len(Tail(q)) = Len(q) - 1
      /\ \A i \in 1 .. Len(Tail(q)) : Tail(q)[i] = q[i + 1]
  BY HeadTailProperties
<1> QED
  BY <1>1 DEF Follows

LEMMA RestFollows ==
    ASSUME NEW q \in Seq(Step), Len(q) >= 4
    PROVE  Follows(SubSeq(q, 5, Len(q)), q, 4)
<1> DEFINE t == SubSeq(q, 5, Len(q))
<1>1. Len(q) \in Nat
  OBVIOUS
<1>2. \A i \in 5 .. Len(q) : q[i] \in Step
  BY <1>1
<1>3. /\ t \in Seq(Step)
      /\ Len(t) = IF 5 <= Len(q) THEN Len(q) - 5 + 1 ELSE 0
      /\ \A i \in 1 .. Len(q) - 5 + 1 : t[i] = q[5 + i - 1]
  BY <1>1, <1>2, SubSeqProperties
<1> HIDE DEF t
<1>4. Len(t) = Len(q) - 4
  <2>1. PICK n \in Nat : n = Len(q)
    BY <1>1
  <2>2. n >= 4 /\ Len(t) = IF 5 <= n THEN n - 5 + 1 ELSE 0
    BY <1>3, <2>1
  <2> QED
    BY <2>1, <2>2
<1>5. ASSUME NEW i \in 1 .. Len(t) PROVE i + 4 \in 1 .. Len(q) /\ t[i] = q[i + 4]
  <2>1. i \in 1 .. Len(q) - 5 + 1 /\ 5 + i - 1 = i + 4 /\ i + 4 \in 1 .. Len(q)
    BY <1>1, <1>4
  <2>2. t[i] = q[5 + i - 1]
    BY <2>1, <1>3, Zenon
  <2> QED
    BY <2>1, <2>2
<1> QED
  BY <1>3, <1>4, <1>5 DEF Follows, t

LEMMA ConsPuts ==
    ASSUME NEW t \in Seq(Step), NEW x \in Step
    PROVE  Puts(<<x>> \o t, x, t)
<1>1. Len(t) \in Nat
  OBVIOUS
<1>7. <<x>> \in Seq(Step)
  OBVIOUS
<1>2. PICK u \in Seq(Step) : u = <<x>>
  BY <1>7
<1>3. Len(u) = 1 /\ u[1] = x
  BY <1>2
<1>4. /\ u \o t \in Seq(Step) /\ Len(u \o t) = Len(u) + Len(t)
      /\ \A i \in 1 .. Len(u) + Len(t) : (u \o t)[i] = IF i <= Len(u) THEN u[i] ELSE t[i - Len(u)]
  BY ConcatProperties
<1>5. ASSUME NEW i \in 1 .. Len(t) PROVE (u \o t)[i + 1] = t[i]
  <2>1. i + 1 \in 1 .. Len(u) + Len(t) /\ ~(i + 1 <= Len(u)) /\ (i + 1) - Len(u) = i
    BY <1>1, <1>3
  <2> QED
    BY <2>1, <1>4
<1>6. u \o t \in Seq(Step) /\ Len(u \o t) = Len(t) + 1 /\ (u \o t)[1] = x
  BY <1>1, <1>3, <1>4
<1> QED
  BY <1>2, <1>5, <1>6 DEF Puts

\* Plans stay plans.
LEMMA PlanOfRest ==
    ASSUME NEW p, NEW q, NEW d \in Nat, Plan(q), Follows(p, q, d)
    PROVE  Plan(p)
<1>0. Len(q) \in Nat /\ DOMAIN q = 1 .. Len(q) /\ Len(p) \in Nat /\ DOMAIN p = 1 .. Len(p) /\ Len(p) = Len(q) - d
  BY DEF Plan, Follows
<1>1. \A i \in 1 .. Len(p) : i + d \in 1 .. Len(q) /\ p[i] = q[i + d]
  BY DEF Follows
<1>2. \A i \in 1 .. Len(q) : i > d => i - d \in 1 .. Len(p) /\ p[i - d] = q[i]
  BY <1>0, <1>1
<1>9. \A i \in DOMAIN p : \E k \in DOMAIN q : k = i + d /\ q[k] = p[i]
  BY <1>0, <1>1
<1>3. Rises(p)
  <2> SUFFICES ASSUME NEW i \in DOMAIN p, NEW j \in DOMAIN p, i < j, p[i][2] = p[j][2]
               PROVE  Rank(p[i][1]) < Rank(p[j][1])
    BY DEF Rises
  <2>1. PICK k \in DOMAIN q : k = i + d /\ q[k] = p[i]
    BY <1>9
  <2>2. PICK l \in DOMAIN q : l = j + d /\ q[l] = p[j]
    BY <1>9
  <2>3. k < l
    BY <1>0, <2>1, <2>2
  <2> QED
    BY <2>1, <2>2, <2>3 DEF Rises, Plan
<1>4. Together(p)
  <2> SUFFICES ASSUME NEW i \in DOMAIN p, NEW j \in DOMAIN p, NEW k \in DOMAIN p,
                      i < j, j < k, p[i][2] = p[k][2], p[i][2] # 0
               PROVE  p[j][2] = p[i][2]
    BY DEF Together
  <2>1. PICK l \in DOMAIN q : l = i + d /\ q[l] = p[i]
    BY <1>9
  <2>2. PICK m \in DOMAIN q : m = j + d /\ q[m] = p[j]
    BY <1>9
  <2>3. PICK n \in DOMAIN q : n = k + d /\ q[n] = p[k]
    BY <1>9
  <2>4. l < m /\ m < n
    BY <1>0, <2>1, <2>2, <2>3
  <2> QED
    BY <2>1, <2>2, <2>3, <2>4 DEF Together, Plan
<1>5. Numbers(p)
  <2> SUFFICES ASSUME NEW i \in DOMAIN p
               PROVE  /\ p[i][2] = 0 => p[i][1] \in {"seal", "confirm", "spend", "sum", "deny", "dismiss", "rooted"}
                      /\ p[i][1] \in {"sum", "rooted"} => p[i][2] = 0
                      /\ p[i][1] = "root" => \A j \in DOMAIN p : p[j][2] = p[i][2]
                      /\ p[i][1] = "rooted" => \A j \in DOMAIN p : i < j => p[j][2] # 0
    BY DEF Numbers
  <2>1. PICK k \in DOMAIN q : k = i + d /\ q[k] = p[i]
    BY <1>0, <1>1
  <2>2. ASSUME NEW j \in DOMAIN p PROVE \E l \in DOMAIN q : (i < j => k < l) /\ q[l] = p[j]
    <3>1. PICK l \in DOMAIN q : l = j + d /\ q[l] = p[j]
      BY <1>9
    <3>2. i < j => k < l
      BY <1>0, <2>1, <3>1
    <3> QED
      BY <3>1, <3>2
  <2> QED
    BY <2>1, <2>2 DEF Numbers, Plan
<1>6. Ends(p)
  BY <1>0, <1>1 DEF Ends, Plan
<1>7. Whole(p)
  <2> SUFFICES ASSUME NEW i \in DOMAIN p
               PROVE  /\ p[i][1] \in {"submit", "start", "open", "body", "save"} =>
                            \A j \in DOMAIN p : i < j => p[j][2] = p[i][2]
                      /\ p[i][1] = "each" =>
                            /\ i + 3 \in DOMAIN p
                            /\ p[i + 1] = <<"entry", p[i][2]>> /\ p[i + 2] = <<"call", p[i][2]>>
                            /\ p[i + 3] = <<"note", p[i][2]>>
                      /\ p[i][1] \in {"each", "entry"} => p[Len(p)] = <<"sum", 0>>
                      /\ p[i][1] \in Recording => \E j \in DOMAIN p : i < j /\ p[j] \in Answering \X {p[i][2]}
    BY DEF Whole
  <2>1. PICK k \in DOMAIN q : k = i + d /\ q[k] = p[i]
    BY <1>0, <1>1
  <2>2. ASSUME NEW j \in DOMAIN p PROVE \E l \in DOMAIN q : (i < j => k < l) /\ q[l] = p[j]
    <3>1. PICK l \in DOMAIN q : l = j + d /\ q[l] = p[j]
      BY <1>9
    <3>2. i < j => k < l
      BY <1>0, <2>1, <3>1
    <3> QED
      BY <3>1, <3>2
  <2>3. \A l \in DOMAIN q : k < l => \E j \in DOMAIN p : i < j /\ q[l] = p[j]
    BY <1>0, <1>2, <2>1
  <2>4. p[Len(p)] = q[Len(q)]
    BY <1>0, <1>1
  <2>5. k + 3 \in DOMAIN q => i + 3 \in DOMAIN p /\ p[i + 1] = q[k + 1] /\ p[i + 2] = q[k + 2] /\ p[i + 3] = q[k + 3]
    <3> SUFFICES ASSUME k + 3 \in DOMAIN q
                 PROVE  i + 3 \in DOMAIN p /\ p[i + 1] = q[k + 1] /\ p[i + 2] = q[k + 2] /\ p[i + 3] = q[k + 3]
      OBVIOUS
    <3>1. i + 1 \in 1 .. Len(p) /\ i + 2 \in 1 .. Len(p) /\ i + 3 \in 1 .. Len(p)
      BY <1>0, <2>1
    <3>2. p[i + 1] = q[(i + 1) + d] /\ p[i + 2] = q[(i + 2) + d] /\ p[i + 3] = q[(i + 3) + d]
      BY <1>1, <3>1
    <3>3. (i + 1) + d = k + 1 /\ (i + 2) + d = k + 2 /\ (i + 3) + d = k + 3
      BY <1>0, <2>1
    <3> QED
      BY <1>0, <3>1, <3>2, <3>3
  <2>6. p[i][1] = "each" =>
                            /\ i + 3 \in DOMAIN p
                            /\ p[i + 1] = <<"entry", p[i][2]>> /\ p[i + 2] = <<"call", p[i][2]>>
                            /\ p[i + 3] = <<"note", p[i][2]>>
    BY <2>1, <2>5 DEF Whole, Plan
  <2>7. p[i][1] \in Recording => \E j \in DOMAIN p : i < j /\ p[j] \in Answering \X {p[i][2]}
    BY <2>1, <2>3 DEF Whole, Plan
  <2>8. p[i][1] \in {"submit", "start", "open", "body", "save"} => \A j \in DOMAIN p : i < j => p[j][2] = p[i][2]
    BY <2>1, <2>2 DEF Whole, Plan
  <2>9. p[i][1] \in {"each", "entry"} => p[Len(p)] = <<"sum", 0>>
    BY <2>1, <2>4 DEF Whole, Plan
  <2> QED
    BY <2>6, <2>7, <2>8, <2>9
<1>8. UnderLock(p)
  <2> SUFFICES ASSUME NEW i \in DOMAIN p
               PROVE  /\ p[i][1] \in Through => i + 1 \in DOMAIN p /\ p[i + 1][1] = Successor(p[i][1])
                      /\ i + 1 \in DOMAIN p /\ p[i + 1][1] \in Locked => p[i][1] \in Through
    BY DEF UnderLock
  <2>1. PICK k \in DOMAIN q : k = i + d /\ q[k] = p[i]
    BY <1>9
  <2>2. i + 1 \in DOMAIN p <=> k + 1 \in DOMAIN q
    BY <1>0, <2>1
  <2>3. i + 1 \in DOMAIN p => p[i + 1] = q[k + 1]
    <3>1. (i + 1) + d = k + 1
      BY <1>0, <2>1
    <3> QED
      BY <1>0, <1>1, <3>1
  <2> QED
    BY <2>1, <2>2, <2>3 DEF UnderLock, Plan
<1> QED
  BY <1>3, <1>4, <1>5, <1>6, <1>7, <1>8 DEF Plan, Follows


\* x may come before t.
May(x, t) ==
    /\ x[1] \in {"spend", "rooted", "strike"}
    /\ x[2] = 0 => x[1] # "strike"
    /\ x[1] = "rooted" => x[2] = 0
    /\ \A j \in DOMAIN t :
        /\ t[j][2] = x[2] => Rank(x[1]) < Rank(t[j][1])
        /\ t[j][1] \notin Sudden
        /\ t[j][1] = "root" => x[2] = t[j][2]
        /\ x[1] = "rooted" => t[j][2] # 0
        /\ j = 1 => t[j][1] \notin Locked
    /\ x[2] # 0 => \A j, k \in DOMAIN t : j < k /\ t[k][2] = x[2] => t[j][2] = x[2]

LEMMA PlanOfPut ==
    ASSUME NEW p, NEW x \in Step, NEW t, Plan(t), Puts(p, x, t), May(x, t)
    PROVE  Plan(p)
<1>0. Len(t) \in Nat /\ DOMAIN t = 1 .. Len(t) /\ Len(p) \in Nat /\ DOMAIN p = 1 .. Len(p) /\ Len(p) = Len(t) + 1
  BY DEF Plan, Puts
<1>1. ASSUME NEW i \in DOMAIN p, i # 1 PROVE i > 1 /\ \E k \in DOMAIN t : i = k + 1 /\ p[i] = t[k]
  <2>1. i > 1 /\ i - 1 \in 1 .. Len(t) /\ i = (i - 1) + 1
    BY <1>0, <1>1
  <2>2. p[i] = t[i - 1]
    BY <2>1 DEF Puts
  <2> QED
    BY <1>0, <2>1, <2>2
<1>2. 1 \in DOMAIN p /\ p[1] = x /\ \A k \in DOMAIN t : k + 1 \in DOMAIN p /\ p[k + 1] = t[k]
  BY <1>0 DEF Puts
<1>3. Rises(p)
  <2> SUFFICES ASSUME NEW i \in DOMAIN p, NEW j \in DOMAIN p, i < j, p[i][2] = p[j][2]
               PROVE  Rank(p[i][1]) < Rank(p[j][1])
    BY DEF Rises
  <2>1. PICK l \in DOMAIN t : j = l + 1 /\ p[j] = t[l]
    BY <1>0, <1>1
  <2>2. CASE i = 1
    BY <1>2, <2>1, <2>2 DEF May
  <2>3. CASE i # 1
    <3>1. PICK k \in DOMAIN t : i = k + 1 /\ p[i] = t[k]
      BY <1>1, <2>3
    <3>2. k < l
      BY <1>0, <2>1, <3>1
    <3> QED
      BY <2>1, <3>1, <3>2 DEF Rises, Plan
  <2> QED
    BY <2>2, <2>3
<1>4. Together(p)
  <2> SUFFICES ASSUME NEW i \in DOMAIN p, NEW j \in DOMAIN p, NEW k \in DOMAIN p,
                      i < j, j < k, p[i][2] = p[k][2], p[i][2] # 0
               PROVE  p[j][2] = p[i][2]
    BY DEF Together
  <2>1. PICK m \in DOMAIN t : j = m + 1 /\ p[j] = t[m]
    BY <1>0, <1>1
  <2>2. PICK n \in DOMAIN t : k = n + 1 /\ p[k] = t[n]
    BY <1>0, <1>1
  <2>3. m < n
    BY <1>0, <2>1, <2>2
  <2>4. CASE i = 1
    BY <1>2, <2>1, <2>2, <2>3, <2>4 DEF May
  <2>5. CASE i # 1
    <3>1. PICK l \in DOMAIN t : i = l + 1 /\ p[i] = t[l]
      BY <1>1, <2>5
    <3>2. l < m
      BY <1>0, <2>1, <3>1
    <3> QED
      BY <2>1, <2>2, <2>3, <3>1, <3>2 DEF Together, Plan
  <2> QED
    BY <2>4, <2>5
<1>5. \A i \in DOMAIN p : p[i] = x \/ \E k \in DOMAIN t : p[i] = t[k]
  BY <1>1, <1>2
<1>6. Numbers(p)
  <2> SUFFICES ASSUME NEW i \in DOMAIN p
               PROVE  /\ p[i][2] = 0 => p[i][1] \in {"seal", "confirm", "spend", "sum", "deny", "dismiss", "rooted"}
                      /\ p[i][1] \in {"sum", "rooted"} => p[i][2] = 0
                      /\ p[i][1] = "root" => \A j \in DOMAIN p : p[j][2] = p[i][2]
                      /\ p[i][1] = "rooted" => \A j \in DOMAIN p : i < j => p[j][2] # 0
    BY DEF Numbers
  <2>1. CASE i = 1
    <3>1. \A j \in DOMAIN p : i < j => \E k \in DOMAIN t : p[j] = t[k]
      BY <1>0, <1>1, <2>1
    <3> QED
      BY <1>2, <2>1, <3>1 DEF May
  <2>2. CASE i # 1
    <3>1. PICK k \in DOMAIN t : i = k + 1 /\ p[i] = t[k]
      BY <1>1, <2>2
    <3>2. ASSUME NEW j \in DOMAIN p, i < j PROVE \E l \in DOMAIN t : k < l /\ p[j] = t[l]
      <4>1. PICK l \in DOMAIN t : j = l + 1 /\ p[j] = t[l]
        BY <1>0, <1>1, <3>2
      <4> QED
        BY <1>0, <3>1, <3>2, <4>1
    <3> QED
      BY <1>5, <3>1, <3>2 DEF May, Numbers, Plan
  <2> QED
    BY <2>1, <2>2
<1>7. x[1] \notin Final \cup Recording \cup Through \cup {"submit", "start", "open", "body", "save", "each"}
  BY DEF May, Final, Recording, Through
<1>8. Ends(p)
  <2>1. ASSUME NEW i \in DOMAIN p, i # 1 PROVE p[i][1] \notin Sudden /\ (p[i][1] \in Final => i = Len(p))
    <3>1. PICK k \in DOMAIN t : i = k + 1 /\ p[i] = t[k]
      BY <1>1, <2>1
    <3> QED
      BY <1>0, <3>1 DEF May, Ends, Plan
  <2> QED
    BY <1>2, <1>7, <2>1 DEF Ends
<1>9. Whole(p)
  <2> SUFFICES ASSUME NEW i \in DOMAIN p, i # 1
               PROVE  /\ p[i][1] \in {"submit", "start", "open", "body", "save"} =>
                            \A j \in DOMAIN p : i < j => p[j][2] = p[i][2]
                      /\ p[i][1] = "each" =>
                            /\ i + 3 \in DOMAIN p
                            /\ p[i + 1] = <<"entry", p[i][2]>> /\ p[i + 2] = <<"call", p[i][2]>>
                            /\ p[i + 3] = <<"note", p[i][2]>>
                      /\ p[i][1] \in {"each", "entry"} => p[Len(p)] = <<"sum", 0>>
                      /\ p[i][1] \in Recording => \E j \in DOMAIN p : i < j /\ p[j] \in Answering \X {p[i][2]}
    BY <1>2, <1>7 DEF Whole, Recording
  <2>1. PICK k \in DOMAIN t : i = k + 1 /\ p[i] = t[k]
    BY <1>1
  <2>2. ASSUME NEW j \in DOMAIN p, i < j PROVE \E l \in DOMAIN t : k < l /\ p[j] = t[l]
    <3>1. PICK l \in DOMAIN t : j = l + 1 /\ p[j] = t[l]
      BY <1>0, <1>1, <2>2
    <3> QED
      BY <1>0, <2>1, <2>2, <3>1
  <2>3. ASSUME NEW l \in DOMAIN t, k < l PROVE \E j \in DOMAIN p : i < j /\ p[j] = t[l]
    BY <1>0, <1>2, <2>1, <2>3
  <2>4. p[Len(p)] = t[Len(t)]
    BY <1>0, <1>2, <2>1
  <2>5. k + 3 \in DOMAIN t => i + 3 \in DOMAIN p /\ p[i + 1] = t[k + 1] /\ p[i + 2] = t[k + 2] /\ p[i + 3] = t[k + 3]
    <3> SUFFICES ASSUME k + 3 \in DOMAIN t
                 PROVE  i + 3 \in DOMAIN p /\ p[i + 1] = t[k + 1] /\ p[i + 2] = t[k + 2] /\ p[i + 3] = t[k + 3]
      OBVIOUS
    <3>1. k + 1 \in DOMAIN t /\ k + 2 \in DOMAIN t
      BY <1>0
    <3>2. p[(k + 1) + 1] = t[k + 1] /\ p[(k + 2) + 1] = t[k + 2] /\ p[(k + 3) + 1] = t[k + 3] /\ (k + 3) + 1 \in DOMAIN p
      BY <1>2, <3>1
    <3>3. i + 1 = (k + 1) + 1 /\ i + 2 = (k + 2) + 1 /\ i + 3 = (k + 3) + 1
      BY <1>0, <2>1
    <3> QED
      BY <3>2, <3>3
  <2>6. p[i][1] = "each" =>
                            /\ i + 3 \in DOMAIN p
                            /\ p[i + 1] = <<"entry", p[i][2]>> /\ p[i + 2] = <<"call", p[i][2]>>
                            /\ p[i + 3] = <<"note", p[i][2]>>
    BY <2>1, <2>5 DEF Whole, Plan
  <2>7. p[i][1] \in Recording => \E j \in DOMAIN p : i < j /\ p[j] \in Answering \X {p[i][2]}
    BY <2>1, <2>3 DEF Whole, Plan
  <2>8. p[i][1] \in {"submit", "start", "open", "body", "save"} => \A j \in DOMAIN p : i < j => p[j][2] = p[i][2]
    BY <2>1, <2>2 DEF Whole, Plan
  <2>9. p[i][1] \in {"each", "entry"} => p[Len(p)] = <<"sum", 0>>
    BY <2>1, <2>4 DEF Whole, Plan
  <2> QED
    BY <2>6, <2>7, <2>8, <2>9
<1>10. UnderLock(p)
  <2>1. ASSUME NEW i \in DOMAIN p, i # 1
        PROVE  /\ p[i][1] \in Through => i + 1 \in DOMAIN p /\ p[i + 1][1] = Successor(p[i][1])
               /\ i + 1 \in DOMAIN p /\ p[i + 1][1] \in Locked => p[i][1] \in Through
    <3>1. PICK k \in DOMAIN t : i = k + 1 /\ p[i] = t[k]
      BY <1>1, <2>1
    <3>2. i + 1 \in DOMAIN p <=> k + 1 \in DOMAIN t
      BY <1>0, <3>1
    <3>3. k + 1 \in DOMAIN t => p[i + 1] = t[k + 1]
      BY <1>2, <3>1
    <3> QED
      BY <3>1, <3>2, <3>3 DEF UnderLock, Plan
  <2>2. 1 + 1 \in DOMAIN p => p[1 + 1][1] \notin Locked
    <3>1. 1 + 1 \in DOMAIN p => 1 \in DOMAIN t
      BY <1>0
    <3> QED
      BY <1>2, <3>1 DEF May
  <2> QED
    BY <1>2, <1>7, <2>1, <2>2 DEF UnderLock
<1> QED
  BY <1>3, <1>4, <1>6, <1>8, <1>9, <1>10 DEF Plan, Puts
-----------------------------------------------------------------------------
(* How each move of a handler keeps a plan, and what it presumes. *)

LEMMA Shape ==
    ASSUME NEW q, Plan(q), q # <<>>
    PROVE  /\ q \in Seq(Step) /\ Len(q) \in Nat \ {0} /\ DOMAIN q = 1 .. Len(q) /\ 1 \in DOMAIN q
           /\ \A j \in DOMAIN q : q[j] \in Step /\ q[j][1] \in Name /\ q[j][2] \in 0 .. 2 /\ (j # 1 => 1 < j)
           /\ Head(q) = q[1] /\ Follows(Tail(q), q, 1)
<1>1. q \in Seq(Step)
  BY DEF Plan
<1>2. Follows(Tail(q), q, 1) /\ Head(q) = q[1] /\ Len(q) \in Nat \ {0} /\ DOMAIN q = 1 .. Len(q)
  BY <1>1, TailFollows
<1>3. \A j \in DOMAIN q : q[j] \in Step
  BY <1>1
<1> QED
  BY <1>1, <1>2, <1>3 DEF Step

LEMMA PlanOfOne ==
    ASSUME NEW x \in Step, x[1] \in Final \ {"report"},
           x[2] = 0 => x[1] \in {"sum", "deny", "dismiss"}, x[1] = "sum" => x[2] = 0
    PROVE  Plan(<<x>>)
<1>1. <<x>> \in Seq(Step) /\ DOMAIN <<x>> = {1} /\ <<x>>[1] = x /\ Len(<<x>>) = 1
  OBVIOUS
<1>2. \A i, j \in DOMAIN <<x>> : ~(i < j) /\ ~(i + 1 \in DOMAIN <<x>>)
  BY <1>1
<1>3. x[1] \notin Recording \cup Through \cup {"root", "rooted", "each", "entry", "submit", "start", "open", "body", "save"}
  BY DEF Final, Recording, Through
<1>4. Rises(<<x>>) /\ Together(<<x>>) /\ Ends(<<x>>) /\ UnderLock(<<x>>)
  BY <1>1, <1>2, <1>3 DEF Rises, Together, Ends, UnderLock
<1>5. Numbers(<<x>>) /\ Whole(<<x>>)
  BY <1>1, <1>2, <1>3 DEF Numbers, Whole
<1> QED
  BY <1>1, <1>4, <1>5 DEF Plan

LEMMA PlanOfTail ==
    ASSUME NEW q, Plan(q), q # <<>>
    PROVE  Plan(Tail(q))
  BY Shape, PlanOfRest

LEMMA PlanOfSpend ==
    ASSUME NEW q, Plan(q), q # <<>>, q[1][1] = "confirm"
    PROVE  Plan(<<<<"spend", q[1][2]>>>> \o Tail(q)) /\ Puts(<<<<"spend", q[1][2]>>>> \o Tail(q), <<"spend", q[1][2]>>, Tail(q))
<1> DEFINE x == <<"spend", q[1][2]>>  t == Tail(q)
<1>1. x \in Step /\ x[1] = "spend" /\ x[2] = q[1][2]
  BY Shape DEF Step, Name
<1>2. Plan(t) /\ Puts(<<x>> \o t, x, t)
  BY <1>1, PlanOfTail, ConsPuts DEF Plan
<1>3. \A j \in DOMAIN t : j + 1 \in DOMAIN q /\ t[j] = q[j + 1] /\ 1 < j + 1
  BY Shape DEF Follows
<1>4. May(x, t)
  <2>1. ASSUME NEW j \in DOMAIN t
        PROVE  /\ t[j][2] = x[2] => Rank(x[1]) < Rank(t[j][1])
               /\ t[j][1] \notin Sudden
               /\ t[j][1] = "root" => x[2] = t[j][2]
               /\ j = 1 => t[j][1] \notin Locked
    <3>1. PICK k \in DOMAIN q : k = j + 1 /\ t[j] = q[k] /\ 1 < k /\ 1 \in DOMAIN q
      BY <1>3, Shape
    <3>2. Rank(x[1]) = Rank(q[1][1])
      BY <1>1, Ranks
    <3>3. t[j][2] = x[2] => Rank(x[1]) < Rank(t[j][1])
      BY <1>1, <3>1, <3>2 DEF Plan, Rises
    <3>4. t[j][1] \notin Sudden
      BY <3>1 DEF Plan, Ends
    <3>5. t[j][1] = "root" => x[2] = t[j][2]
      BY <1>1, <3>1 DEF Plan, Numbers
    <3>6. j = 1 => t[j][1] \notin Locked
      BY <3>1 DEF Plan, UnderLock, Through
    <3> QED
      BY <3>3, <3>4, <3>5, <3>6
  <2>2. ASSUME x[2] # 0, NEW j \in DOMAIN t, NEW k \in DOMAIN t, j < k, t[k][2] = x[2] PROVE t[j][2] = x[2]
    <3>1. j + 1 \in DOMAIN q /\ k + 1 \in DOMAIN q /\ 1 < j + 1 /\ j + 1 < k + 1 /\ 1 \in DOMAIN q
      BY <1>3, <2>2, Shape
    <3> QED
      BY <1>1, <1>3, <2>2, <3>1 DEF Plan, Together
  <2> QED
    BY <1>1, <2>1, <2>2 DEF May
<1> QED
  BY <1>1, <1>2, <1>4, PlanOfPut

LEMMA PlanOfRooted ==
    ASSUME NEW q, Plan(q), q # <<>>, q[1][1] = "root"
    PROVE  Plan(<<<<"rooted", 0>>>> \o Tail(q)) /\ Puts(<<<<"rooted", 0>>>> \o Tail(q), <<"rooted", 0>>, Tail(q))
<1> DEFINE x == <<"rooted", 0>>  t == Tail(q)
<1>1. x \in Step /\ x[1] = "rooted" /\ x[2] = 0
  BY DEF Step, Name
<1>2. Plan(t) /\ Puts(<<x>> \o t, x, t)
  BY <1>1, PlanOfTail, ConsPuts DEF Plan
<1>3. \A j \in DOMAIN t : j + 1 \in DOMAIN q /\ t[j] = q[j + 1] /\ 1 < j + 1
  BY Shape DEF Follows
<1>4. q[1][2] # 0 /\ \A j \in DOMAIN q : q[j][2] = q[1][2]
  BY Shape DEF Plan, Numbers
<1>5. May(x, t)
  <2>1. ASSUME NEW j \in DOMAIN t
        PROVE  /\ t[j][2] # 0 /\ t[j][1] \notin Sudden /\ t[j][1] # "root"
               /\ j = 1 => t[j][1] \notin Locked
    <3>1. PICK k \in DOMAIN q : k = j + 1 /\ t[j] = q[k] /\ 1 < k /\ 1 \in DOMAIN q
      BY <1>3, Shape
    <3>2. t[j][2] # 0 /\ t[j][1] \notin Sudden
      BY <1>4, <3>1 DEF Plan, Ends
    <3>3. t[j][1] # "root"
      BY <1>4, <3>1, Ranks DEF Plan, Rises
    <3>6. j = 1 => t[j][1] \notin Locked
      BY <3>1 DEF Plan, UnderLock, Through
    <3> QED
      BY <3>2, <3>3, <3>6
  <2> QED
    BY <1>1, <2>1 DEF May
<1> QED
  BY <1>1, <1>2, <1>5, PlanOfPut

LEMMA PlanOfStrike ==
    ASSUME NEW q, Plan(q), q # <<>>, q[1][1] = "each"
    PROVE  LET t == SubSeq(q, 5, Len(q))  x == <<"strike", q[1][2]>> IN
           /\ Follows(t, q, 4) /\ Plan(<<x>> \o t) /\ Puts(<<x>> \o t, x, t)
           /\ \A j \in DOMAIN q : j > 4 => q[j][2] # q[1][2]
<1> DEFINE t == SubSeq(q, 5, Len(q))  x == <<"strike", q[1][2]>>
<1>1. x \in Step /\ x[1] = "strike" /\ x[2] = q[1][2] /\ x[2] # 0
  BY Shape DEF Step, Name, Denying, Plan, Numbers
<1>2. 1 \in DOMAIN q /\ 4 \in DOMAIN q /\ Len(q) \in Nat /\ DOMAIN q = 1 .. Len(q) /\ q[4] = <<"note", q[1][2]>>
  <2>1. 1 + 3 \in DOMAIN q /\ q[1 + 3] = <<"note", q[1][2]>>
    BY Shape DEF Plan, Whole
  <2> QED
    BY <2>1, Shape
<1>3. Follows(t, q, 4)
  BY <1>2, RestFollows DEF Plan
<1>4. Plan(t) /\ Puts(<<x>> \o t, x, t)
  BY <1>1, <1>3, PlanOfRest, ConsPuts DEF Follows
<1>5. ASSUME NEW j \in DOMAIN q, j > 4 PROVE q[j][2] # q[1][2] /\ q[j][1] \notin Sudden /\ (j = 5 => q[j][1] \notin Locked)
  <2>1. q[j][1] \notin Sudden
    BY <1>2, <1>5 DEF Plan, Ends
  <2>2. q[j][2] = q[4][2] => Rank(q[4][1]) < Rank(q[j][1])
    BY <1>2, <1>5 DEF Plan, Rises
  <2>3. Rank(q[4][1]) = 11 /\ q[4][2] = q[1][2] /\ q[4][1] = "note"
    BY <1>2, Ranks
  <2>4. q[j][1] \in Name /\ (Rank(q[j][1]) > 11 => q[j][1] \in Sudden)
    BY <1>5, Shape DEF Rank, Sudden, Denying, Name, Working, Recording, Answering, Locked
  <2>5. j = 5 => q[j][1] \notin Locked
    <3>1. 4 + 1 = 5
      OBVIOUS
    <3> QED
      BY <1>2, <2>3, <3>1 DEF Plan, UnderLock, Through
  <2> QED
    BY <2>1, <2>2, <2>3, <2>4, <2>5
<1>6. \A j \in DOMAIN t : j + 4 \in DOMAIN q /\ t[j] = q[j + 4] /\ j + 4 > 4 /\ (j = 1 => j + 4 = 5)
  BY <1>2, <1>3 DEF Follows
<1>7. May(x, t)
  <2>1. ASSUME NEW j \in DOMAIN t
        PROVE  /\ t[j][2] # x[2] /\ t[j][1] \notin Sudden /\ t[j][1] # "root"
               /\ j = 1 => t[j][1] \notin Locked
    <3>1. PICK k \in DOMAIN q : k > 4 /\ t[j] = q[k] /\ (j = 1 => k = 5)
      BY <1>6
    <3>2. t[j][1] # "root"
      BY <1>1, <1>2, <1>5, <3>1 DEF Plan, Numbers
    <3> QED
      BY <1>1, <1>5, <3>1, <3>2
  <2> QED
    BY <1>1, <2>1 DEF May
<1>8. Plan(<<x>> \o t)
  BY <1>1, <1>4, <1>7, PlanOfPut
<1> QED
  BY <1>3, <1>4, <1>5, <1>8
-----------------------------------------------------------------------------
(* What a plan presumes, after each move. *)

LEMMA FitOfScript ==
    ASSUME NEW q, Script(q)
    PROVE  Plan(q) /\ Fit(q, FALSE, {}, {}, {})
  BY DEF Script, Fit, Unwritten, Permitted, Answered, Unrecorded, Past, Justified

\* A line that is asked for is new, and presumed no more.
LEMMA FitOfAsking ==
    ASSUME NEW q, NEW h, NEW rec, NEW done, Plan(q), q # <<>>, Fit(q, FALSE, h, rec, done),
           q[1][1] \in Recording \cup Denying \cup {"result", "sum", "rooted", "failed", "report"}
    PROVE  /\ <<q[1][2], Asked(q[1][1])>> \notin h
           /\ Fit(q, TRUE, h \cup {<<q[1][2], Asked(q[1][1])>>}, rec, done)
<1> DEFINE n == q[1][2]  a == Asked(q[1][1])  g == h \cup {<<n, a>>}
<1>1. 1 \in DOMAIN q /\ n \in 0 .. 2 /\ q[1][1] \in Name
  BY Shape
<1>2. q[1][1] # "undo" /\ (q[1][1] \in Recording => Rank(q[1][1]) <= 5)
  BY Ranks DEF Recording, Denying
<1>3. a \in {"intent", "result", "denied"} /\ (a = "intent" <=> q[1][1] \in Recording)
      /\ (a = "denied" <=> q[1][1] \in Denying)
  BY DEF Asked, Recording, Denying
<1>4. <<n, a>> \notin h
  BY <1>1, <1>2, <1>3 DEF Fit, Unwritten
<1>5. Unwritten(q, TRUE, g)
  <2> SUFFICES ASSUME NEW j \in DOMAIN q, j # 1, q[j][1] # "undo"
               PROVE  /\ {<<q[j][2], "result">>, <<q[j][2], "denied">>, <<q[j][2], "challenge">>} \cap g = {}
                      /\ Rank(q[j][1]) <= 5 => <<q[j][2], "intent">> \notin g
                      /\ q[j][1] = "root" => <<0, "result">> \notin g /\ <<0, "denied">> \notin g /\ <<0, "challenge">> \notin g
    BY Shape DEF Unwritten
  <2>1. 1 < j /\ q[j][1] \in Name /\ Len(q) \in Nat /\ DOMAIN q = 1 .. Len(q)
    BY Shape
  <2>2. /\ {<<q[j][2], "result">>, <<q[j][2], "denied">>, <<q[j][2], "challenge">>} \cap h = {}
        /\ Rank(q[j][1]) <= 5 => <<q[j][2], "intent">> \notin h
        /\ q[j][1] = "root" => <<0, "result">> \notin h /\ <<0, "denied">> \notin h /\ <<0, "challenge">> \notin h
    BY <2>1 DEF Fit, Unwritten
  <2>3. q[1][1] \notin Final
    BY <1>1, <2>1 DEF Plan, Ends
  <2>4. q[1][1] \in Recording \cup {"strike", "rooted"}
    BY <2>3 DEF Final, Denying
  <2>5. q[j][2] = n => Rank(q[1][1]) < Rank(q[j][1])
    BY <1>1, <2>1 DEF Plan, Rises
  <2>6. CASE q[1][1] \in Recording
    <3>1. a = "intent" /\ (q[j][2] = n => ~(Rank(q[j][1]) <= 5))
      <4>1. Rank(q[1][1]) = 5 /\ Rank(q[j][1]) \in 0 .. 12
        BY <2>1, <2>6, Ranks, RankType DEF Recording
      <4> QED
        BY <1>3, <2>5, <2>6, <4>1
    <3> QED
      BY <2>2, <3>1
  <2>7. CASE q[1][1] = "strike"
    <3>1. a = "denied" /\ q[j][2] # n
      <4>1. Rank(q[1][1]) = 12 /\ Rank(q[j][1]) \in 0 .. 12
        BY <2>1, <2>7, Ranks, RankType
      <4> QED
        BY <1>3, <2>5, <2>7, <4>1 DEF Denying
    <3>2. n # 0
      BY <1>1, <2>7 DEF Plan, Numbers
    <3> QED
      BY <2>2, <3>1, <3>2
  <2>8. CASE q[1][1] = "rooted"
    <3>1. a = "result" /\ n = 0 /\ q[j][2] # 0
      BY <1>1, <2>1, <2>8 DEF Asked, Recording, Denying, Plan, Numbers
    <3>2. q[j][1] # "root"
      BY <1>1, <3>1, <2>1 DEF Plan, Numbers
    <3> QED
      BY <2>2, <3>1, <3>2
  <2> QED
    BY <2>4, <2>6, <2>7, <2>8
<1>6. Justified(g, rec)
  <2>1. a = "intent" => n # 0
    BY <1>1, <1>3 DEF Plan, Numbers, Recording
  <2>2. ASSUME a = "result", n # 0 PROVE n \in rec
    <3>1. q[1][1] \in {"result", "failed", "report"}
      BY <1>1, <1>3, <2>2 DEF Plan, Numbers
    <3>2. Rank(q[1][1]) > 5 /\ q[1][1] \notin Denying
      BY <3>1, Ranks DEF Denying
    <3>3. ~ \E i \in DOMAIN q : i < 1
      BY Shape
    <3> QED
      BY <1>1, <2>2, <3>2, <3>3 DEF Fit, Permitted
  <2> QED
    BY <2>1, <2>2 DEF Fit, Justified
<1>7. Answered(q, g, rec)
  BY DEF Fit, Answered
<1> QED
  BY <1>4, <1>5, <1>6, <1>7 DEF Fit

\* A step that is neither recorded nor an answer is over.
LEMMA FitOfTail ==
    ASSUME NEW q, NEW asks, NEW h, NEW rec, NEW done, NEW now, Plan(q), q # <<>>, Fit(q, asks, h, rec, done),
           q[1][1] \notin Recording \cup Answering,
           now = done \/ (q[1][1] \in Working \cup {"apply"} /\ now = done \cup {q[1][2]})
    PROVE  Fit(Tail(q), FALSE, h, rec, now)
<1> DEFINE n == q[1][2]  p == Tail(q)
<1>1. 1 \in DOMAIN q /\ n \in 0 .. 2 /\ q[1][1] \in Name /\ DOMAIN q = 1 .. Len(q) /\ Len(q) \in Nat
      /\ DOMAIN p = 1 .. Len(p) /\ Len(p) = Len(q) - 1
  BY Shape DEF Follows
<1>2. \A i \in DOMAIN p : i + 1 \in DOMAIN q /\ q[i + 1] = p[i] /\ i + 1 > 1
  BY <1>1, Shape DEF Follows
<1>3. \A i \in DOMAIN q : i # 1 => i - 1 \in DOMAIN p /\ p[i - 1] = q[i] /\ i > 1
  <2> SUFFICES ASSUME NEW i \in DOMAIN q, i # 1 PROVE i - 1 \in DOMAIN p /\ p[i - 1] = q[i] /\ i > 1
    OBVIOUS
  <2>1. i - 1 \in DOMAIN p /\ (i - 1) + 1 = i /\ i > 1
    BY <1>1
  <2> QED
    BY <2>1, <1>2
<1>4. Unwritten(p, FALSE, h)
  <2> SUFFICES ASSUME NEW j \in DOMAIN p, p[j][1] # "undo"
               PROVE  /\ {<<p[j][2], "result">>, <<p[j][2], "denied">>, <<p[j][2], "challenge">>} \cap h = {}
                      /\ Rank(p[j][1]) <= 5 => <<p[j][2], "intent">> \notin h
                      /\ p[j][1] = "root" => <<0, "result">> \notin h /\ <<0, "denied">> \notin h /\ <<0, "challenge">> \notin h
    BY DEF Unwritten
  <2>1. PICK k \in DOMAIN q : k = j + 1 /\ k > 1 /\ q[k] = p[j]
    BY <1>2
  <2> QED
    BY <2>1 DEF Fit, Unwritten
<1>5. Permitted(p, rec)
  <2> SUFFICES ASSUME NEW j \in DOMAIN p, p[j][1] \notin Denying, Rank(p[j][1]) > 5, p[j][2] # 0, p[j][2] \notin rec
               PROVE  \E i \in DOMAIN p : i < j /\ p[i] \in Recording \X {p[j][2]}
    BY DEF Permitted
  <2>1. PICK k \in DOMAIN q : k = j + 1 /\ k > 1 /\ q[k] = p[j]
    BY <1>2
  <2>2. PICK i \in DOMAIN q : i < k /\ q[i] \in Recording \X {q[k][2]}
    BY <2>1 DEF Fit, Permitted
  <2>3. i # 1
    BY <2>2
  <2>4. i - 1 \in DOMAIN p /\ p[i - 1] = q[i] /\ i - 1 < j
    BY <1>1, <1>3, <2>1, <2>2, <2>3
  <2> QED
    BY <2>1, <2>2, <2>4
<1>6. Answered(p, h, rec)
  <2> SUFFICES ASSUME NEW m \in rec, <<m, "result">> \notin h
               PROVE  m # 0 /\ \E j \in DOMAIN p : p[j] \in Answering \X {m}
    BY DEF Fit, Answered
  <2>1. m # 0
    BY DEF Fit, Answered
  <2>2. PICK j \in DOMAIN q : q[j] \in Answering \X {m}
    BY DEF Fit, Answered
  <2>3. j # 1
    BY <2>2
  <2> QED
    BY <1>3, <2>1, <2>2, <2>3
<1>7. Unrecorded(p, rec)
  <2> SUFFICES ASSUME NEW i \in DOMAIN p, NEW j \in DOMAIN p, i <= j, Rank(p[i][1]) <= 5 PROVE p[j][2] \notin rec
    BY DEF Unrecorded
  <2>1. PICK k \in DOMAIN q : k = i + 1 /\ q[k] = p[i]
    BY <1>2
  <2>2. PICK l \in DOMAIN q : l = j + 1 /\ q[l] = p[j]
    BY <1>2
  <2>3. k <= l
    BY <1>1, <2>1, <2>2
  <2> QED
    BY <2>1, <2>2, <2>3 DEF Fit, Unrecorded
<1>8. Past(p, rec, now)
  <2>1. ASSUME NEW m \in done PROVE m \in rec /\ \A j \in DOMAIN p : p[j][2] = m => Rank(p[j][1]) > 8
    BY <1>2 DEF Fit, Past
  <2>2. ASSUME q[1][1] \in Working \cup {"apply"} PROVE n \in rec /\ \A j \in DOMAIN p : p[j][2] = n => Rank(p[j][1]) > 8
    <3>1. Rank(q[1][1]) \in {8, 9} /\ q[1][1] \notin Denying
      BY <2>2, Ranks DEF Working, Denying
    <3>2. n # 0
      BY <1>1, <2>2 DEF Plan, Numbers, Working
    <3>3. ~ \E i \in DOMAIN q : i < 1
      BY <1>1
    <3>4. n \in rec
      BY <1>1, <3>1, <3>2, <3>3 DEF Fit, Permitted
    <3>5. ASSUME NEW j \in DOMAIN p, p[j][2] = n PROVE Rank(p[j][1]) > 8
      <4>1. PICK k \in DOMAIN q : k = j + 1 /\ k > 1 /\ q[k] = p[j]
        BY <1>2
      <4>2. Rank(q[1][1]) < Rank(q[k][1])
        BY <1>1, <3>5, <4>1 DEF Plan, Rises
      <4>3. Rank(q[k][1]) \in 0 .. 12
        BY <4>1, Shape, RankType
      <4> QED
        BY <3>1, <4>1, <4>2, <4>3
    <3> QED
      BY <3>4, <3>5
  <2> QED
    BY <2>1, <2>2 DEF Past
<1> QED
  BY <1>4, <1>5, <1>6, <1>7, <1>8 DEF Fit

\* An intent is on disk.
LEMMA FitOfRecording ==
    ASSUME NEW q, NEW h, NEW rec, NEW done, Plan(q), q # <<>>, Fit(q, TRUE, h, rec, done),
           q[1][1] \in Recording
    PROVE  Fit(Tail(q), FALSE, h, rec \cup {q[1][2]}, done)
<1> DEFINE n == q[1][2]  p == Tail(q)  now == rec \cup {n}
<1>1. 1 \in DOMAIN q /\ n \in 0 .. 2 /\ q[1][1] \in Name /\ DOMAIN q = 1 .. Len(q) /\ Len(q) \in Nat
      /\ DOMAIN p = 1 .. Len(p) /\ Len(p) = Len(q) - 1
  BY Shape DEF Follows
<1>2. \A i \in DOMAIN p : i + 1 \in DOMAIN q /\ q[i + 1] = p[i] /\ i + 1 > 1
  BY <1>1, Shape DEF Follows
<1>3. \A i \in DOMAIN q : i # 1 => i - 1 \in DOMAIN p /\ p[i - 1] = q[i] /\ i > 1
  <2> SUFFICES ASSUME NEW i \in DOMAIN q, i # 1 PROVE i - 1 \in DOMAIN p /\ p[i - 1] = q[i] /\ i > 1
    OBVIOUS
  <2>1. i - 1 \in DOMAIN p /\ (i - 1) + 1 = i /\ i > 1
    BY <1>1
  <2> QED
    BY <2>1, <1>2
<1>n. n # 0 /\ Rank(q[1][1]) = 5
  BY <1>1, Ranks DEF Plan, Numbers, Recording
<1>4. Unwritten(p, FALSE, h)
  <2> SUFFICES ASSUME NEW j \in DOMAIN p, p[j][1] # "undo"
               PROVE  /\ {<<p[j][2], "result">>, <<p[j][2], "denied">>, <<p[j][2], "challenge">>} \cap h = {}
                      /\ Rank(p[j][1]) <= 5 => <<p[j][2], "intent">> \notin h
                      /\ p[j][1] = "root" => <<0, "result">> \notin h /\ <<0, "denied">> \notin h /\ <<0, "challenge">> \notin h
    BY DEF Unwritten
  <2>1. PICK k \in DOMAIN q : k = j + 1 /\ k > 1 /\ q[k] = p[j]
    BY <1>2
  <2> QED
    BY <2>1 DEF Fit, Unwritten
<1>5. Permitted(p, now)
  <2> SUFFICES ASSUME NEW j \in DOMAIN p, p[j][1] \notin Denying, Rank(p[j][1]) > 5, p[j][2] # 0, p[j][2] \notin now
               PROVE  \E i \in DOMAIN p : i < j /\ p[i] \in Recording \X {p[j][2]}
    BY DEF Permitted
  <2>1. PICK k \in DOMAIN q : k = j + 1 /\ k > 1 /\ q[k] = p[j]
    BY <1>2
  <2>2. PICK i \in DOMAIN q : i < k /\ q[i] \in Recording \X {q[k][2]}
    BY <2>1 DEF Fit, Permitted
  <2>3. i # 1
    BY <2>1, <2>2
  <2>4. i - 1 \in DOMAIN p /\ p[i - 1] = q[i] /\ i - 1 < j
    BY <1>1, <1>3, <2>1, <2>2, <2>3
  <2> QED
    BY <2>1, <2>2, <2>4
<1>6. Answered(p, h, now)
  <2> SUFFICES ASSUME NEW m \in now, <<m, "result">> \notin h
               PROVE  m # 0 /\ \E j \in DOMAIN p : p[j] \in Answering \X {m}
    BY <1>n DEF Fit, Answered
  <2>1. m # 0
    BY <1>n DEF Fit, Answered
  <2>2. PICK j \in DOMAIN q : q[j] \in Answering \X {m}
    BY <1>1 DEF Fit, Answered, Plan, Whole
  <2>3. j # 1
    BY <2>2 DEF Answering, Recording
  <2> QED
    BY <1>3, <2>1, <2>2, <2>3
<1>7. Unrecorded(p, now)
  <2> SUFFICES ASSUME NEW i \in DOMAIN p, NEW j \in DOMAIN p, i <= j, Rank(p[i][1]) <= 5 PROVE p[j][2] \notin now
    BY DEF Unrecorded
  <2>1. PICK k \in DOMAIN q : k = i + 1 /\ q[k] = p[i] /\ 1 < k
    BY <1>2
  <2>2. PICK l \in DOMAIN q : l = j + 1 /\ q[l] = p[j]
    BY <1>2
  <2>3. k <= l /\ (k = l \/ k < l)
    BY <1>1, <2>1, <2>2
  <2>4. q[l][2] \notin rec
    BY <2>1, <2>2, <2>3 DEF Fit, Unrecorded
  <2>5. q[l][2] = n => q[k][2] = n
    BY <1>1, <1>n, <2>1, <2>3 DEF Plan, Together
  <2>6. q[k][2] = n => Rank(q[1][1]) < Rank(q[k][1])
    BY <1>1, <2>1 DEF Plan, Rises
  <2>7. Rank(q[k][1]) \in 0 .. 12
    BY Shape, RankType
  <2> QED
    BY <1>n, <2>1, <2>2, <2>4, <2>5, <2>6, <2>7
<1>8. Past(p, now, done)
  BY <1>2 DEF Fit, Past
<1>9. Justified(h, now)
  BY DEF Fit, Justified
<1> QED
  BY <1>4, <1>5, <1>6, <1>7, <1>8, <1>9 DEF Fit
\* An item of a batch is answered, and the batch goes on.
LEMMA FitOfNote ==
    ASSUME NEW q, NEW h, NEW rec, NEW done, Plan(q), q # <<>>, Fit(q, FALSE, h, rec, done), q[1][1] = "note"
    PROVE  /\ <<q[1][2], "result">> \notin h
           /\ Fit(Tail(q), FALSE, h \cup {<<q[1][2], "result">>}, rec, done)
<1> DEFINE n == q[1][2]  p == Tail(q)  g == h \cup {<<n, "result">>}
<1>1. 1 \in DOMAIN q /\ n \in 0 .. 2 /\ DOMAIN q = 1 .. Len(q) /\ Len(q) \in Nat
      /\ DOMAIN p = 1 .. Len(p) /\ Len(p) = Len(q) - 1
  BY Shape DEF Follows
<1>2. \A i \in DOMAIN p : i + 1 \in DOMAIN q /\ q[i + 1] = p[i] /\ i + 1 > 1
  BY <1>1, Shape DEF Follows
<1>3. \A i \in DOMAIN q : i # 1 => i - 1 \in DOMAIN p /\ p[i - 1] = q[i] /\ i > 1
  <2> SUFFICES ASSUME NEW i \in DOMAIN q, i # 1 PROVE i - 1 \in DOMAIN p /\ p[i - 1] = q[i] /\ i > 1
    OBVIOUS
  <2>1. i - 1 \in DOMAIN p /\ (i - 1) + 1 = i /\ i > 1
    BY <1>1
  <2> QED
    BY <2>1, <1>2
<1>4. n # 0 /\ Rank(q[1][1]) = 11 /\ q[1][1] \notin Denying \cup Recording
  BY <1>1, Ranks DEF Plan, Numbers, Denying, Recording
<1>5. n \in rec /\ <<n, "result">> \notin h
  <2>1. ~ \E i \in DOMAIN q : i < 1
    BY <1>1
  <2>2. n \in rec
    BY <1>1, <1>4, <2>1 DEF Fit, Permitted
  <2>3. <<n, "result">> \notin h
    BY <1>1 DEF Fit, Unwritten
  <2> QED
    BY <2>2, <2>3
<1>6. \A j \in DOMAIN p : p[j][2] # n
  <2> SUFFICES ASSUME NEW j \in DOMAIN p, p[j][2] = n PROVE FALSE
    OBVIOUS
  <2>1. PICK k \in DOMAIN q : k = j + 1 /\ k > 1 /\ q[k] = p[j]
    BY <1>2
  <2>2. 11 < Rank(q[k][1])
    BY <1>1, <1>4, <2>1 DEF Plan, Rises
  <2>3. q[k][1] \in Sudden
    <3>1. q[k][1] \in Name
      BY Shape
    <3> QED
      BY <2>2, <3>1 DEF Rank, Sudden, Denying, Name, Working, Recording, Answering, Locked
  <2> QED
    BY <2>1, <2>3 DEF Plan, Ends
<1>8. Unwritten(p, FALSE, g)
  <2> SUFFICES ASSUME NEW j \in DOMAIN p, p[j][1] # "undo"
               PROVE  /\ {<<p[j][2], "result">>, <<p[j][2], "denied">>, <<p[j][2], "challenge">>} \cap g = {}
                      /\ Rank(p[j][1]) <= 5 => <<p[j][2], "intent">> \notin g
                      /\ p[j][1] = "root" => <<0, "result">> \notin g /\ <<0, "denied">> \notin g /\ <<0, "challenge">> \notin g
    BY DEF Unwritten
  <2>1. PICK k \in DOMAIN q : k = j + 1 /\ k > 1 /\ q[k] = p[j]
    BY <1>2
  <2>2. /\ {<<q[k][2], "result">>, <<q[k][2], "denied">>, <<q[k][2], "challenge">>} \cap h = {}
        /\ Rank(q[k][1]) <= 5 => <<q[k][2], "intent">> \notin h
        /\ q[k][1] = "root" => <<0, "result">> \notin h /\ <<0, "denied">> \notin h /\ <<0, "challenge">> \notin h
    BY <2>1 DEF Fit, Unwritten
  <2> QED
    BY <1>4, <1>6, <2>1, <2>2
<1>9. Permitted(p, rec)
  <2> SUFFICES ASSUME NEW j \in DOMAIN p, p[j][1] \notin Denying, Rank(p[j][1]) > 5, p[j][2] # 0, p[j][2] \notin rec
               PROVE  \E i \in DOMAIN p : i < j /\ p[i] \in Recording \X {p[j][2]}
    BY DEF Permitted
  <2>1. PICK k \in DOMAIN q : k = j + 1 /\ k > 1 /\ q[k] = p[j]
    BY <1>2
  <2>2. PICK i \in DOMAIN q : i < k /\ q[i] \in Recording \X {q[k][2]}
    BY <2>1 DEF Fit, Permitted
  <2>3. i # 1
    BY <1>4, <2>2
  <2>4. i - 1 \in DOMAIN p /\ p[i - 1] = q[i] /\ i - 1 < j
    BY <1>1, <1>3, <2>1, <2>2, <2>3
  <2> QED
    BY <2>1, <2>2, <2>4
<1>10. Answered(p, g, rec)
  <2> SUFFICES ASSUME NEW m \in rec, <<m, "result">> \notin g
               PROVE  m # 0 /\ \E j \in DOMAIN p : p[j] \in Answering \X {m}
    BY DEF Fit, Answered
  <2>1. m # 0 /\ m # n
    BY DEF Fit, Answered
  <2>2. PICK j \in DOMAIN q : q[j] \in Answering \X {m}
    BY DEF Fit, Answered
  <2>3. j # 1
    BY <2>1, <2>2
  <2> QED
    BY <1>3, <2>1, <2>2, <2>3
<1>11. Unrecorded(p, rec)
  <2> SUFFICES ASSUME NEW i \in DOMAIN p, NEW j \in DOMAIN p, i <= j, Rank(p[i][1]) <= 5 PROVE p[j][2] \notin rec
    BY DEF Unrecorded
  <2>1. PICK k \in DOMAIN q : k = i + 1 /\ q[k] = p[i]
    BY <1>2
  <2>2. PICK l \in DOMAIN q : l = j + 1 /\ q[l] = p[j]
    BY <1>2
  <2>3. k <= l
    BY <1>1, <2>1, <2>2
  <2> QED
    BY <2>1, <2>2, <2>3 DEF Fit, Unrecorded
<1>12. Past(p, rec, done) /\ Justified(g, rec)
  BY <1>2, <1>5 DEF Fit, Past, Justified
<1> QED
  BY <1>5, <1>8, <1>9, <1>10, <1>11, <1>12 DEF Fit

\* Whoever gives up before anything was recorded leaves nothing to answer.
LEMMA FitOfGivingUp ==
    ASSUME NEW q, NEW asks, NEW h, NEW rec, NEW done, NEW g, Plan(q), q # <<>>, Fit(q, asks, h, rec, done),
           Rank(q[1][1]) <= 5, g = h \/ g = h \cup {<<q[1][2], "challenge">>}
    PROVE  Fit(<<>>, FALSE, g, rec, done) /\ \A n \in rec : n # 0 /\ <<n, "result">> \in h
<1>1. 1 \in DOMAIN q /\ \A j \in DOMAIN q : q[j][2] \notin rec
  <2>1. 1 \in DOMAIN q /\ \A j \in DOMAIN q : 1 <= j
    BY Shape
  <2> QED
    BY <2>1 DEF Fit, Unrecorded
<1>2. \A n \in rec : n # 0 /\ <<n, "result">> \in h
  BY <1>1 DEF Fit, Answered
<1>3. Answered(<<>>, g, rec) /\ Justified(g, rec)
  BY <1>2 DEF Fit, Answered, Justified
<1>4. Unwritten(<<>>, FALSE, g) /\ Permitted(<<>>, rec) /\ Unrecorded(<<>>, rec) /\ Past(<<>>, rec, done)
  BY DEF Fit, Past, Unwritten, Permitted, Unrecorded
<1> QED
  BY <1>2, <1>3, <1>4 DEF Fit

\* And whoever comes to the end has answered what was recorded.
LEMMA FitOfEnding ==
    ASSUME NEW q, NEW asks, NEW h, NEW rec, NEW done, NEW g, Plan(q), q # <<>>, Fit(q, asks, h, rec, done),
           q[1][1] \in Final, h \subseteq g, g \subseteq h \cup {<<q[1][2], "result">>},
           q[1][1] \in Answering => <<q[1][2], "result">> \in g,
           g # h => q[1][1] \in Answering
    PROVE  Fit(<<>>, FALSE, g, rec, done)
<1>1. 1 \in DOMAIN q /\ DOMAIN q = {1} /\ q[1][2] \in 0 .. 2
  <2>1. 1 = Len(q) /\ DOMAIN q = 1 .. Len(q) /\ 1 \in DOMAIN q
    BY Shape DEF Plan, Ends
  <2> QED
    BY <2>1, Shape
<1>2. \A n \in rec : n # 0 /\ <<n, "result">> \in g
  BY <1>1 DEF Fit, Answered
<1>3. Justified(g, rec)
  <2>1. CASE g = h
    BY <2>1 DEF Fit, Justified
  <2>2. CASE g # h
    <3>1. Rank(q[1][1]) > 5 /\ q[1][1] \notin Denying /\ q[1][2] # 0
      BY <1>1, <2>2, Ranks DEF Answering, Denying, Plan, Numbers
    <3>2. q[1][2] \in rec
      BY <1>1, <3>1 DEF Fit, Permitted
    <3> QED
      BY <3>2 DEF Fit, Justified
  <2> QED
    BY <2>1, <2>2
<1>4. Answered(<<>>, g, rec)
  BY <1>2 DEF Answered
<1>5. Unwritten(<<>>, FALSE, g) /\ Permitted(<<>>, rec) /\ Unrecorded(<<>>, rec) /\ Past(<<>>, rec, done)
  BY DEF Fit, Past, Unwritten, Permitted, Unrecorded
<1> QED
  BY <1>3, <1>4, <1>5 DEF Fit

\* A refusal.
LEMMA FitOfRefusal ==
    ASSUME NEW q, NEW h, NEW rec, NEW done, NEW y \in {"deny", "dismiss"}, Plan(q), q # <<>>,
           Fit(q, FALSE, h, rec, done), Rank(q[1][1]) <= 5
    PROVE  Fit(<<<<y, q[1][2]>>>>, FALSE, h, rec, done)
<1> DEFINE n == q[1][2]  p == <<<<y, n>>>>
<1>1. 1 \in DOMAIN q /\ q[1][1] \in Name
  BY Shape
<1>2. DOMAIN p = {1} /\ p[1][1] = y /\ p[1][2] = n /\ Rank(y) = 12 /\ y \in Denying /\ y # "root" /\ q[1][1] # "undo"
  BY Ranks DEF Denying
<1>3. Unwritten(p, FALSE, h)
  BY <1>1, <1>2 DEF Fit, Unwritten
<1>4. \A m \in rec : m # 0 /\ <<m, "result">> \in h
  BY FitOfGivingUp
<1>5. Answered(p, h, rec) /\ Permitted(p, rec) /\ Unrecorded(p, rec) /\ Past(p, rec, done)
  BY <1>2, <1>4 DEF Answered, Permitted, Unrecorded, Past, Fit
<1> QED
  BY <1>3, <1>5 DEF Fit

\* A failure, answered.
LEMMA FitOfFailure ==
    ASSUME NEW q, NEW h, NEW rec, NEW done, NEW y \in {"sorry", "failed", "result"}, Plan(q), q # <<>>,
           Fit(q, FALSE, h, rec, done), q[1][1] \in {"submit", "start", "open", "body", "save"}
    PROVE  Fit(<<<<y, q[1][2]>>>>, FALSE, h, rec, done)
<1> DEFINE n == q[1][2]  p == <<<<y, n>>>>
<1>1. 1 \in DOMAIN q /\ q[1][1] \in Name /\ \A j \in DOMAIN q : j = 1 \/ 1 < j
  BY Shape
<1>2. DOMAIN p = {1} /\ p[1] = <<y, n>> /\ Rank(y) \in {11, 12} /\ y \in Answering /\ y # "root" /\ q[1][1] # "undo"
      /\ y \notin Denying
  BY Ranks DEF Answering, Denying
<1>3. Unwritten(p, FALSE, h)
  BY <1>1, <1>2 DEF Fit, Unwritten
<1>4. \A j \in DOMAIN q : q[j][2] = n
  BY <1>1 DEF Plan, Whole
<1>5. Rank(q[1][1]) > 5 /\ q[1][1] \notin Denying /\ n # 0
  BY <1>1, Ranks DEF Denying, Plan, Numbers
<1>6. n \in rec
  <2>1. ~ \E i \in DOMAIN q : i < 1
    BY <1>1
  <2> QED
    BY <1>1, <1>5, <2>1 DEF Fit, Permitted
<1>7. Answered(p, h, rec)
  <2>1. \A m \in rec : m # 0 /\ (<<m, "result">> \in h \/ m = n)
    BY <1>4 DEF Fit, Answered
  <2>2. p[1] \in Answering \X {n}
    BY <1>2
  <2> QED
    BY <1>2, <2>1, <2>2 DEF Answered
<1>8. Permitted(p, rec) /\ Unrecorded(p, rec) /\ Past(p, rec, done)
  BY <1>2, <1>6 DEF Permitted, Unrecorded, Past, Fit
<1> QED
  BY <1>3, <1>7, <1>8 DEF Fit

\* A change that could not be reported is undone.
LEMMA FitOfUndo ==
    ASSUME NEW q, NEW h, NEW rec, NEW done, Plan(q), q # <<>>, Fit(q, TRUE, h, rec, done), q[1][1] = "report",
           <<q[1][2], "result">> \in h
    PROVE  Fit(<<<<"undo", q[1][2]>>>>, FALSE, h, rec, done)
<1> DEFINE n == q[1][2]  p == <<<<"undo", n>>>>
<1>1. DOMAIN q = {1}
  <2>1. 1 = Len(q) /\ DOMAIN q = 1 .. Len(q)
    BY Shape DEF Plan, Ends, Final
  <2> QED
    BY <2>1
<1>2. DOMAIN p = {1} /\ p[1] = <<"undo", n>> /\ Rank("undo") = 12 /\ Rank("report") = 11 /\ "report" \notin Denying
  BY Ranks DEF Denying
<1>3. n # 0
  BY <1>1 DEF Plan, Numbers
<1>4. n \in rec
  BY <1>1, <1>2, <1>3 DEF Fit, Permitted
<1>5. Answered(p, h, rec)
  <2>1. \A m \in rec : m # 0 /\ (<<m, "result">> \in h \/ m = n)
    BY <1>1 DEF Fit, Answered
  <2> QED
    BY <2>1 DEF Answered
<1>6. Unwritten(p, FALSE, h) /\ Permitted(p, rec) /\ Unrecorded(p, rec) /\ Past(p, rec, done)
  BY <1>2, <1>4 DEF Unwritten, Permitted, Unrecorded, Past, Fit
<1> QED
  BY <1>5, <1>6 DEF Fit

\* A batch is cut short.
LEMMA FitOfSum ==
    ASSUME NEW q, NEW asks, NEW h, NEW rec, NEW done, Plan(q), q # <<>>, Fit(q, asks, h, rec, done),
           q[1][1] \in {"each", "entry"}
    PROVE  Fit(Sums, FALSE, h, rec, done)
<1>1. DOMAIN Sums = {1} /\ Sums[1] = <<"sum", 0>> /\ Rank("sum") = 11
  BY Ranks DEF Sums
<1>2. 1 \in DOMAIN q /\ Len(q) \in DOMAIN q /\ Len(q) # 1 /\ q[Len(q)] = <<"sum", 0>> /\ Len(q) > 1
  <2>1. 1 \in DOMAIN q /\ DOMAIN q = 1 .. Len(q) /\ Len(q) \in Nat \ {0}
    BY Shape
  <2>2. q[Len(q)] = <<"sum", 0>>
    BY <2>1 DEF Plan, Whole
  <2> QED
    BY <2>1, <2>2
<1>3. Unwritten(Sums, FALSE, h)
  <2>0. PICK k \in DOMAIN q : k > 1 /\ q[k] = <<"sum", 0>>
    BY <1>2
  <2>1. {<<0, "result">>, <<0, "denied">>, <<0, "challenge">>} \cap h = {}
    <3>1. q[k][1] # "undo" /\ q[k][2] = 0 /\ (k > 1 \/ ~asks)
      BY <2>0
    <3>2. {<<q[k][2], "result">>, <<q[k][2], "denied">>, <<q[k][2], "challenge">>} \cap h = {}
      BY <3>1 DEF Fit, Unwritten
    <3> QED
      BY <3>1, <3>2
  <2> QED
    BY <1>1, <2>1 DEF Unwritten
<1>4. \A m \in rec : m # 0 /\ <<m, "result">> \in h
  <2>1. Rank(q[1][1]) <= 5
    BY Ranks
  <2> QED
    BY <2>1, FitOfGivingUp
<1>5. Answered(Sums, h, rec) /\ Permitted(Sums, rec) /\ Unrecorded(Sums, rec) /\ Past(Sums, rec, done)
  BY <1>1, <1>4 DEF Answered, Permitted, Unrecorded, Past, Fit
<1> QED
  BY <1>3, <1>5 DEF Fit
\* What comes before what was ahead. A token is spent,
LEMMA FitOfSpend ==
    ASSUME NEW q, NEW h, NEW rec, NEW done, NEW p, Plan(q), q # <<>>, Fit(q, FALSE, h, rec, done),
           q[1][1] = "confirm", Puts(p, <<"spend", q[1][2]>>, Tail(q))
    PROVE  Fit(p, FALSE, h, rec, done)
<1>1. 1 \in DOMAIN q /\ DOMAIN q = 1 .. Len(q) /\ Len(q) \in Nat
  BY Shape
<1>2. /\ DOMAIN p = DOMAIN q /\ p[1] = <<"spend", q[1][2]>>
      /\ \A j \in DOMAIN q : j # 1 => p[j] = q[j] /\ 1 < j
  <2>1. Len(Tail(q)) = Len(q) - 1 /\ \A i \in 1 .. Len(Tail(q)) : Tail(q)[i] = q[i + 1]
    BY Shape DEF Follows
  <2>2. p \in Seq(Step) /\ Len(p) = Len(Tail(q)) + 1 /\ p[1] = <<"spend", q[1][2]>>
        /\ \A i \in 1 .. Len(Tail(q)) : p[i + 1] = Tail(q)[i]
    BY DEF Puts
  <2>3. Len(p) = Len(q) /\ DOMAIN p = 1 .. Len(p)
    BY <1>1, <2>1, <2>2
  <2>4. ASSUME NEW j \in DOMAIN q, j # 1 PROVE p[j] = q[j] /\ 1 < j
    <3>1. j - 1 \in 1 .. Len(Tail(q)) /\ (j - 1) + 1 = j /\ 1 < j
      BY <1>1, <2>1, <2>4
    <3> QED
      BY <2>1, <2>2, <3>1
  <2> QED
    BY <1>1, <2>2, <2>3, <2>4
<1>3. Rank("spend") = 3 /\ Rank("confirm") = 3
  BY Ranks
<1>4. Unwritten(p, FALSE, h)
  BY <1>1, <1>2, <1>3 DEF Fit, Unwritten
<1>5. Permitted(p, rec)
  <2> SUFFICES ASSUME NEW j \in DOMAIN p, p[j][1] \notin Denying, Rank(p[j][1]) > 5, p[j][2] # 0, p[j][2] \notin rec
               PROVE  \E i \in DOMAIN p : i < j /\ p[i] \in Recording \X {p[j][2]}
    BY DEF Permitted
  <2>1. j \in DOMAIN q /\ j # 1 /\ p[j] = q[j]
    BY <1>2, <1>3
  <2>2. PICK i \in DOMAIN q : i < j /\ q[i] \in Recording \X {q[j][2]}
    BY <2>1 DEF Fit, Permitted
  <2>3. i # 1
    BY <2>2 DEF Recording
  <2> QED
    BY <1>2, <2>1, <2>2, <2>3
<1>6. Answered(p, h, rec)
  <2> SUFFICES ASSUME NEW m \in rec, <<m, "result">> \notin h
               PROVE  m # 0 /\ \E j \in DOMAIN p : p[j] \in Answering \X {m}
    BY DEF Fit, Answered
  <2>1. m # 0
    BY DEF Fit, Answered
  <2>2. PICK j \in DOMAIN q : q[j] \in Answering \X {m}
    BY DEF Fit, Answered
  <2>3. j # 1
    BY <2>2 DEF Answering
  <2> QED
    BY <1>2, <2>1, <2>2, <2>3
<1>7. Unrecorded(p, rec)
  <2>1. \A j \in DOMAIN q : q[j][2] \notin rec
    BY <1>1, <1>3 DEF Fit, Unrecorded
  <2> QED
    BY <1>1, <1>2, <2>1 DEF Unrecorded
<1>8. Past(p, rec, done) /\ Justified(h, rec)
  BY <1>1, <1>2, <1>3 DEF Fit, Past, Justified
<1> QED
  BY <1>4, <1>5, <1>6, <1>7, <1>8 DEF Fit

\* a trash directory that was made is recorded,
LEMMA FitOfRooted ==
    ASSUME NEW q, NEW h, NEW rec, NEW done, NEW p, Plan(q), q # <<>>, Fit(q, FALSE, h, rec, done),
           q[1][1] = "root", Puts(p, <<"rooted", 0>>, Tail(q))
    PROVE  Fit(p, FALSE, h, rec, done)
<1>1. 1 \in DOMAIN q /\ DOMAIN q = 1 .. Len(q) /\ Len(q) \in Nat
  BY Shape
<1>2. /\ DOMAIN p = DOMAIN q /\ p[1] = <<"rooted", 0>>
      /\ \A j \in DOMAIN q : j # 1 => p[j] = q[j] /\ 1 < j
  <2>1. Len(Tail(q)) = Len(q) - 1 /\ \A i \in 1 .. Len(Tail(q)) : Tail(q)[i] = q[i + 1]
    BY Shape DEF Follows
  <2>2. p \in Seq(Step) /\ Len(p) = Len(Tail(q)) + 1 /\ p[1] = <<"rooted", 0>>
        /\ \A i \in 1 .. Len(Tail(q)) : p[i + 1] = Tail(q)[i]
    BY DEF Puts
  <2>3. Len(p) = Len(q) /\ DOMAIN p = 1 .. Len(p)
    BY <1>1, <2>1, <2>2
  <2>4. ASSUME NEW j \in DOMAIN q, j # 1 PROVE p[j] = q[j] /\ 1 < j
    <3>1. j - 1 \in 1 .. Len(Tail(q)) /\ (j - 1) + 1 = j /\ 1 < j
      BY <1>1, <2>1, <2>4
    <3> QED
      BY <2>1, <2>2, <3>1
  <2> QED
    BY <1>1, <2>2, <2>3, <2>4
<1>3. Rank("rooted") = 4 /\ Rank("root") = 4
  BY Ranks
<1>4. Unwritten(p, FALSE, h)
  <2>1. <<0, "intent">> \notin h /\ <<0, "result">> \notin h /\ <<0, "denied">> \notin h /\ <<0, "challenge">> \notin h
    BY <1>1 DEF Fit, Unwritten, Justified
  <2> QED
    BY <1>1, <1>2, <1>3, <2>1 DEF Fit, Unwritten
<1>5. Permitted(p, rec)
  <2> SUFFICES ASSUME NEW j \in DOMAIN p, p[j][1] \notin Denying, Rank(p[j][1]) > 5, p[j][2] # 0, p[j][2] \notin rec
               PROVE  \E i \in DOMAIN p : i < j /\ p[i] \in Recording \X {p[j][2]}
    BY DEF Permitted
  <2>1. j \in DOMAIN q /\ j # 1 /\ p[j] = q[j]
    BY <1>2, <1>3
  <2>2. PICK i \in DOMAIN q : i < j /\ q[i] \in Recording \X {q[j][2]}
    BY <2>1 DEF Fit, Permitted
  <2>3. i # 1
    BY <2>2 DEF Recording
  <2> QED
    BY <1>2, <2>1, <2>2, <2>3
<1>6. Answered(p, h, rec)
  <2> SUFFICES ASSUME NEW m \in rec, <<m, "result">> \notin h
               PROVE  m # 0 /\ \E j \in DOMAIN p : p[j] \in Answering \X {m}
    BY DEF Fit, Answered
  <2>1. m # 0
    BY DEF Fit, Answered
  <2>2. PICK j \in DOMAIN q : q[j] \in Answering \X {m}
    BY DEF Fit, Answered
  <2>3. j # 1
    BY <2>2 DEF Answering
  <2> QED
    BY <1>2, <2>1, <2>2, <2>3
<1>7. Unrecorded(p, rec)
  <2>1. 0 \notin rec
    BY DEF Fit, Answered
  <2>2. \A j \in DOMAIN q : q[j][2] \notin rec
    BY <1>1, <1>3 DEF Fit, Unrecorded
  <2> QED
    BY <1>1, <1>2, <2>1, <2>2 DEF Unrecorded
<1>8. Past(p, rec, done) /\ Justified(h, rec)
  <2>1. 0 \notin rec
    BY DEF Fit, Answered
  <2> QED
    BY <1>1, <1>2, <1>3, <2>1 DEF Fit, Past, Justified
<1> QED
  BY <1>4, <1>5, <1>6, <1>7, <1>8 DEF Fit

\* and an item of a batch that is refused is passed over.
LEMMA FitOfStrike ==
    ASSUME NEW q, NEW h, NEW rec, NEW done, NEW p, NEW t, Plan(q), q # <<>>, Fit(q, FALSE, h, rec, done),
           q[1][1] = "each", Follows(t, q, 4), Puts(p, <<"strike", q[1][2]>>, t),
           \A j \in DOMAIN q : j > 4 => q[j][2] # q[1][2]
    PROVE  Fit(p, FALSE, h, rec, done)
<1> DEFINE n == q[1][2]
<1>1. 1 \in DOMAIN q /\ DOMAIN q = 1 .. Len(q) /\ Len(q) \in Nat /\ \A i \in DOMAIN q : q[i][1] \in Name
  BY Shape
<1>2. 4 \in DOMAIN q /\ q[2] = <<"entry", n>> /\ q[3] = <<"call", n>> /\ q[4] = <<"note", n>>
  <2>1. 1 + 3 \in DOMAIN q /\ q[1 + 1] = <<"entry", n>> /\ q[1 + 2] = <<"call", n>> /\ q[1 + 3] = <<"note", n>>
    BY <1>1 DEF Plan, Whole
  <2> QED
    BY <2>1
<1>3. \A i \in DOMAIN q : i <= 4 => q[i][2] = n
  <2>1. \A i \in DOMAIN q : i <= 4 => i \in {1, 2, 3, 4}
    BY <1>1
  <2> QED
    BY <1>2, <2>1
<1>4. /\ DOMAIN p = 1 .. Len(p) /\ Len(p) = Len(q) - 3 /\ 1 \in DOMAIN p /\ p[1] = <<"strike", n>>
      /\ \A j \in DOMAIN p : j # 1 => 1 < j /\ j + 3 \in DOMAIN q /\ p[j] = q[j + 3] /\ j + 3 > 4
      /\ \A i \in DOMAIN q : i > 4 => i - 3 \in DOMAIN p /\ p[i - 3] = q[i]
  <2>1. Len(t) = Len(q) - 4 /\ \A i \in 1 .. Len(t) : t[i] = q[i + 4]
    BY DEF Follows
  <2>2. p \in Seq(Step) /\ Len(p) = Len(t) + 1 /\ p[1] = <<"strike", n>> /\ \A i \in 1 .. Len(t) : p[i + 1] = t[i]
    BY DEF Puts
  <2>3. DOMAIN p = 1 .. Len(p) /\ Len(p) = Len(q) - 3 /\ 1 \in DOMAIN p
    BY <1>1, <1>2, <2>1, <2>2
  <2>4. ASSUME NEW j \in DOMAIN p, j # 1 PROVE 1 < j /\ j + 3 \in DOMAIN q /\ p[j] = q[j + 3] /\ j + 3 > 4
    <3>1. j - 1 \in 1 .. Len(t) /\ (j - 1) + 1 = j /\ (j - 1) + 4 = j + 3 /\ 1 < j
      BY <1>1, <2>1, <2>3, <2>4
    <3> QED
      BY <1>1, <2>1, <2>2, <2>3, <3>1
  <2>5. ASSUME NEW i \in DOMAIN q, i > 4 PROVE i - 3 \in DOMAIN p /\ p[i - 3] = q[i]
    <3>1. i - 4 \in 1 .. Len(t) /\ (i - 4) + 1 = i - 3 /\ (i - 4) + 4 = i
      BY <1>1, <2>1, <2>5
    <3> QED
      BY <1>1, <2>1, <2>2, <2>3, <3>1
  <2> QED
    BY <2>2, <2>3, <2>4, <2>5
<1>5. Rank("strike") = 12 /\ Rank("each") = 1 /\ "strike" \in Denying
  BY Ranks DEF Denying
<1>6. Unwritten(p, FALSE, h)
  <2> SUFFICES ASSUME NEW j \in DOMAIN p, p[j][1] # "undo"
               PROVE  /\ {<<p[j][2], "result">>, <<p[j][2], "denied">>, <<p[j][2], "challenge">>} \cap h = {}
                      /\ Rank(p[j][1]) <= 5 => <<p[j][2], "intent">> \notin h
                      /\ p[j][1] = "root" => <<0, "result">> \notin h /\ <<0, "denied">> \notin h /\ <<0, "challenge">> \notin h
    BY DEF Unwritten
  <2>1. CASE j = 1
    <3>1. {<<n, "result">>, <<n, "denied">>, <<n, "challenge">>} \cap h = {}
      BY <1>1 DEF Fit, Unwritten
    <3> QED
      BY <1>4, <1>5, <2>1, <3>1
  <2>2. CASE j # 1
    <3>1. PICK k \in DOMAIN q : p[j] = q[k]
      BY <1>4, <2>2
    <3> QED
      BY <3>1 DEF Fit, Unwritten
  <2> QED
    BY <2>1, <2>2
<1>7. Permitted(p, rec)
  <2> SUFFICES ASSUME NEW j \in DOMAIN p, p[j][1] \notin Denying, Rank(p[j][1]) > 5, p[j][2] # 0, p[j][2] \notin rec
               PROVE  \E i \in DOMAIN p : i < j /\ p[i] \in Recording \X {p[j][2]}
    BY DEF Permitted
  <2>1. PICK k \in DOMAIN q : k = j + 3 /\ k > 4 /\ p[j] = q[k]
    BY <1>4, <1>5
  <2>2. PICK i \in DOMAIN q : i < k /\ q[i] \in Recording \X {q[k][2]}
    BY <2>1 DEF Fit, Permitted
  <2>3. i > 4
    BY <1>1, <1>3, <2>1, <2>2
  <2>4. i - 3 \in DOMAIN p /\ p[i - 3] = q[i] /\ i - 3 < j
    BY <1>1, <1>4, <2>1, <2>2, <2>3
  <2> QED
    BY <2>1, <2>2, <2>4
<1>8. \A j \in DOMAIN q : q[j][2] \notin rec
  BY <1>1, <1>5 DEF Fit, Unrecorded
<1>9. \A j \in DOMAIN p : p[j][2] \notin rec
  BY <1>1, <1>4, <1>8
<1>10. Answered(p, h, rec)
  <2> SUFFICES ASSUME NEW m \in rec PROVE m # 0 /\ <<m, "result">> \in h
    BY DEF Answered
  <2>1. ~ \E j \in DOMAIN q : q[j] \in Answering \X {m}
    BY <1>8
  <2> QED
    BY <2>1 DEF Fit, Answered
<1>11. Unrecorded(p, rec) /\ Past(p, rec, done) /\ Justified(h, rec)
  BY <1>9 DEF Fit, Unrecorded, Past, Justified
<1> QED
  BY <1>6, <1>7, <1>10, <1>11 DEF Fit
-----------------------------------------------------------------------------
(* Why the log keeps its word.                                             *)

LEMMA LogBegins == LogInit /\ handed = {} => LogInv
<1> SUFFICES ASSUME LogInit, handed = {} PROVE LogInv
  OBVIOUS
<1>1. Quiet \in CallState /\ Quiet.st = "idle"
  BY DEF Quiet, CallState
<1>2. LogTypeOK /\ \A c \in Caller : ~Asking(c)
  BY <1>1 DEF LogInit, LogTypeOK, Asking
<1>3. Queue = {}
  BY DEF LogInit, Queue
<1> QED
  BY <1>2, <1>3 DEF LogInit, LogInv, LineShape, CallShape, CloseShape

LEMMA LogStays == LogInv /\ UNCHANGED <<logVars, handed>> => LogInv'
  BY DEF LogInv, logVars, LogTypeOK, LineShape, CallShape, CloseShape, Queue, Asking, shut, Writers, Held

LEMMA LogAsks ==
    ASSUME LogInv, NEW c \in Caller, NEW l \in Line, l \notin handed, WriteSync(c, l), handed' = handed \cup {l}
    PROVE  LogInv'
<1>1. LogTypeOK'
  <2>1. [st |-> IF shut THEN "back" ELSE "admit", line |-> l, ok |-> FALSE, inFlight |-> FALSE] \in CallState
    BY DEF CallState
  <2> QED
    BY <2>1 DEF LogInv, LogTypeOK, WriteSync
<1>2. LineShape'
  BY DEF LogInv, LineShape, WriteSync, Queue
<1>3. CallShape'
  <2>1. call'[c].st # "wait" /\ call'[c].line = l /\ ~call'[c].ok /\ \A o \in Caller : o # c => call'[o] = call[o]
    BY DEF WriteSync, LogInv, LogTypeOK
  <2>2. \A o \in Caller : o # c /\ Asking(o) => call[o].line # l
    BY DEF LogInv, CallShape
  <2>3. work[l] = "none" /\ l \notin file /\ l \notin Queue
    BY DEF LogInv, LineShape
  <2>4. Queue' = Queue /\ work' = work /\ file' = file /\ safe' = safe
    BY DEF WriteSync, Queue
  <2> QED
    BY <2>1, <2>2, <2>3, <2>4 DEF LogInv, CallShape, Asking
<1>4. CloseShape'
  <2>1. log \in {"flushing", "closed"} => shut
    BY DEF shut
  <2>2. log \in {"flushing", "closed"} => Writers' \subseteq Writers
    BY <2>1 DEF WriteSync, LogInv, LogTypeOK, Writers, Held
  <2> QED
    BY <2>2 DEF LogInv, CloseShape, WriteSync, shut
<1> QED
  BY <1>1, <1>2, <1>3, <1>4 DEF LogInv

LEMMA LogReturns ==
    ASSUME LogInv, NEW c \in Caller, Returns(c), handed' = handed
    PROVE  LogInv'
<1>1. Quiet \in CallState /\ Quiet.st = "idle"
  BY DEF Quiet, CallState
<1>2. LogTypeOK'
  BY <1>1 DEF LogInv, LogTypeOK, Returns
<1>3. LineShape'
  BY DEF LogInv, LineShape, Returns, Queue
<1>4. CallShape'
  <2>1. call'[c].st = "idle" /\ \A o \in Caller : o # c => call'[o] = call[o]
    BY <1>1 DEF Returns, LogInv, LogTypeOK
  <2>2. Queue' = Queue /\ work' = work /\ file' = file /\ safe' = safe
    BY DEF Returns, Queue
  <2> QED
    BY <2>1, <2>2 DEF LogInv, CallShape, Asking
<1>5. CloseShape'
  BY <1>1 DEF LogInv, LogTypeOK, CloseShape, Returns, shut, Writers, Held
<1> QED
  BY <1>2, <1>3, <1>4, <1>5 DEF LogInv

LEMMA Appends ==
    ASSUME ch \in Seq(AnyLine), NEW l \in AnyLine
    PROVE  /\ Append(ch, l) \in Seq(AnyLine)
           /\ {Append(ch, l)[i] : i \in DOMAIN Append(ch, l)} = {ch[i] : i \in DOMAIN ch} \cup {l}
<1>1. /\ Append(ch, l) \in Seq(AnyLine) /\ Len(ch) \in Nat /\ DOMAIN ch = 1 .. Len(ch)
      /\ DOMAIN Append(ch, l) = 1 .. Len(ch) + 1
      /\ \A i \in 1 .. Len(ch) : Append(ch, l)[i] = ch[i]
      /\ Append(ch, l)[Len(ch) + 1] = l
  OBVIOUS
<1> QED
  BY <1>1

LEMMA LogWrites ==
    ASSUME LogInv, NEW l \in AnyLine, l \notin handed, Write(l), handed' = handed \cup {l}
    PROVE  LogInv'
<1>1. Queue' \subseteq Queue \cup {l} /\ ch' \in Seq(AnyLine) /\ (shut => ch' = ch)
  BY Appends DEF Write, Queue, LogInv, LogTypeOK
<1>2. LogTypeOK'
  BY <1>1 DEF LogInv, LogTypeOK, Write
<1>3. LineShape'
  BY <1>1 DEF LogInv, LineShape, Write
<1>4. CallShape'
  <2>1. \A o \in Caller : Asking(o) => call[o].line # l
    BY DEF LogInv, CallShape
  <2>2. call' = call /\ work' = work /\ file' = file /\ safe' = safe
    BY DEF Write
  <2> QED
    BY <1>1, <2>1, <2>2 DEF LogInv, CallShape, Asking
<1>5. CloseShape'
  BY <1>1 DEF LogInv, CloseShape, Write, shut, Writers, Held
<1> QED
  BY <1>2, <1>3, <1>4, <1>5 DEF LogInv

\* What the log does of itself takes no line back, and nobody's call.
Onwards ==
    /\ safe \subseteq safe'
    /\ \A c \in Caller : Asking(c)' = Asking(c) /\ (Asking(c) => call'[c].line = call[c].line)

LEMMA LogCalls ==
    ASSUME LogInv, NEW c \in Caller, handed' = handed,
           Admit(c) \/ NotAdmitted(c) \/ StopsWaiting(c) \/ Collects(c)
    PROVE  LogInv' /\ Onwards
<1>1. /\ call' = [call EXCEPT ![c] = call'[c]] /\ call'[c] \in CallState /\ Asking(c) /\ call'[c].st # "idle"
      /\ call'[c].line = call[c].line /\ \A o \in Caller : o # c => call'[o] = call[o]
  <2>1. call[c] \in CallState
    BY DEF LogInv, LogTypeOK
  <2>2. PICK v \in CallState : call' = [call EXCEPT ![c] = v] /\ v.line = call[c].line /\ v.st # "idle"
    <3>1. CASE Admit(c)
      <4> DEFINE v == [call[c] EXCEPT !.st = "wait"]
      <4>1. v \in CallState /\ v.line = call[c].line /\ v.st # "idle"
        BY <2>1 DEF CallState
      <4>2. call' = [call EXCEPT ![c] = v]
        BY <3>1 DEF Admit
      <4> QED
        BY <4>1, <4>2
    <3>2. CASE NotAdmitted(c) \/ StopsWaiting(c) \/ Collects(c)
      <4>1. PICK ok, inFlight \in BOOLEAN : Back(c, ok, inFlight)
        BY <3>2 DEF NotAdmitted, StopsWaiting, Collects
      <4> DEFINE v == [call[c] EXCEPT !.st = "back", !.ok = ok, !.inFlight = inFlight]
      <4>2. v \in CallState /\ v.line = call[c].line /\ v.st # "idle"
        BY <2>1 DEF CallState
      <4>3. call' = [call EXCEPT ![c] = v]
        BY <4>1 DEF Back
      <4> QED
        BY <4>2, <4>3
    <3> QED
      BY <3>1, <3>2
  <2>3. Asking(c)
    BY DEF Admit, NotAdmitted, StopsWaiting, Collects, Asking
  <2> QED
    BY <2>2, <2>3 DEF LogInv, LogTypeOK
<1> DEFINE l == call[c].line
<1>2. l \in Line /\ l \in handed /\ l \notin Queue /\ \A o \in Caller : o # c /\ Asking(o) => call[o].line # l
  BY <1>1 DEF LogInv, CallShape
<1>3. UNCHANGED <<out, ch, drain, file, safe, dropped, reported, told, mirrorq, log, faults>> /\ Queue' = Queue
  BY DEF Admit, NotAdmitted, StopsWaiting, Collects, Queue
<1>4. /\ Admit(c) => work' = [work EXCEPT ![l] = "write"] /\ work[l] = "none" /\ l \notin file
      /\ ~Admit(c) => work' = work
  BY <1>1 DEF Admit, NotAdmitted, StopsWaiting, Collects, LogInv, CallShape
<1>5. LogTypeOK'
  BY <1>1, <1>2, <1>3, <1>4 DEF LogInv, LogTypeOK
<1>6. LineShape'
  BY <1>2, <1>3, <1>4 DEF LogInv, LogTypeOK, LineShape
<1>7. CallShape'
  <2>1. call'[c].st # "admit"
    <3>1. c \in DOMAIN call /\ DOMAIN call[c] = {"st", "line", "ok", "inFlight"}
      BY DEF LogInv, LogTypeOK, CallState
    <3>2. CASE Admit(c)
      BY <3>1, <3>2 DEF Admit
    <3>3. CASE NotAdmitted(c) \/ StopsWaiting(c) \/ Collects(c)
      <4>1. PICK ok, inFlight : Back(c, ok, inFlight)
        BY <3>3 DEF NotAdmitted, StopsWaiting, Collects
      <4> QED
        BY <3>1, <4>1 DEF Back
    <3> QED
      BY <3>2, <3>3
  <2>2. call'[c].st = "wait" => work'[l] # "none"
    BY <1>2, <1>4 DEF NotAdmitted, StopsWaiting, Collects, LogInv, LogTypeOK, Back, CallState
  <2>3. call'[c].st = "back" /\ call'[c].ok => l \in safe
    <3>1. CASE Admit(c)
      BY <3>1 DEF Admit, LogInv, LogTypeOK, CallState
    <3>2. CASE NotAdmitted(c) \/ StopsWaiting(c)
      BY <3>2 DEF NotAdmitted, StopsWaiting, Back, LogInv, LogTypeOK, CallState
    <3>3. CASE Collects(c)
      <4>1. call'[c].ok = (out[l] = "flushed")
        BY <3>3 DEF Collects, Back, LogInv, LogTypeOK, CallState
      <4> QED
        BY <1>2, <4>1 DEF LogInv, LineShape
    <3> QED
      BY <3>1, <3>2, <3>3
  <2>4. call'[c].st = "back" /\ ~call'[c].ok /\ ~call'[c].inFlight => work'[l] \in {"none", "over"} /\ l \notin file
    <3>1. CASE Admit(c)
      BY <3>1 DEF Admit, LogInv, LogTypeOK, CallState
    <3>2. CASE NotAdmitted(c)
      BY <1>1, <1>2, <3>2 DEF NotAdmitted, LogInv, CallShape
    <3>3. CASE StopsWaiting(c)
      BY <3>3 DEF StopsWaiting, Back, LogInv, LogTypeOK, CallState
    <3>4. CASE Collects(c)
      <4>1. call'[c].inFlight = (out[l] = "doubtful") /\ call'[c].ok = (out[l] = "flushed") /\ out[l] # "none" /\ work' = work
        BY <3>4 DEF Collects, Back, LogInv, LogTypeOK, CallState
      <4> QED
        BY <1>2, <4>1 DEF LogInv, LogTypeOK, LineShape
    <3> QED
      BY <3>1, <3>2, <3>3, <3>4
  <2>5. ASSUME NEW o \in Caller, o # c, Asking(o)
        PROVE  call'[o] = call[o] /\ work'[call[o].line] = work[call[o].line]
    BY <1>1, <1>2, <1>4, <2>5 DEF LogInv, LogTypeOK, CallShape
  <2> QED
    BY <1>1, <1>2, <1>3, <2>1, <2>2, <2>3, <2>4, <2>5 DEF LogInv, CallShape, Asking
<1>8. CloseShape'
  <2>1. log \in {"flushing", "closed"} => call[c].st # "admit"
    BY DEF LogInv, CloseShape, Writers
  <2>2. log \in {"flushing", "closed"} => ~Admit(c)
    BY <2>1 DEF Admit
  <2>3. log \in {"flushing", "closed"} => Writers' = Writers
    <3>1. ~Admit(c) => call'[c].st = "back"
      BY DEF LogInv, LogTypeOK, NotAdmitted, StopsWaiting, Collects, Back, CallState
    <3> QED
      BY <1>1, <1>4, <2>1, <2>2, <3>1 DEF Writers, Held
  <2> QED
    BY <1>3, <2>3 DEF LogInv, CloseShape, shut
<1> QED
  BY <1>1, <1>3, <1>5, <1>6, <1>7, <1>8 DEF LogInv, Onwards, Asking

LEMMA LogWorkers ==
    ASSUME LogInv, NEW l \in Line, handed' = handed, WorkerWrites(l) \/ WorkerMirrors(l)
    PROVE  LogInv' /\ Onwards
<1>1. /\ work[l] \in {"write", "mirror"} /\ work' = [work EXCEPT ![l] = work'[l]] /\ work'[l] \in {"mirror", "over"}
      /\ out' = [out EXCEPT ![l] = out'[l]] /\ out'[l] \in {"flushed", "absent", "doubtful"}
      /\ (work'[l] = "mirror" => out'[l] = "flushed")
  BY DEF WorkerWrites, WorkerMirrors, LogInv, LogTypeOK, LineShape
<1>2. UNCHANGED <<call, ch, drain, dropped, reported, told, log>> /\ Queue' = Queue
  BY DEF WorkerWrites, WorkerMirrors, Queue
<1>3. /\ safe \subseteq safe' /\ file \subseteq file' /\ file' \subseteq file \cup {l}
      /\ out'[l] = "flushed" => l \in safe'
      /\ out'[l] = "absent" => work'[l] = "over" /\ l \notin file'
      /\ work[l] = "mirror" => file' = file
  BY DEF WorkerWrites, WorkerMirrors, LogInv, LogTypeOK, LineShape
<1>4. LogTypeOK'
  BY <1>1, <1>2 DEF LogInv, LogTypeOK
<1>5. LineShape'
  BY <1>1, <1>2, <1>3 DEF LogInv, LogTypeOK, LineShape
<1>6. CallShape'
  <2>1. ASSUME NEW o \in Caller, Asking(o), call[o].line = l
        PROVE  call[o].st # "admit" /\ ~(call[o].st = "back" /\ ~call[o].ok /\ ~call[o].inFlight)
    BY <1>1, <2>1 DEF LogInv, CallShape
  <2> QED
    BY <1>1, <1>2, <1>3, <2>1 DEF LogInv, LogTypeOK, CallShape, Asking
<1>7. CloseShape'
  <2>1. log \notin {"flushing", "closed"}
    BY <1>1 DEF LogInv, CloseShape, Writers, Held
  <2> QED
    BY <1>2, <2>1 DEF LogInv, CloseShape, shut
<1> QED
  BY <1>2, <1>3, <1>4, <1>5, <1>6, <1>7 DEF LogInv, Onwards, Asking

LEMMA LogElse ==
    ASSUME LogInv, handed' = handed,
           DrainTakes \/ DrainMirrors \/ DrainEnds \/ MirrorTakes \/ Close \/ CloseStarts
    PROVE  LogInv' /\ Onwards
<1>1. UNCHANGED <<call, work, out, safe, dropped>>
  BY DEF DrainTakes, DrainMirrors, DrainEnds, MirrorTakes, Close, CloseStarts, Joined, Mirrored, CloseGivesUp, Becomes
<1>2. Onwards /\ Writers' = Writers
  BY <1>1 DEF Onwards, Asking, Writers, Held
<1>3. CASE DrainTakes
  <2>1. ch # <<>> /\ ch \in Seq(AnyLine) /\ ch' = Tail(ch)
    BY <1>3 DEF DrainTakes, LogInv, LogTypeOK
  <2>2. Head(ch) \in Queue /\ Tail(ch) \in Seq(AnyLine) /\ Queue' \subseteq Queue
    BY <2>1 DEF Queue
  <2>3. file' \subseteq file \cup {Head(ch)} /\ file \subseteq file' /\ log' = log
    BY <1>3 DEF DrainTakes
  <2>4. LogTypeOK'
    BY <1>1, <1>3, <2>1, <2>2 DEF LogInv, LogTypeOK, DrainTakes, ReportDropped
  <2>5. LineShape'
    BY <1>1, <2>2, <2>3 DEF LogInv, LogTypeOK, LineShape
  <2>6. CallShape'
    BY <1>1, <2>2, <2>3 DEF LogInv, CallShape, Asking
  <2>7. CloseShape'
    BY <1>2, <1>3 DEF LogInv, CloseShape, shut, DrainTakes
  <2> QED
    BY <1>2, <2>4, <2>5, <2>6, <2>7 DEF LogInv
<1>4. CASE ~DrainTakes
  <2>1. ch' = ch /\ file' = file
    BY <1>4 DEF DrainMirrors, DrainEnds, MirrorTakes, Close, CloseStarts, Joined, Mirrored, CloseGivesUp, Becomes
  <2>2. LineShape' /\ CallShape'
    BY <1>1, <2>1 DEF LogInv, LineShape, CallShape, Asking, Queue
  <2>3. CASE DrainMirrors \/ DrainEnds \/ MirrorTakes
    <3>1. LogTypeOK'
      BY <1>1, <2>1, <2>3 DEF LogInv, LogTypeOK, DrainMirrors, DrainEnds, MirrorTakes, ReportDropped
    <3>2. CloseShape'
      BY <1>1, <1>2, <2>1, <2>3 DEF LogInv, LogTypeOK, CloseShape, shut, DrainMirrors, DrainEnds, MirrorTakes, ReportDropped
    <3> QED
      BY <1>2, <2>2, <3>1, <3>2 DEF LogInv
  <2>4. CASE Close \/ CloseStarts
    <3>1. LogTypeOK'
      BY <1>1, <2>1, <2>4 DEF LogInv, LogTypeOK, Close, CloseStarts, Joined, Mirrored, CloseGivesUp, Becomes
    <3>2. CloseShape'
      BY <1>1, <1>2, <2>1, <2>4 DEF LogInv, LogTypeOK, CloseShape, shut, Close, CloseStarts, Joined, Mirrored, CloseGivesUp, Becomes
    <3> QED
      BY <1>2, <2>2, <3>1, <3>2 DEF LogInv
  <2> QED
    BY <1>4, <2>3, <2>4
<1> QED
  BY <1>3, <1>4

LEMMA LogGoesOn ==
    ASSUME LogInv, handed' = handed, LogWorks \/ LogTimesOut \/ CloseStarts
    PROVE  LogInv' /\ Onwards
  BY LogCalls, LogWorkers, LogElse, Zenon DEF LogWorks, LogTimesOut, Close

\* The property of the log follows.
LEMMA LogIsHonest == LogInv => LogKeepsItsWord
<1> SUFFICES ASSUME LogInv PROVE LogKeepsItsWord
  OBVIOUS
<1>1. AnswersAreHonest
  BY DEF LogInv, CallShape, AnswersAreHonest, Asking, Held
<1>2. ClosedIsQuiet
  BY DEF LogInv, CloseShape, ClosedIsQuiet
<1> QED
  BY <1>1, <1>2 DEF LogKeepsItsWord
-----------------------------------------------------------------------------
(* Why the trail is whole: what a step of one request changes.             *)

\* What may follow for r, with its lines, its records and its work.
Serves(r, p, h, rec, done) == Plan(p) /\ Fit(p, FALSE, h, rec, done) /\ Kinds(r, p)

\* A step that is about r alone.
Spares(r) ==
    /\ UNCHANGED <<scene, sign>>
    /\ \A q \in Request \ {r} :
        call'[q] = call[q] /\ mem'[q] = mem[q] /\ H(q)' = H(q) /\ R(q)' = R(q) /\ W(q)' = W(q)
    /\ \A o \in Caller \ Request : call'[o] = call[o]

LEMMA TrailMoves ==
    ASSUME TrailInv, NEW r \in Request, NEW p, Spares(r), at[r] # <<>>, at' = [at EXCEPT ![r] = p],
           MemShape', OwnLines', RecordShape', handed \subseteq handed', ~Asking(r)',
           Serves(r, p, H(r)', R(r)', W(r)')
    PROVE  TrailInv'
<1>1. p \in Seq(Step) /\ scene' \in Scenes /\ at' \in [Request -> Seq(Step)]
  BY DEF Serves, Plan, TrailInv, Spares
<1>2. at'[r] = p /\ \A q \in Request \ {r} : at'[q] = at[q]
  BY DEF TrailInv
<1>3. r \notin Safe /\ Handled(r) /\ r \in Uses
  BY DEF TrailInv, PlanShape, Handled
<1>4. AskShape'
  BY <1>2 DEF TrailInv, AskShape, Spares, Asking
<1>5. PlanShape'
  <2>1. ASSUME NEW q \in Request \ {r}
        PROVE  /\ Plan(at[q])' /\ Fit(at[q], Asking(q), H(q), R(q), W(q))' /\ Kinds(q, at[q])'
               /\ ~Handled(q)' => at'[q] = <<>> /\ H(q)' = {} /\ R(q)' = {} /\ W(q)' = {}
               /\ q \in Safe => at'[q] = <<>>
               /\ sign'[q] # "new" => q \in Uses'
    <3>1. at'[q] = at[q] /\ Asking(q)' = Asking(q) /\ H(q)' = H(q) /\ R(q)' = R(q) /\ W(q)' = W(q)
      BY <1>2 DEF Spares, Asking
    <3>2. Kinds(q, at[q])' /\ Uses' = Uses /\ Handled(q)' = Handled(q)
      BY <3>1 DEF Spares, Kinds, What, Uses, Handled, TrailInv, PlanShape
    <3> QED
      BY <3>1, <3>2 DEF TrailInv, PlanShape, Spares
  <2>2. /\ Plan(at[r])' /\ Fit(at[r], Asking(r), H(r), R(r), W(r))' /\ Kinds(r, at[r])'
        /\ Handled(r)' /\ r \in Uses'
    <3>1. Plan(at[r])' /\ Fit(at[r], Asking(r), H(r), R(r), W(r))'
      BY <1>2 DEF Serves, Fit, Unwritten
    <3>2. Kinds(r, at[r])' /\ Handled(r)' /\ r \in Uses'
      BY <1>2, <1>3 DEF Serves, Kinds, Spares, What, Uses, Handled
    <3> QED
      BY <3>1, <3>2
  <2> QED
    BY <1>3, <2>1, <2>2 DEF PlanShape
<1> QED
  BY <1>1, <1>4, <1>5 DEF TrailInv

\* What is written, recorded and done, as seen by each.
LEMMA HandsOne ==
    ASSUME NEW r \in Request, NEW n \in 0 .. 2, NEW ph \in {"intent", "result", "denied", "challenge"},
           OwnLines, Hands(<<r, n, ph>>), <<n, ph>> \notin H(r), UNCHANGED <<recorded, ran>>
    PROVE  /\ <<r, n, ph>> \notin handed /\ <<r, n, ph>> \in AnyLine /\ handed' = handed \cup {<<r, n, ph>>}
           /\ OwnLines' /\ H(r)' = H(r) \cup {<<n, ph>>}
           /\ \A q \in Request \ {r} : H(q)' = H(q)
<1>1. <<r, n, ph>> \notin handed /\ <<r, n, ph>> \in AnyLine
  BY DEF H, AnyLine
<1>2. handed' = handed \cup {<<r, n, ph>>} /\ twice' = twice
  BY <1>1 DEF Hands
<1>3. OwnLines'
  BY <1>1, <1>2 DEF OwnLines
<1>4. H(r)' = H(r) \cup {<<n, ph>>}
  BY <1>2 DEF H
<1>5. \A q \in Request \ {r} : H(q)' = H(q)
  BY <1>2 DEF H
<1> QED
  BY <1>1, <1>2, <1>3, <1>4, <1>5

LEMMA RecordsOne ==
    ASSUME NEW r \in Request, NEW n \in 0 .. 2, recorded' = recorded \cup {<<r, n>>}
    PROVE  R(r)' = R(r) \cup {n} /\ \A q \in Request \ {r} : R(q)' = R(q)
  BY DEF R

LEMMA DoesOne ==
    ASSUME NEW r \in Request, NEW n \in 0 .. 2, ran' = ran \cup {<<r, n>>}
    PROVE  W(r)' = W(r) \cup {n} /\ \A q \in Request \ {r} : W(q)' = W(q)
  BY DEF W

LEMMA SameLines ==
    /\ UNCHANGED handed => \A q \in Request : H(q)' = H(q)
    /\ UNCHANGED recorded => \A q \in Request : R(q)' = R(q)
    /\ UNCHANGED ran => \A q \in Request : W(q)' = W(q)
  BY DEF H, R, W
-----------------------------------------------------------------------------
(* What may follow each step.                                              *)

\* As it is for a request at work.
At1(r, q, asks, h, rec, done) == Plan(q) /\ q # <<>> /\ Fit(q, asks, h, rec, done) /\ Kinds(r, q)

LEMMA KindsOfRest ==
    ASSUME NEW r, NEW p, NEW q, NEW d \in Nat, Kinds(r, q), q \in Seq(Step), Follows(p, q, d)
    PROVE  Kinds(r, p)
<1>1. \A i \in DOMAIN p : \E k \in DOMAIN q : p[i] = q[k]
  <2>1. DOMAIN p = 1 .. Len(p) /\ DOMAIN q = 1 .. Len(q)
    BY DEF Follows
  <2>2. \A i \in 1 .. Len(p) : i + d \in 1 .. Len(q) /\ p[i] = q[i + d]
    BY DEF Follows
  <2> QED
    BY <2>1, <2>2
<1> QED
  BY <1>1 DEF Kinds

LEMMA KindsOfPut ==
    ASSUME NEW r, NEW p, NEW t, NEW x, Kinds(r, t), t \in Seq(Step), Puts(p, x, t),
           x[1] \notin Locked \cup Working \cup {"lock"}
    PROVE  Kinds(r, p)
<1>1. DOMAIN p = 1 .. Len(p) /\ DOMAIN t = 1 .. Len(t) /\ Len(t) \in Nat /\ Len(p) = Len(t) + 1
  BY DEF Puts
<1>2. ASSUME NEW i \in DOMAIN p PROVE p[i] = x \/ \E k \in DOMAIN t : p[i] = t[k]
  <2>1. CASE i = 1
    BY <2>1 DEF Puts
  <2>2. CASE i # 1
    <3>1. i - 1 \in 1 .. Len(t) /\ (i - 1) + 1 = i
      BY <1>1, <2>2
    <3> QED
      BY <1>1, <3>1 DEF Puts
  <2> QED
    BY <2>1, <2>2
<1> QED
  BY <1>2 DEF Kinds

LEMMA KindsOfOne ==
    ASSUME NEW r, NEW x, x[1] \in Locked => What(r) = "settings", x[1] \notin Working \cup {"lock"}
    PROVE  Kinds(r, <<x>>)
<1>1. DOMAIN <<x>> = {1} /\ <<x>>[1] = x
  OBVIOUS
<1> QED
  BY <1>1 DEF Kinds

LEMMA NothingPlanned == Plan(<<>>) /\ \A r : Kinds(r, <<>>)
  BY PlainSteps DEF Script, Kinds

LEMMA ServesTail ==
    ASSUME NEW r, NEW q, NEW asks, NEW h, NEW rec, NEW done, NEW now, At1(r, q, asks, h, rec, done),
           q[1][1] \notin Recording \cup Answering,
           now = done \/ (q[1][1] \in Working \cup {"apply"} /\ now = done \cup {q[1][2]})
    PROVE  Serves(r, Tail(q), h, rec, now)
<1>1. Plan(Tail(q)) /\ Kinds(r, Tail(q))
  BY PlanOfTail, KindsOfRest, Shape DEF At1
<1>2. Fit(Tail(q), FALSE, h, rec, now)
  BY FitOfTail DEF At1
<1> QED
  BY <1>1, <1>2 DEF Serves

LEMMA ServesRecorded ==
    ASSUME NEW r, NEW q, NEW h, NEW rec, NEW done, At1(r, q, TRUE, h, rec, done), q[1][1] \in Recording
    PROVE  Serves(r, Tail(q), h, rec \cup {q[1][2]}, done)
<1>1. Plan(Tail(q)) /\ Kinds(r, Tail(q))
  BY PlanOfTail, KindsOfRest, Shape DEF At1
<1>2. Fit(Tail(q), FALSE, h, rec \cup {q[1][2]}, done)
  BY FitOfRecording DEF At1
<1> QED
  BY <1>1, <1>2 DEF Serves

LEMMA ServesNoted ==
    ASSUME NEW r, NEW q, NEW h, NEW rec, NEW done, At1(r, q, FALSE, h, rec, done), q[1][1] = "note"
    PROVE  <<q[1][2], "result">> \notin h /\ Serves(r, Tail(q), h \cup {<<q[1][2], "result">>}, rec, done)
<1>1. Plan(Tail(q)) /\ Kinds(r, Tail(q))
  BY PlanOfTail, KindsOfRest, Shape DEF At1
<1>2. <<q[1][2], "result">> \notin h /\ Fit(Tail(q), FALSE, h \cup {<<q[1][2], "result">>}, rec, done)
  BY FitOfNote DEF At1
<1> QED
  BY <1>1, <1>2 DEF Serves

LEMMA ServesNothing ==
    ASSUME NEW r, NEW q, NEW asks, NEW h, NEW rec, NEW done, NEW g, At1(r, q, asks, h, rec, done),
           Rank(q[1][1]) <= 5, g = h \/ g = h \cup {<<q[1][2], "challenge">>}
    PROVE  Serves(r, <<>>, g, rec, done)
  BY FitOfGivingUp, NothingPlanned DEF At1, Serves

LEMMA ServesEnd ==
    ASSUME NEW r, NEW q, NEW asks, NEW h, NEW rec, NEW done, NEW g, At1(r, q, asks, h, rec, done),
           q[1][1] \in Final, h \subseteq g, g \subseteq h \cup {<<q[1][2], "result">>},
           q[1][1] \in Answering => <<q[1][2], "result">> \in g,
           g # h => q[1][1] \in Answering
    PROVE  Serves(r, <<>>, g, rec, done)
  BY FitOfEnding, NothingPlanned DEF At1, Serves

LEMMA ServesRefusal ==
    ASSUME NEW r, NEW q, NEW h, NEW rec, NEW done, NEW y \in {"deny", "dismiss"}, At1(r, q, FALSE, h, rec, done),
           Rank(q[1][1]) <= 5
    PROVE  Serves(r, <<<<y, q[1][2]>>>>, h, rec, done)
<1> DEFINE x == <<y, q[1][2]>>
<1>1. x \in Step /\ x[1] = y /\ y \in Final \ {"report"} /\ y \notin Locked \cup Working \cup {"lock"}
  BY Shape DEF At1, Step, Name, Denying, Final, Locked, Working
<1>2. Plan(<<x>>) /\ Kinds(r, <<x>>)
  BY <1>1, PlanOfOne, KindsOfOne
<1>3. Fit(<<x>>, FALSE, h, rec, done)
  BY FitOfRefusal DEF At1
<1> QED
  BY <1>2, <1>3 DEF Serves

LEMMA ServesFailure ==
    ASSUME NEW r, NEW q, NEW h, NEW rec, NEW done, NEW y \in {"sorry", "failed", "result"},
           At1(r, q, FALSE, h, rec, done), q[1][1] \in {"submit", "start", "open", "body", "save"},
           y = "failed" => q[1][1] = "save"
    PROVE  Serves(r, <<<<y, q[1][2]>>>>, h, rec, done)
<1> DEFINE x == <<y, q[1][2]>>
<1>1. x \in Step /\ x[1] = y /\ x[2] = q[1][2] /\ y \in Final \ {"report"} /\ y \notin Working \cup {"lock"}
      /\ (y \in Locked => y = "failed")
  BY Shape DEF At1, Step, Name, Answering, Final, Locked, Working
<1>2. x[2] # 0
  BY <1>1, Shape DEF At1, Plan, Numbers
<1>3. Plan(<<x>>)
  BY <1>1, <1>2, PlanOfOne
<1>4. q[1][1] = "save" => What(r) = "settings"
  BY Shape DEF At1, Kinds, Locked
<1>5. Kinds(r, <<x>>)
  BY <1>1, <1>4, KindsOfOne
<1>6. Fit(<<x>>, FALSE, h, rec, done)
  BY FitOfFailure DEF At1
<1> QED
  BY <1>3, <1>5, <1>6 DEF Serves

LEMMA ServesUndo ==
    ASSUME NEW r, NEW q, NEW h, NEW rec, NEW done, At1(r, q, TRUE, h, rec, done), q[1][1] = "report",
           <<q[1][2], "result">> \in h
    PROVE  Serves(r, <<<<"undo", q[1][2]>>>>, h, rec, done)
<1> DEFINE x == <<"undo", q[1][2]>>
<1>1. x \in Step /\ x[1] = "undo" /\ x[2] = q[1][2] /\ "undo" \in Final \ {"report"} /\ "undo" \notin Working \cup {"lock"}
  BY Shape DEF At1, Step, Name, Answering, Final, Locked, Working
<1>2. x[2] # 0 /\ What(r) = "settings"
  BY <1>1, Shape DEF At1, Plan, Numbers, Kinds, Locked
<1>3. Plan(<<x>>) /\ Kinds(r, <<x>>)
  BY <1>1, <1>2, PlanOfOne, KindsOfOne
<1>4. Fit(<<x>>, FALSE, h, rec, done)
  BY FitOfUndo DEF At1
<1> QED
  BY <1>3, <1>4 DEF Serves

LEMMA ServesSum ==
    ASSUME NEW r, NEW q, NEW asks, NEW h, NEW rec, NEW done, At1(r, q, asks, h, rec, done),
           q[1][1] \in {"each", "entry"}
    PROVE  Serves(r, Sums, h, rec, done)
<1> DEFINE x == <<"sum", 0>>
<1>1. x \in Step /\ x[1] = "sum" /\ x[2] = 0 /\ "sum" \in Final \ {"report"} /\ "sum" \notin Working \cup Locked \cup {"lock"}
  BY DEF Step, Name, Final, Working, Locked
<1>2. Plan(<<x>>) /\ Kinds(r, <<x>>)
  BY <1>1, PlanOfOne, KindsOfOne
<1>3. Fit(Sums, FALSE, h, rec, done)
  BY FitOfSum DEF At1
<1> QED
  BY <1>2, <1>3 DEF Serves, Sums

LEMMA ServesSpend ==
    ASSUME NEW r, NEW q, NEW h, NEW rec, NEW done, At1(r, q, FALSE, h, rec, done), q[1][1] = "confirm"
    PROVE  Serves(r, <<<<"spend", q[1][2]>>>> \o Tail(q), h, rec, done)
<1> DEFINE x == <<"spend", q[1][2]>>
<1>1. Plan(<<x>> \o Tail(q)) /\ Puts(<<x>> \o Tail(q), x, Tail(q))
  BY PlanOfSpend DEF At1
<1>2. Kinds(r, Tail(q)) /\ Tail(q) \in Seq(Step)
  BY KindsOfRest, Shape DEF At1, Follows
<1>3. x[1] \notin Locked \cup Working \cup {"lock"}
  BY DEF Locked, Working
<1>4. Kinds(r, <<x>> \o Tail(q))
  BY <1>1, <1>2, <1>3, KindsOfPut
<1>5. Fit(<<x>> \o Tail(q), FALSE, h, rec, done)
  BY <1>1, FitOfSpend DEF At1
<1> QED
  BY <1>1, <1>4, <1>5 DEF Serves

LEMMA ServesRooted ==
    ASSUME NEW r, NEW q, NEW h, NEW rec, NEW done, At1(r, q, FALSE, h, rec, done), q[1][1] = "root"
    PROVE  Serves(r, <<<<"rooted", 0>>>> \o Tail(q), h, rec, done)
<1> DEFINE x == <<"rooted", 0>>
<1>1. Plan(<<x>> \o Tail(q)) /\ Puts(<<x>> \o Tail(q), x, Tail(q))
  BY PlanOfRooted DEF At1
<1>2. Kinds(r, Tail(q)) /\ Tail(q) \in Seq(Step)
  BY KindsOfRest, Shape DEF At1, Follows
<1>3. x[1] \notin Locked \cup Working \cup {"lock"}
  BY DEF Locked, Working
<1>4. Kinds(r, <<x>> \o Tail(q))
  BY <1>1, <1>2, <1>3, KindsOfPut
<1>5. Fit(<<x>> \o Tail(q), FALSE, h, rec, done)
  BY <1>1, FitOfRooted DEF At1
<1> QED
  BY <1>1, <1>4, <1>5 DEF Serves

LEMMA ServesStrike ==
    ASSUME NEW r, NEW q, NEW h, NEW rec, NEW done, At1(r, q, FALSE, h, rec, done), q[1][1] = "each"
    PROVE  Serves(r, <<<<"strike", q[1][2]>>>> \o SubSeq(q, 5, Len(q)), h, rec, done)
<1> DEFINE x == <<"strike", q[1][2]>>  t == SubSeq(q, 5, Len(q))
<1>1. Plan(<<x>> \o t) /\ Puts(<<x>> \o t, x, t) /\ Follows(t, q, 4) /\ \A j \in DOMAIN q : j > 4 => q[j][2] # q[1][2]
  BY PlanOfStrike DEF At1
<1>2. Kinds(r, t) /\ t \in Seq(Step)
  BY <1>1, KindsOfRest, Shape DEF At1, Follows
<1>3. x[1] \notin Locked \cup Working \cup {"lock"}
  BY DEF Locked, Working
<1>4. Kinds(r, <<x>> \o t)
  BY <1>1, <1>2, <1>3, KindsOfPut
<1>5. Fit(<<x>> \o t, FALSE, h, rec, done)
  BY <1>1, FitOfStrike DEF At1
<1> QED
  BY <1>1, <1>4, <1>5 DEF Serves
-----------------------------------------------------------------------------
(* The steps of a handler, by what they do to the log.                     *)

LEMMA AtWork ==
    ASSUME TrailInv, NEW r \in Request, at[r] # <<>>
    PROVE  /\ At1(r, at[r], Asking(r), H(r), R(r), W(r))
           /\ r \in Request \ Safe /\ r \in Caller /\ Handled(r) /\ at[r][1] \in Step /\ at[r][1][1] \in Name
           /\ Head(at[r]) = at[r][1] /\ N(r) = at[r][1][2] /\ N(r) \in 0 .. 2
           /\ Asking(r) => at[r][1][1] \in Askers /\ <<N(r), Asked(at[r][1][1])>> \in H(r)
<1>1. At1(r, at[r], Asking(r), H(r), R(r), W(r)) /\ r \notin Safe /\ Handled(r)
  BY DEF TrailInv, PlanShape, At1
<1>2. at[r][1] \in Step /\ at[r][1][1] \in Name /\ Head(at[r]) = at[r][1] /\ at[r][1][2] \in 0 .. 2
  BY <1>1, Shape DEF At1
<1>3. N(r) = at[r][1][2]
  BY <1>2 DEF N
<1>4. r \in Caller
  BY LineAssumption
<1>5. ASSUME Asking(r) PROVE at[r][1][1] \in Askers /\ <<N(r), Asked(at[r][1][1])>> \in H(r)
  <2>1. at[r][1][1] \in Askers /\ <<r, N(r), Asked(at[r][1][1])>> \in handed
    BY <1>3, <1>5 DEF TrailInv, AskShape
  <2>2. Asked(at[r][1][1]) \in {"intent", "denied", "result"}
    BY DEF Asked
  <2> QED
    BY <1>2, <1>3, <2>1, <2>2 DEF H
<1> QED
  BY <1>1, <1>2, <1>3, <1>4, <1>5

\* A durable line is handed in.
LEMMA AskingMoves ==
    ASSUME LogInv, TrailInv, NEW r \in Request, NEW ph, Asks(r, ph), at[r] # <<>>,
           at[r][1][1] \in Askers, ph = Asked(at[r][1][1]), at[r][1][1] = "sum" => mem[r].big
    PROVE  LogInv' /\ TrailInv'
<1> DEFINE n == N(r)  l == <<r, n, ph>>
<1>1. ~Asking(r) /\ WriteSync(r, l) /\ Hands(l)
      /\ UNCHANGED <<signVars, world, at, mem, recorded, ran>>
  BY DEF Asks, WriteSync, Asking
<1>2. /\ At1(r, at[r], FALSE, H(r), R(r), W(r)) /\ r \in Request \ Safe /\ r \in Caller
      /\ n = at[r][1][2] /\ n \in 0 .. 2
  <2>1. At1(r, at[r], Asking(r), H(r), R(r), W(r))
    BY AtWork
  <2>2. At1(r, at[r], FALSE, H(r), R(r), W(r))
    BY <1>1, <2>1 DEF At1, Fit, Unwritten
  <2> QED
    BY <2>2, AtWork
<1>3. ph \in {"intent", "result", "denied"}
  BY DEF Asked
<1>4. /\ <<n, ph>> \notin H(r)
      /\ Fit(at[r], TRUE, H(r) \cup {<<n, ph>>}, R(r), W(r))
  BY <1>2, FitOfAsking DEF At1, Askers
<1>5. /\ l \notin handed /\ handed' = handed \cup {l} /\ OwnLines'
      /\ H(r)' = H(r) \cup {<<n, ph>>} /\ \A q \in Request \ {r} : H(q)' = H(q)
  <2>1. OwnLines /\ ph \in {"intent", "result", "denied", "challenge"} /\ UNCHANGED <<recorded, ran>>
        /\ Hands(<<r, n, ph>>) /\ n \in 0 .. 2 /\ <<n, ph>> \notin H(r)
    BY <1>1, <1>2, <1>3, <1>4 DEF TrailInv
  <2> HIDE DEF n
  <2> QED
    BY <2>1, HandsOne
<1>6. l \in Line
  BY <1>2, <1>3, LineAssumption
<1>7. LogInv'
  BY <1>1, <1>2, <1>5, <1>6, LogAsks
<1>8. call'[r].st # "idle" /\ call'[r].line = l /\ safe' = safe /\ \A o \in Caller : o # r => call'[o] = call[o]
  BY <1>1, <1>2 DEF WriteSync, LogInv, LogTypeOK
<1>9. scene' = scene /\ at' = at /\ mem' = mem /\ sign' = sign /\ recorded' = recorded /\ ran' = ran
  BY <1>1 DEF signVars, world
<1>10. AskShape'
  BY <1>2, <1>5, <1>8, <1>9, LineAssumption DEF TrailInv, AskShape, Asking
<1>11. PlanShape'
  <2>1. \A q \in Request : R(q)' = R(q) /\ W(q)' = W(q) /\ Kinds(q, at[q])' = Kinds(q, at[q]) /\ Handled(q)' = Handled(q)
        /\ Uses' = Uses
    BY <1>9, SameLines DEF Kinds, What, Handled, Uses
  <2>2. \A q \in Request \ {r} : Asking(q)' = Asking(q)
    BY <1>8, LineAssumption DEF Asking
  <2>3. ASSUME NEW q \in Request \ {r}
        PROVE  /\ Plan(at[q])' /\ Fit(at[q], Asking(q), H(q), R(q), W(q))' /\ Kinds(q, at[q])'
               /\ ~Handled(q)' => at'[q] = <<>> /\ H(q)' = {} /\ R(q)' = {} /\ W(q)' = {}
               /\ q \in Safe => at'[q] = <<>>
               /\ sign'[q] # "new" => q \in Uses'
    BY <1>5, <1>9, <2>1, <2>2 DEF TrailInv, PlanShape
  <2>4. Plan(at[r])' /\ Fit(at[r], Asking(r), H(r), R(r), W(r))' /\ Kinds(r, at[r])'
    BY <1>2, <1>4, <1>5, <1>8, <1>9, <2>1 DEF At1, Asking, Fit, Unwritten
  <2>5. Handled(r)' /\ r \notin Safe /\ r \in Uses'
    BY <1>2, <2>1, AtWork DEF TrailInv, PlanShape, Handled
  <2> QED
    BY <2>3, <2>4, <2>5 DEF PlanShape
<1>12. RecordShape'
  BY <1>8, <1>9 DEF TrailInv, RecordShape
<1>13. MemShape' /\ scene' \in Scenes /\ at' \in [Request -> Seq(Step)]
  BY <1>9 DEF TrailInv, MemShape
<1> QED
  BY <1>5, <1>7, <1>10, <1>11, <1>12, <1>13 DEF TrailInv

\* A step that the log does not see.
LEMMA QuietMoves ==
    ASSUME LogInv, TrailInv, NEW r \in Request, NEW p, at[r] # <<>>, ~Asking(r),
           Goes(r, p), UNCHANGED <<logVars, signVars, scene, handed, twice, recorded, ran>>,
           MemShape', \A q \in Request \ {r} : mem'[q] = mem[q],
           Serves(r, p, H(r), R(r), W(r))
    PROVE  LogInv' /\ TrailInv'
<1>1. UNCHANGED <<call, safe, sign>>
  BY DEF logVars, signVars
<1>2. \A q \in Request : H(q)' = H(q) /\ R(q)' = R(q) /\ W(q)' = W(q)
  BY SameLines
<1>3. Spares(r)
  BY <1>1, <1>2 DEF Spares
<1>4. OwnLines' /\ RecordShape' /\ ~Asking(r)'
  BY <1>1 DEF TrailInv, OwnLines, RecordShape, Asking
<1>5. TrailInv'
  BY <1>2, <1>3, <1>4, TrailMoves DEF Goes
<1> QED
  BY <1>5, LogStays

\* One that works.
LEMMA WorkMoves ==
    ASSUME LogInv, TrailInv, NEW r \in Request, NEW p, at[r] # <<>>, ~Asking(r),
           Goes(r, p), UNCHANGED <<logVars, signVars, scene, mem, handed, twice, recorded>>,
           ran' = ran \cup {<<r, N(r)>>},
           Serves(r, p, H(r), R(r), W(r) \cup {N(r)})
    PROVE  LogInv' /\ TrailInv'
<1>1. UNCHANGED <<call, safe, sign>>
  BY DEF logVars, signVars
<1>2. \A q \in Request : H(q)' = H(q) /\ R(q)' = R(q)
  BY SameLines
<1>3. N(r) \in 0 .. 2
  BY AtWork
<1>4. W(r)' = W(r) \cup {N(r)} /\ \A q \in Request \ {r} : W(q)' = W(q)
  BY <1>3, DoesOne
<1>5. Spares(r) /\ MemShape'
  BY <1>1, <1>2, <1>4 DEF Spares, TrailInv, MemShape
<1>6. OwnLines' /\ RecordShape' /\ ~Asking(r)'
  BY <1>1, <1>3 DEF TrailInv, OwnLines, RecordShape, Asking
<1>7. TrailInv'
  BY <1>2, <1>4, <1>5, <1>6, TrailMoves DEF Goes
<1> QED
  BY <1>7, LogStays

\* One that hands a line to the queue.
LEMMA WritingMoves ==
    ASSUME LogInv, TrailInv, NEW r \in Request, NEW p, NEW ph \in {"result", "challenge"}, at[r] # <<>>, ~Asking(r),
           Goes(r, p), Writes(r, ph), UNCHANGED <<signVars, scene, mem, recorded, ran>>,
           <<N(r), ph>> \notin H(r),
           Serves(r, p, H(r) \cup {<<N(r), ph>>}, R(r), W(r))
    PROVE  LogInv' /\ TrailInv'
<1> DEFINE l == <<r, N(r), ph>>
<1>1. UNCHANGED <<call, safe, sign>> /\ Write(l) /\ Hands(l)
  BY DEF Writes, Write, signVars
<1>2. N(r) \in 0 .. 2
  BY AtWork
<1>3. /\ l \notin handed /\ l \in AnyLine /\ handed' = handed \cup {l} /\ OwnLines'
      /\ H(r)' = H(r) \cup {<<N(r), ph>>} /\ \A q \in Request \ {r} : H(q)' = H(q)
  <2> DEFINE n == N(r)
  <2>1. OwnLines /\ ph \in {"intent", "result", "denied", "challenge"} /\ UNCHANGED <<recorded, ran>>
        /\ Hands(<<r, n, ph>>) /\ n \in 0 .. 2 /\ <<n, ph>> \notin H(r)
    BY <1>1, <1>2 DEF TrailInv
  <2> HIDE DEF n
  <2>2. <<r, n, ph>> \in AnyLine
    BY <2>1 DEF AnyLine
  <2>3. <<r, n, ph>> \notin handed /\ handed' = handed \cup {<<r, n, ph>>}
    BY <2>1, <2>2 DEF H, AnyLine, Hands
  <2>5. OwnLines'
    BY <2>1, <2>2, <2>3 DEF OwnLines, Hands
  <2>4. H(r)' = H(r) \cup {<<n, ph>>} /\ \A q \in Request \ {r} : H(q)' = H(q)
    BY <2>1, HandsOne
  <2> QED
    BY <2>2, <2>3, <2>4, <2>5 DEF n
<1>4. \A q \in Request : R(q)' = R(q) /\ W(q)' = W(q)
  BY SameLines
<1>5. Spares(r) /\ MemShape'
  BY <1>1, <1>3, <1>4 DEF Spares, TrailInv, MemShape
<1>6. RecordShape' /\ ~Asking(r)'
  BY <1>1 DEF TrailInv, RecordShape, Asking
<1>7. TrailInv'
  BY <1>3, <1>4, <1>5, <1>6, TrailMoves DEF Goes
<1> QED
  BY <1>1, <1>3, <1>7, LogWrites

\* One that has its answer.
LEMMA ToldMoves ==
    ASSUME LogInv, TrailInv, NEW r \in Request, NEW p, at[r] # <<>>, Told(r),
           Goes(r, p), UNCHANGED <<signVars, scene, mem, handed, twice, ran>>,
           \/ recorded' = recorded /\ Serves(r, p, H(r), R(r), W(r))
           \/ /\ call[r].ok /\ at[r][1][1] \in Recording /\ recorded' = recorded \cup {<<r, N(r)>>}
              /\ Serves(r, p, H(r), R(r) \cup {N(r)}, W(r))
    PROVE  LogInv' /\ TrailInv'
<1>1. UNCHANGED <<safe, sign>> /\ Returns(r) /\ Asking(r) /\ call[r].st = "back"
  BY DEF Told, Returns, signVars, Asking
<1>2. N(r) \in 0 .. 2 /\ r \in Caller /\ N(r) = at[r][1][2]
  BY AtWork
<1>3. call'[r].st = "idle" /\ \A o \in Caller : o # r => call'[o] = call[o]
  BY <1>1, <1>2 DEF Returns, Quiet, LogInv, LogTypeOK
<1>4. \A q \in Request : H(q)' = H(q) /\ W(q)' = W(q)
  BY SameLines
<1>5. \A q \in Request \ {r} : R(q)' = R(q)
  BY <1>2, SameLines, RecordsOne
<1>6. Spares(r) /\ MemShape' /\ ~Asking(r)'
  BY <1>1, <1>3, <1>4, <1>5, LineAssumption DEF Spares, TrailInv, MemShape, Asking
<1>7. OwnLines' /\ RecordShape'
  <2>1. CASE recorded' = recorded
    BY <1>1, <2>1 DEF TrailInv, OwnLines, RecordShape
  <2>2. CASE call[r].ok /\ at[r][1][1] \in Recording /\ recorded' = recorded \cup {<<r, N(r)>>}
    <3>1. call[r].line = <<r, N(r), "intent">>
      BY <1>1, <1>2, <2>2 DEF TrailInv, AskShape, Asked
    <3>2. <<r, N(r), "intent">> \in safe
      BY <1>1, <1>2, <2>2, <3>1 DEF LogInv, CallShape
    <3>3. OwnLines'
      BY <1>2, <2>2 DEF TrailInv, OwnLines
    <3>4. \A x \in recorded' : x \in recorded \/ x = <<r, N(r)>>
      BY <2>2
    <3>5. \A x \in recorded : <<x[1], x[2], "intent">> \in safe'
      BY <1>1 DEF TrailInv, RecordShape
    <3>6. \A x : x = <<r, N(r)>> => <<x[1], x[2], "intent">> \in safe'
      BY <1>1, <3>2
    <3>7. RecordShape'
      BY <3>4, <3>5, <3>6 DEF RecordShape
    <3> QED
      BY <3>3, <3>7
  <2> QED
    BY <2>1, <2>2
<1>8. Serves(r, p, H(r)', R(r)', W(r)')
  BY <1>2, <1>4, SameLines, RecordsOne
<1>9. TrailInv'
  BY <1>6, <1>7, <1>8, TrailMoves DEF Goes
<1> QED
  BY <1>1, <1>2, <1>9, LogReturns
-----------------------------------------------------------------------------
(* The steps of a handler, one by one.                                     *)

\* What a step that neither asks nor works may leave ahead.
MayLeave(q, p) ==
    LET x == q[1][1]  n == q[1][2] IN
    \/ p = Tail(q) /\ x \notin Recording \cup Answering
    \/ p = <<>> /\ (Rank(x) <= 5 \/ x \in Final \ Answering)
    \/ \E y \in {"deny", "dismiss"} : p = <<<<y, n>>>> /\ Rank(x) <= 5
    \/ \E y \in {"sorry", "result"} : p = <<<<y, n>>>> /\ x \in {"submit", "start", "open", "body"}
    \/ p = <<<<"failed", n>>>> /\ x = "save"
    \/ p = Sums /\ x = "each"
    \/ p = <<<<"spend", n>>>> \o Tail(q) /\ x = "confirm"
    \/ p = <<<<"rooted", 0>>>> \o Tail(q) /\ x = "root"
    \/ p = <<<<"strike", n>>>> \o SubSeq(q, 5, Len(q)) /\ x = "each"

LEMMA LeavesServes ==
    ASSUME NEW r, NEW q, NEW p, NEW h, NEW rec, NEW done, At1(r, q, FALSE, h, rec, done), MayLeave(q, p)
    PROVE  Serves(r, p, h, rec, done)
<1> DEFINE x == q[1][1]  n == q[1][2]
<1>1. CASE p = Tail(q) /\ x \notin Recording \cup Answering
  BY <1>1, ServesTail
<1>2. CASE p = <<>> /\ Rank(x) <= 5
  BY <1>2, ServesNothing
<1>3. CASE p = <<>> /\ x \in Final \ Answering
  BY <1>3, ServesEnd
<1>4. CASE \E y \in {"deny", "dismiss"} : p = <<<<y, n>>>> /\ Rank(x) <= 5
  BY <1>4, ServesRefusal
<1>5. CASE \E y \in {"sorry", "result"} : p = <<<<y, n>>>> /\ x \in {"submit", "start", "open", "body"}
  <2>1. PICK y \in {"sorry", "result"} : p = <<<<y, n>>>>
    BY <1>5
  <2>2. y \in {"sorry", "failed", "result"} /\ x \in {"submit", "start", "open", "body", "save"} /\ (y = "failed" => x = "save")
    BY <1>5
  <2> HIDE DEF x, n
  <2>3. Serves(r, <<<<y, q[1][2]>>>>, h, rec, done)
    BY <2>2, ServesFailure DEF x
  <2> QED
    BY <2>1, <2>3 DEF n
<1>6. CASE p = <<<<"failed", n>>>> /\ x = "save"
  BY <1>6, ServesFailure
<1>7. CASE p = Sums /\ x = "each"
  BY <1>7, ServesSum
<1>8. CASE p = <<<<"spend", n>>>> \o Tail(q) /\ x = "confirm"
  BY <1>8, ServesSpend
<1>9. CASE p = <<<<"rooted", 0>>>> \o Tail(q) /\ x = "root"
  BY <1>9, ServesRooted
<1>10. CASE p = <<<<"strike", n>>>> \o SubSeq(q, 5, Len(q)) /\ x = "each"
  BY <1>10, ServesStrike
<1> QED
  BY <1>1, <1>2, <1>3, <1>4, <1>5, <1>6, <1>7, <1>8, <1>9, <1>10 DEF MayLeave

LEMMA Quietly ==
    ASSUME LogInv, TrailInv, NEW r \in Request, NEW p, at[r] # <<>>,
           at[r][1][1] \notin Askers \/ (at[r][1][1] = "sum" /\ ~mem[r].big),
           Goes(r, p), MayLeave(at[r], p), UNCHANGED <<logVars, signVars, scene, handed, twice, recorded, ran>>,
           MemShape', \A q \in Request \ {r} : mem'[q] = mem[q]
    PROVE  LogInv' /\ TrailInv'
<1>1. ~Asking(r)
  BY DEF TrailInv, AskShape
<1>2. At1(r, at[r], FALSE, H(r), R(r), W(r))
  BY <1>1, AtWork DEF At1, Fit, Unwritten
<1> QED
  BY <1>1, <1>2, LeavesServes, QuietMoves

LEMMA MemStays ==
    ASSUME TrailInv, NEW r \in Request, NEW v, DOMAIN v = DOMAIN Blank, mem' = [mem EXCEPT ![r] = v]
    PROVE  MemShape' /\ \A q \in Request \ {r} : mem'[q] = mem[q]
  BY DEF TrailInv, MemShape

LEMMA MemKept ==
    ASSUME TrailInv, NEW r \in Request, UNCHANGED mem
    PROVE  MemShape' /\ \A q \in Request \ {r} : mem'[q] = mem[q]
  BY DEF TrailInv, MemShape

LEMMA AtHead ==
    ASSUME TrailInv, NEW r \in Request, NEW x, At(r, x)
    PROVE  /\ at[r] # <<>> /\ at[r][1][1] = x /\ N(r) = at[r][1][2] /\ N(r) \in 0 .. 2
           /\ \A p : Goes(r, p) => at' = [at EXCEPT ![r] = p]
           /\ Onward(r) = Goes(r, Tail(at[r])) /\ Over(r) = Goes(r, <<>>)
           /\ \A y : Turns(r, y) = Goes(r, <<<<y, at[r][1][2]>>>>)
  BY AtWork DEF At, Goes, Onward, Over, Turns

\* Where nothing is remembered, a step of one of these kinds is quiet.
LEMMA QuietSteps ==
    ASSUME LogInv, TrailInv, NEW r \in Request, NEW p,
           at[r] # <<>>, at[r][1][1] \notin Askers \/ (at[r][1][1] = "sum" /\ ~mem[r].big),
           Goes(r, p), MayLeave(at[r], p), UNCHANGED <<logVars, signVars, scene, history, mem>>
    PROVE  LogInv' /\ TrailInv'
  BY MemKept, Quietly DEF history

\* What a handler that gathered its facts remembers.
LEMMA Gathered ==
    ASSUME NEW r \in Request, Gathers(r)
    PROVE  \E v : mem' = [mem EXCEPT ![r] = v] /\ DOMAIN v = DOMAIN Blank
<1>1. PICK asks \in Of(r).asks, big \in Of(r).big, mode \in Modes, state \in States(What(r)) :
        LET acls == What(r) \in {"chmod", "jobChmod"}
            verdict == IF acls THEN aclVerdict(state, mode) ELSE "none"
            parts == tokenParts(r, verdict) IN
        \E scan \in Scans(r, parts) :
            /\ ~acls => mode = aclmode /\ state = "unknown"
            /\ mem' = [mem EXCEPT ![r] =
                 [Blank EXCEPT !.parts = parts, !.big = big \/ verdict \in Destroys \/ scan = "many",
                               !.cost = IF What(r) = "empty" THEN "unmeasured" ELSE scan,
                               !.asks = \/ asks \/ verdict # "none" \/ scan = "many"
                                        \/ Verdict(r) = "confirm"
                                        \/ /\ What(r) \in {"chmod", "jobChmod", "jobTransfer"}
                                           /\ scene.shows[r] # None,
                               !.expect = IF state = "unknown" \/ What(r) # "chmod" THEN "anything" ELSE state,
                               !.mode = mode, !.was = aclmode]]
  BY Zenon DEF Gathers
<1> DEFINE acls == What(r) \in {"chmod", "jobChmod"}
           verdict == IF acls THEN aclVerdict(state, mode) ELSE "none"
           parts == tokenParts(r, verdict)
<1>2. PICK scan \in Scans(r, parts) :
            /\ ~acls => mode = aclmode /\ state = "unknown"
            /\ mem' = [mem EXCEPT ![r] =
                 [Blank EXCEPT !.parts = parts, !.big = big \/ verdict \in Destroys \/ scan = "many",
                               !.cost = IF What(r) = "empty" THEN "unmeasured" ELSE scan,
                               !.asks = \/ asks \/ verdict # "none" \/ scan = "many"
                                        \/ Verdict(r) = "confirm"
                                        \/ /\ What(r) \in {"chmod", "jobChmod", "jobTransfer"}
                                           /\ scene.shows[r] # None,
                               !.expect = IF state = "unknown" \/ What(r) # "chmod" THEN "anything" ELSE state,
                               !.mode = mode, !.was = aclmode]]
  BY <1>1, Zenon
<1> DEFINE v == [Blank EXCEPT !.parts = parts, !.big = big \/ verdict \in Destroys \/ scan = "many",
                               !.cost = IF What(r) = "empty" THEN "unmeasured" ELSE scan,
                               !.asks = \/ asks \/ verdict # "none" \/ scan = "many"
                                        \/ Verdict(r) = "confirm"
                                        \/ /\ What(r) \in {"chmod", "jobChmod", "jobTransfer"}
                                           /\ scene.shows[r] # None,
                               !.expect = IF state = "unknown" \/ What(r) # "chmod" THEN "anything" ELSE state,
                               !.mode = mode, !.was = aclmode]
<1>3. DOMAIN v = DOMAIN Blank
  <2> HIDE DEF acls, verdict, parts
  <2> QED
    OBVIOUS
<1>4. mem' = [mem EXCEPT ![r] = v]
  BY <1>2
<1> QED
  BY <1>3, <1>4

LEMMA LookServes ==
    ASSUME LogInv, TrailInv, NEW r \in Request, Look(r)
    PROVE  LogInv' /\ TrailInv'
<1>1. /\ at[r] # <<>> /\ at[r][1][1] = "look"
      /\ Onward(r) = Goes(r, Tail(at[r])) /\ Over(r) = Goes(r, <<>>)
      /\ Turns(r, "deny") = Goes(r, <<<<"deny", at[r][1][2]>>>>)
  BY AtHead DEF Look
<1>2. Rank("look") <= 5 /\ "look" \notin Recording \cup Answering \cup Askers
  BY DEF Rank, Recording, Answering, Askers, Denying
<1>3. PICK p : Goes(r, p) /\ MayLeave(at[r], p)
  <2>1. MayLeave(at[r], <<>>) /\ MayLeave(at[r], <<<<"deny", at[r][1][2]>>>>) /\ MayLeave(at[r], Tail(at[r]))
    BY <1>1, <1>2 DEF MayLeave
  <2> QED
    BY <1>1, <2>1 DEF Look
<1>4. MemShape' /\ \A q \in Request \ {r} : mem'[q] = mem[q]
  <2>1. CASE UNCHANGED mem
    BY <2>1, MemKept
  <2>2. CASE Gathers(r)
    <3>1. PICK v : mem' = [mem EXCEPT ![r] = v] /\ DOMAIN v = DOMAIN Blank
      BY <2>2, Gathered
    <3> QED
      BY <3>1, MemStays
  <2> QED
    BY <2>1, <2>2 DEF Look
<1>5. UNCHANGED <<logVars, signVars, scene, handed, twice, recorded, ran>>
  BY DEF Look, world, history
<1> QED
  BY <1>1, <1>2, <1>3, <1>4, <1>5, Quietly

LEMMA SealServes ==
    ASSUME LogInv, TrailInv, NEW r \in Request, Seal(r)
    PROVE  LogInv' /\ TrailInv'
<1>1. /\ at[r] # <<>> /\ at[r][1][1] = "seal"
      /\ Onward(r) = Goes(r, Tail(at[r])) /\ Over(r) = Goes(r, <<>>)
      /\ Turns(r, "deny") = Goes(r, <<<<"deny", at[r][1][2]>>>>)
  BY AtHead DEF Seal
<1>2. Rank("seal") <= 5 /\ "seal" \notin Recording \cup Answering \cup Askers
  BY DEF Rank, Recording, Answering, Askers, Denying
<1>3. PICK p : Goes(r, p) /\ MayLeave(at[r], p)
  <2>1. MayLeave(at[r], <<>>) /\ MayLeave(at[r], <<<<"deny", at[r][1][2]>>>>) /\ MayLeave(at[r], Tail(at[r]))
    BY <1>1, <1>2 DEF MayLeave
  <2> QED
    BY <1>1, <2>1 DEF Seal
<1>4. MemShape' /\ \A q \in Request \ {r} : mem'[q] = mem[q]
  <2>1. CASE UNCHANGED mem
    BY <2>1, MemKept
  <2>2. CASE ~UNCHANGED mem
    <3>1. PICK parts, cost, big :
            mem' = [mem EXCEPT ![r] = [Blank EXCEPT !.parts = parts, !.asks = TRUE, !.cost = cost, !.big = big]]
      BY <2>2, Zenon DEF Seal
    <3> DEFINE v == [Blank EXCEPT !.parts = parts, !.asks = TRUE, !.cost = cost, !.big = big]
    <3>2. DOMAIN v = DOMAIN Blank
      OBVIOUS
    <3>3. mem' = [mem EXCEPT ![r] = v]
      BY <3>1
    <3> HIDE DEF v
    <3> QED
      BY <3>2, <3>3, MemStays
  <2> QED
    BY <2>1, <2>2
<1>5. UNCHANGED <<logVars, signVars, scene, handed, twice, recorded, ran>>
  BY DEF Seal, world, history
<1> QED
  BY <1>1, <1>2, <1>3, <1>4, <1>5, Quietly

LEMMA SpendsServes ==
    ASSUME LogInv, TrailInv, NEW r \in Request, Spends(r)
    PROVE  LogInv' /\ TrailInv'
<1>1. /\ at[r] # <<>> /\ at[r][1][1] = "spend"
      /\ Onward(r) = Goes(r, Tail(at[r])) /\ Turns(r, "dismiss") = Goes(r, <<<<"dismiss", at[r][1][2]>>>>)
  BY AtHead DEF Spends
<1>2. Rank("spend") <= 5 /\ "spend" \notin Recording \cup Answering \cup Askers
  BY DEF Rank, Recording, Answering, Askers, Denying
<1>3. PICK p : Goes(r, p) /\ MayLeave(at[r], p)
  <2>1. MayLeave(at[r], <<<<"dismiss", at[r][1][2]>>>>) /\ MayLeave(at[r], Tail(at[r]))
    BY <1>1, <1>2 DEF MayLeave
  <2> QED
    BY <1>1, <2>1 DEF Spends
<1>4. MemShape' /\ \A q \in Request \ {r} : mem'[q] = mem[q]
  <2>1. CASE UNCHANGED mem
    BY <2>1, MemKept
  <2>2. CASE ~UNCHANGED mem
    <3>1. DOMAIN mem[r] = DOMAIN Blank /\ DOMAIN mem = Request
      BY DEF TrailInv, MemShape
    <3>2. PICK v : mem' = [mem EXCEPT ![r] = v] /\ DOMAIN v = DOMAIN Blank
      BY <2>2, <3>1 DEF Spends
    <3> QED
      BY <3>2, MemStays
  <2> QED
    BY <2>1, <2>2
<1>5. UNCHANGED <<logVars, signVars, scene, handed, twice, recorded, ran>>
  BY DEF Spends, world, history
<1> QED
  BY <1>1, <1>2, <1>3, <1>4, <1>5, Quietly

LEMMA StartServes ==
    ASSUME LogInv, TrailInv, NEW r \in Request, Start(r)
    PROVE  LogInv' /\ TrailInv'
<1>1. /\ at[r] # <<>> /\ at[r][1][1] = "start"
      /\ Onward(r) = Goes(r, Tail(at[r])) /\ Turns(r, "result") = Goes(r, <<<<"result", at[r][1][2]>>>>)
  BY AtHead DEF Start
<1>2. "start" \notin Recording \cup Answering \cup Askers
  BY DEF Recording, Answering, Askers, Denying
<1>3. PICK p : Goes(r, p) /\ MayLeave(at[r], p)
  <2>1. MayLeave(at[r], <<<<"result", at[r][1][2]>>>>) /\ MayLeave(at[r], Tail(at[r]))
    BY <1>1, <1>2 DEF MayLeave
  <2>2. Turns(r, "result") \/ Onward(r)
    BY DEF Start
  <2> QED
    BY <1>1, <2>1, <2>2
<1>4. MemShape' /\ \A q \in Request \ {r} : mem'[q] = mem[q]
  <2>1. CASE UNCHANGED mem
    BY <2>1, MemKept
  <2>2. CASE ~UNCHANGED mem
    <3>1. DOMAIN mem[r] = DOMAIN Blank /\ DOMAIN mem = Request
      BY DEF TrailInv, MemShape
    <3>2. Learns(r, "big", TRUE) \/ Learns(r, "was", aclmode)
      BY <2>2 DEF Start
    <3>3. PICK v : mem' = [mem EXCEPT ![r] = v] /\ DOMAIN v = DOMAIN Blank
      BY <3>1, <3>2 DEF Learns
    <3> QED
      BY <3>3, MemStays
  <2> QED
    BY <2>1, <2>2
<1>5. UNCHANGED <<logVars, signVars, scene, handed, twice, recorded, ran>>
  BY DEF Start, world, history
<1> QED
  BY <1>1, <1>2, <1>3, <1>4, <1>5, Quietly

LEMMA ClearServes ==
    ASSUME LogInv, TrailInv, NEW r \in Request, Clear(r)
    PROVE  LogInv' /\ TrailInv'
<1>1. /\ at[r] # <<>> /\ at[r][1][1] = "clear"
      /\ Turns(r, "deny") = Goes(r, <<<<"deny", at[r][1][2]>>>>) /\ Onward(r) = Goes(r, Tail(at[r])) /\ Over(r) = Goes(r, <<>>)
  BY AtHead DEF Clear
<1>2. "clear" \notin Recording \cup Answering \cup Askers
  BY DEF Recording, Answering, Askers, Denying
<1>3. MayLeave(at[r], <<<<"deny", at[r][1][2]>>>>) /\ MayLeave(at[r], Tail(at[r])) /\ MayLeave(at[r], <<>>)
  BY <1>1, <1>2, Ranks DEF MayLeave
<1>4. PICK p : Goes(r, p) /\ MayLeave(at[r], p)
  BY <1>1, <1>3 DEF Clear
<1>5. UNCHANGED <<logVars, signVars, scene, mem, handed, twice, recorded, ran>>
  BY DEF Clear, world, history
<1> QED
  BY <1>1, <1>2, <1>4, <1>5, MemKept, Quietly

LEMMA SlotServes ==
    ASSUME LogInv, TrailInv, NEW r \in Request, Slot(r)
    PROVE  LogInv' /\ TrailInv'
<1>1. /\ at[r] # <<>> /\ at[r][1][1] = "slot"
      /\ Onward(r) = Goes(r, Tail(at[r])) /\ Over(r) = Goes(r, <<>>)
  BY AtHead DEF Slot
<1>2. "slot" \notin Recording \cup Answering \cup Askers
  BY DEF Recording, Answering, Askers, Denying
<1>3. MayLeave(at[r], Tail(at[r])) /\ MayLeave(at[r], <<>>)
  BY <1>1, <1>2, Ranks DEF MayLeave
<1>4. PICK p : Goes(r, p) /\ MayLeave(at[r], p)
  BY <1>1, <1>3 DEF Slot
<1>5. UNCHANGED <<logVars, signVars, scene, mem, handed, twice, recorded, ran>>
  BY DEF Slot, world, history
<1> QED
  BY <1>1, <1>2, <1>4, <1>5, MemKept, Quietly

LEMMA BindServes ==
    ASSUME LogInv, TrailInv, NEW r \in Request, Bind(r)
    PROVE  LogInv' /\ TrailInv'
<1>1. /\ at[r] # <<>> /\ at[r][1][1] = "bind"
      /\ Onward(r) = Goes(r, Tail(at[r])) /\ Over(r) = Goes(r, <<>>)
  BY AtHead DEF Bind
<1>2. "bind" \notin Recording \cup Answering \cup Askers
  BY DEF Recording, Answering, Askers, Denying
<1>3. MayLeave(at[r], Tail(at[r])) /\ MayLeave(at[r], <<>>)
  BY <1>1, <1>2, Ranks DEF MayLeave
<1>4. PICK p : Goes(r, p) /\ MayLeave(at[r], p)
  BY <1>1, <1>3 DEF Bind
<1>5. UNCHANGED <<logVars, signVars, scene, mem, handed, twice, recorded, ran>>
  BY DEF Bind, world, history
<1> QED
  BY <1>1, <1>2, <1>4, <1>5, MemKept, Quietly

LEMMA BodyServes ==
    ASSUME LogInv, TrailInv, NEW r \in Request, Body(r)
    PROVE  LogInv' /\ TrailInv'
<1>1. /\ at[r] # <<>> /\ at[r][1][1] = "body"
      /\ Onward(r) = Goes(r, Tail(at[r])) /\ Turns(r, "result") = Goes(r, <<<<"result", at[r][1][2]>>>>)
  BY AtHead DEF Body
<1>2. "body" \notin Recording \cup Answering \cup Askers
  BY DEF Recording, Answering, Askers, Denying
<1>3. MayLeave(at[r], Tail(at[r])) /\ MayLeave(at[r], <<<<"result", at[r][1][2]>>>>)
  BY <1>1, <1>2, Ranks DEF MayLeave
<1>4. PICK p : Goes(r, p) /\ MayLeave(at[r], p)
  BY <1>1, <1>3 DEF Body
<1>5. UNCHANGED <<logVars, signVars, scene, mem, handed, twice, recorded, ran>>
  BY DEF Body, world, history
<1> QED
  BY <1>1, <1>2, <1>4, <1>5, MemKept, Quietly

LEMMA FinalizeServes ==
    ASSUME LogInv, TrailInv, NEW r \in Request, Finalize(r)
    PROVE  LogInv' /\ TrailInv'
<1>1. /\ at[r] # <<>> /\ at[r][1][1] = "land"
      /\ Onward(r) = Goes(r, Tail(at[r]))
  BY AtHead DEF Finalize
<1>2. "land" \notin Recording \cup Answering \cup Askers
  BY DEF Recording, Answering, Askers, Denying
<1>3. MayLeave(at[r], Tail(at[r]))
  BY <1>1, <1>2, Ranks DEF MayLeave
<1>4. PICK p : Goes(r, p) /\ MayLeave(at[r], p)
  BY <1>1, <1>3 DEF Finalize
<1>5. UNCHANGED <<logVars, signVars, scene, mem, handed, twice, recorded, ran>>
  BY DEF Finalize, world, history
<1> QED
  BY <1>1, <1>2, <1>4, <1>5, MemKept, Quietly

LEMMA RootServes ==
    ASSUME LogInv, TrailInv, NEW r \in Request, Root(r)
    PROVE  LogInv' /\ TrailInv'
<1>1. /\ at[r] # <<>> /\ at[r][1][1] = "root"
      /\ Onward(r) = Goes(r, Tail(at[r])) /\ Over(r) = Goes(r, <<>>)
  BY AtHead DEF Root
<1>2. "root" \notin Recording \cup Answering \cup Askers
  BY DEF Recording, Answering, Askers, Denying
<1>3. MayLeave(at[r], Tail(at[r])) /\ MayLeave(at[r], <<>>) /\ MayLeave(at[r], <<<<"rooted", 0>>>> \o Tail(at[r]))
  BY <1>1, <1>2, Ranks DEF MayLeave
<1>4. PICK p : Goes(r, p) /\ MayLeave(at[r], p)
  BY <1>1, <1>3 DEF Root
<1>5. UNCHANGED <<logVars, signVars, scene, mem, handed, twice, recorded, ran>>
  BY DEF Root, world, history
<1> QED
  BY <1>1, <1>2, <1>4, <1>5, MemKept, Quietly

LEMMA SubmitServes ==
    ASSUME LogInv, TrailInv, NEW r \in Request, Submit(r)
    PROVE  LogInv' /\ TrailInv'
<1>1. /\ at[r] # <<>> /\ at[r][1][1] = "submit"
      /\ Onward(r) = Goes(r, Tail(at[r])) /\ Turns(r, "sorry") = Goes(r, <<<<"sorry", at[r][1][2]>>>>)
  BY AtHead DEF Submit
<1>2. "submit" \notin Recording \cup Answering \cup Askers
  BY DEF Recording, Answering, Askers, Denying
<1>3. MayLeave(at[r], Tail(at[r])) /\ MayLeave(at[r], <<<<"sorry", at[r][1][2]>>>>)
  BY <1>1, <1>2, Ranks DEF MayLeave
<1>4. PICK p : Goes(r, p) /\ MayLeave(at[r], p)
  BY <1>1, <1>3 DEF Submit
<1>5. UNCHANGED <<logVars, signVars, scene, mem, handed, twice, recorded, ran>>
  BY DEF Submit, world, history
<1> QED
  BY <1>1, <1>2, <1>4, <1>5, MemKept, Quietly

LEMMA LocksServes ==
    ASSUME LogInv, TrailInv, NEW r \in Request, Locks(r)
    PROVE  LogInv' /\ TrailInv'
<1>1. /\ at[r] # <<>> /\ at[r][1][1] = "lock"
      /\ Onward(r) = Goes(r, Tail(at[r]))
  BY AtHead DEF Locks
<1>2. "lock" \notin Recording \cup Answering \cup Askers
  BY DEF Recording, Answering, Askers, Denying
<1>3. MayLeave(at[r], Tail(at[r]))
  BY <1>1, <1>2, Ranks DEF MayLeave
<1>4. PICK p : Goes(r, p) /\ MayLeave(at[r], p)
  BY <1>1, <1>3 DEF Locks
<1>5. UNCHANGED <<logVars, signVars, scene, mem, handed, twice, recorded, ran>>
  BY DEF Locks, world, history
<1> QED
  BY <1>1, <1>2, <1>4, <1>5, MemKept, Quietly

LEMMA SavesServes ==
    ASSUME LogInv, TrailInv, NEW r \in Request, Saves(r)
    PROVE  LogInv' /\ TrailInv'
<1>1. /\ at[r] # <<>> /\ at[r][1][1] = "save"
      /\ Onward(r) = Goes(r, Tail(at[r])) /\ Turns(r, "failed") = Goes(r, <<<<"failed", at[r][1][2]>>>>)
  BY AtHead DEF Saves
<1>2. "save" \notin Recording \cup Answering \cup Askers
  BY DEF Recording, Answering, Askers, Denying
<1>3. MayLeave(at[r], Tail(at[r])) /\ MayLeave(at[r], <<<<"failed", at[r][1][2]>>>>)
  BY <1>1, <1>2, Ranks DEF MayLeave
<1>4. PICK p : Goes(r, p) /\ MayLeave(at[r], p)
  BY <1>1, <1>3 DEF Saves
<1>5. UNCHANGED <<logVars, signVars, scene, mem, handed, twice, recorded, ran>>
  BY DEF Saves, world, history
<1> QED
  BY <1>1, <1>2, <1>4, <1>5, MemKept, Quietly

LEMMA UndoesServes ==
    ASSUME LogInv, TrailInv, NEW r \in Request, Undoes(r)
    PROVE  LogInv' /\ TrailInv'
<1>1. /\ at[r] # <<>> /\ at[r][1][1] = "undo"
      /\ Over(r) = Goes(r, <<>>)
  BY AtHead DEF Undoes
<1>2. "undo" \notin Recording \cup Answering \cup Askers
  BY DEF Recording, Answering, Askers, Denying
<1>3. MayLeave(at[r], <<>>)
  BY <1>1, <1>2, Ranks DEF MayLeave, Final, Answering
<1>4. PICK p : Goes(r, p) /\ MayLeave(at[r], p)
  BY <1>1, <1>3 DEF Undoes
<1>5. UNCHANGED <<logVars, signVars, scene, mem, handed, twice, recorded, ran>>
  BY DEF Undoes, world, history
<1> QED
  BY <1>1, <1>2, <1>4, <1>5, MemKept, Quietly

LEMMA EachServes ==
    ASSUME LogInv, TrailInv, NEW r \in Request, Each(r)
    PROVE  LogInv' /\ TrailInv'
<1>1. /\ at[r] # <<>> /\ at[r][1][1] = "each" /\ N(r) = at[r][1][2]
      /\ Onward(r) = Goes(r, Tail(at[r]))
  BY AtHead DEF Each
<1>2. "each" \notin Recording \cup Answering \cup Askers
  BY DEF Recording, Answering, Askers, Denying
<1>3. MayLeave(at[r], Sums) /\ MayLeave(at[r], <<<<"strike", at[r][1][2]>>>> \o SubSeq(at[r], 5, Len(at[r]))) /\ MayLeave(at[r], Tail(at[r]))
  BY <1>1, <1>2, Ranks DEF MayLeave
<1>4. PICK p : Goes(r, p) /\ MayLeave(at[r], p)
  BY <1>1, <1>3 DEF Each, Rest
<1>5. UNCHANGED <<logVars, signVars, scene, mem, handed, twice, recorded, ran>>
  BY DEF Each, world, history
<1> QED
  BY <1>1, <1>2, <1>4, <1>5, MemKept, Quietly

\* What a step that was told of its line may leave ahead.
LeavesTold(q, p) ==
    LET x == q[1][1]  n == q[1][2] IN
    \/ p = Tail(q) /\ x \notin Recording \cup Answering
    \/ p = <<>> /\ (Rank(x) <= 5 \/ x \in Final)
    \/ p = <<<<"undo", n>>>> /\ x = "report"
    \/ p = Sums /\ x = "entry"

LEMMA Toldly ==
    ASSUME LogInv, TrailInv, NEW r \in Request, NEW p, at[r] # <<>>, Told(r),
           Goes(r, p), UNCHANGED <<signVars, scene, mem, handed, twice, ran>>,
           \/ recorded' = recorded /\ LeavesTold(at[r], p)
           \/ /\ call[r].ok /\ at[r][1][1] \in Recording /\ recorded' = recorded \cup {<<r, N(r)>>}
              /\ p = Tail(at[r])
    PROVE  LogInv' /\ TrailInv'
<1> DEFINE q == at[r]  x == q[1][1]  n == q[1][2]
<1>1. Asking(r) /\ At1(r, q, TRUE, H(r), R(r), W(r)) /\ N(r) = n /\ <<n, Asked(x)>> \in H(r)
  <2>1. Asking(r)
    BY DEF Told, Asking
  <2>2. At1(r, at[r], Asking(r), H(r), R(r), W(r)) /\ N(r) = n /\ <<n, Asked(x)>> \in H(r)
    BY <2>1, AtWork
  <2> QED
    BY <2>1, <2>2 DEF At1, Fit, Unwritten
<1>2. x \in Answering => <<n, "result">> \in H(r)
  BY <1>1 DEF Asked, Answering, Recording, Denying
<1>3. CASE recorded' = recorded /\ LeavesTold(at[r], p)
  <2>1. Serves(r, p, H(r), R(r), W(r))
    <3>1. CASE p = Tail(q) /\ x \notin Recording \cup Answering
      BY <1>1, <3>1, ServesTail
    <3>2. CASE p = <<>> /\ Rank(x) <= 5
      BY <1>1, <3>2, ServesNothing
    <3>3. CASE p = <<>> /\ x \in Final
      BY <1>1, <1>2, <3>3, ServesEnd
    <3>4. CASE p = <<<<"undo", n>>>> /\ x = "report"
      BY <1>1, <1>2, <3>4, ServesUndo DEF Answering
    <3>5. CASE p = Sums /\ x = "entry"
      BY <1>1, <3>5, ServesSum
    <3> QED
      BY <1>3, <3>1, <3>2, <3>3, <3>4, <3>5 DEF LeavesTold
  <2> QED
    BY <1>3, <2>1, ToldMoves
<1>4. CASE /\ call[r].ok /\ at[r][1][1] \in Recording /\ recorded' = recorded \cup {<<r, N(r)>>}
           /\ p = Tail(at[r])
  <2>1. Serves(r, p, H(r), R(r) \cup {N(r)}, W(r))
    BY <1>1, <1>4, ServesRecorded
  <2> QED
    BY <1>4, <2>1, ToldMoves
<1> QED
  BY <1>3, <1>4

\* Who does not wait for a line has not handed it in yet.
LEMMA Unsaid ==
    ASSUME TrailInv, NEW r \in Request, at[r] # <<>>, ~Asking(r), at[r][1][1] # "undo"
    PROVE  /\ At1(r, at[r], FALSE, H(r), R(r), W(r))
           /\ <<N(r), "result">> \notin H(r) /\ <<N(r), "challenge">> \notin H(r)
<1>1. At1(r, at[r], FALSE, H(r), R(r), W(r)) /\ N(r) = at[r][1][2]
  BY AtWork DEF At1, Fit, Unwritten
<1>2. 1 \in DOMAIN at[r]
  BY <1>1, Shape DEF At1
<1> QED
  BY <1>1, <1>2 DEF At1, Fit, Unwritten

LEMMA DenyServes ==
    ASSUME LogInv, TrailInv, NEW r \in Request, Deny(r)
    PROVE  LogInv' /\ TrailInv'
<1>1. /\ at[r] # <<>> /\ at[r][1][1] = "deny"
      /\ Over(r) = Goes(r, <<>>)
  BY AtHead DEF Deny
<1>2. "deny" \in Askers /\ Asked("deny") = "denied"
  BY DEF Askers, Asked, Recording, Denying
<1>3. LeavesTold(at[r], <<>>)
  BY <1>1, Ranks DEF LeavesTold, Final, Recording, Answering
<1>4. CASE Asks(r, "denied")
  BY <1>1, <1>2, <1>4, AskingMoves
<1>5. CASE Told(r) /\ ~Asks(r, "denied")
  <2>1. PICK p : Goes(r, p) /\ recorded' = recorded /\ LeavesTold(at[r], p)
    BY <1>1, <1>3, <1>5 DEF Deny, history
  <2>2. UNCHANGED <<signVars, scene, mem, handed, twice, ran>>
    BY <1>5 DEF Deny, world, history
  <2> QED
    BY <1>1, <1>2, <1>5, <2>1, <2>2, Toldly
<1> QED
  BY <1>4, <1>5 DEF Deny

LEMMA TurnsAwayServes ==
    ASSUME LogInv, TrailInv, NEW r \in Request, TurnsAway(r)
    PROVE  LogInv' /\ TrailInv'
<1>1. /\ at[r] # <<>> /\ at[r][1][1] = "dismiss"
      /\ Over(r) = Goes(r, <<>>)
  BY AtHead DEF TurnsAway
<1>2. "dismiss" \in Askers /\ Asked("dismiss") = "denied"
  BY DEF Askers, Asked, Recording, Denying
<1>3. LeavesTold(at[r], <<>>)
  BY <1>1, Ranks DEF LeavesTold, Final, Recording, Answering
<1>4. CASE Asks(r, "denied")
  BY <1>1, <1>2, <1>4, AskingMoves
<1>5. CASE Told(r) /\ ~Asks(r, "denied")
  <2>1. PICK p : Goes(r, p) /\ recorded' = recorded /\ LeavesTold(at[r], p)
    BY <1>1, <1>3, <1>5 DEF TurnsAway, history
  <2>2. UNCHANGED <<signVars, scene, mem, handed, twice, ran>>
    BY <1>5 DEF TurnsAway, world, history
  <2> QED
    BY <1>1, <1>2, <1>5, <2>1, <2>2, Toldly
<1> QED
  BY <1>4, <1>5 DEF TurnsAway

LEMMA StrikeServes ==
    ASSUME LogInv, TrailInv, NEW r \in Request, Strike(r)
    PROVE  LogInv' /\ TrailInv'
<1>1. /\ at[r] # <<>> /\ at[r][1][1] = "strike"
      /\ Onward(r) = Goes(r, Tail(at[r]))
  BY AtHead DEF Strike
<1>2. "strike" \in Askers /\ Asked("strike") = "denied"
  BY DEF Askers, Asked, Recording, Denying
<1>3. LeavesTold(at[r], Tail(at[r]))
  BY <1>1, Ranks DEF LeavesTold, Final, Recording, Answering
<1>4. CASE Asks(r, "denied")
  BY <1>1, <1>2, <1>4, AskingMoves
<1>5. CASE Told(r) /\ ~Asks(r, "denied")
  <2>1. PICK p : Goes(r, p) /\ recorded' = recorded /\ LeavesTold(at[r], p)
    BY <1>1, <1>3, <1>5 DEF Strike, history
  <2>2. UNCHANGED <<signVars, scene, mem, handed, twice, ran>>
    BY <1>5 DEF Strike, world, history
  <2> QED
    BY <1>1, <1>2, <1>5, <2>1, <2>2, Toldly
<1> QED
  BY <1>4, <1>5 DEF Strike

LEMMA RecordServes ==
    ASSUME LogInv, TrailInv, NEW r \in Request, Record(r)
    PROVE  LogInv' /\ TrailInv'
<1>1. /\ at[r] # <<>> /\ at[r][1][1] = "record"
      /\ Over(r) = Goes(r, <<>>) /\ Onward(r) = Goes(r, Tail(at[r]))
  BY AtHead DEF Record
<1>2. "record" \in Askers /\ Asked("record") = "intent" /\ "record" \in Recording
  BY DEF Askers, Asked, Recording, Denying
<1>3. LeavesTold(at[r], <<>>)
  BY <1>1, Ranks DEF LeavesTold, Final, Recording, Answering
<1>4. CASE Asks(r, "intent")
  BY <1>1, <1>2, <1>4, AskingMoves
<1>5. CASE Told(r) /\ ~Asks(r, "intent")
  <2>1. PICK p :
            /\ Goes(r, p)
            /\ \/ recorded' = recorded /\ LeavesTold(at[r], p)
               \/ call[r].ok /\ recorded' = recorded \cup {<<r, N(r)>>} /\ p = Tail(at[r])
    <3>1. CASE call[r].ok
      BY <1>1, <1>5, <3>1 DEF Record
    <3>2. CASE ~call[r].ok
      <4>1. Goes(r, <<>>) /\ recorded' = recorded
        BY <1>1, <1>5, <3>2 DEF Record
      <4> QED
        BY <1>3, <4>1
    <3> QED
      BY <3>1, <3>2
  <2>2. UNCHANGED <<signVars, scene, mem, handed, twice, ran>>
    BY <1>5 DEF Record, world, history
  <2> QED
    BY <1>1, <1>2, <1>5, <2>1, <2>2, Toldly
<1> QED
  BY <1>4, <1>5 DEF Record

LEMMA EntryServes ==
    ASSUME LogInv, TrailInv, NEW r \in Request, Entry(r)
    PROVE  LogInv' /\ TrailInv'
<1>1. /\ at[r] # <<>> /\ at[r][1][1] = "entry"
      /\ Onward(r) = Goes(r, Tail(at[r]))
  BY AtHead DEF Entry
<1>2. "entry" \in Askers /\ Asked("entry") = "intent" /\ "entry" \in Recording
  BY DEF Askers, Asked, Recording, Denying
<1>3. LeavesTold(at[r], Sums)
  BY <1>1, Ranks DEF LeavesTold, Final, Recording, Answering
<1>4. CASE Asks(r, "intent")
  BY <1>1, <1>2, <1>4, AskingMoves
<1>5. CASE Told(r) /\ ~Asks(r, "intent")
  <2>1. PICK p :
            /\ Goes(r, p)
            /\ \/ recorded' = recorded /\ LeavesTold(at[r], p)
               \/ call[r].ok /\ recorded' = recorded \cup {<<r, N(r)>>} /\ p = Tail(at[r])
    <3>1. CASE call[r].ok
      BY <1>1, <1>5, <3>1 DEF Entry
    <3>2. CASE ~call[r].ok
      <4>1. Goes(r, Sums) /\ recorded' = recorded
        BY <1>1, <1>5, <3>2 DEF Entry
      <4> QED
        BY <1>3, <4>1
    <3> QED
      BY <3>1, <3>2
  <2>2. UNCHANGED <<signVars, scene, mem, handed, twice, ran>>
    BY <1>5 DEF Entry, world, history
  <2> QED
    BY <1>1, <1>2, <1>5, <2>1, <2>2, Toldly
<1> QED
  BY <1>4, <1>5 DEF Entry

LEMMA IntendsServes ==
    ASSUME LogInv, TrailInv, NEW r \in Request, Intends(r)
    PROVE  LogInv' /\ TrailInv'
<1>1. /\ at[r] # <<>> /\ at[r][1][1] = "intent"
      /\ Over(r) = Goes(r, <<>>) /\ Onward(r) = Goes(r, Tail(at[r]))
  BY AtHead DEF Intends
<1>2. "intent" \in Askers /\ Asked("intent") = "intent" /\ "intent" \in Recording
  BY DEF Askers, Asked, Recording, Denying
<1>3. LeavesTold(at[r], <<>>)
  BY <1>1, Ranks DEF LeavesTold, Final, Recording, Answering
<1>4. CASE Asks(r, "intent")
  BY <1>1, <1>2, <1>4, AskingMoves
<1>5. CASE Told(r) /\ ~Asks(r, "intent")
  <2>1. PICK p :
            /\ Goes(r, p)
            /\ \/ recorded' = recorded /\ LeavesTold(at[r], p)
               \/ call[r].ok /\ recorded' = recorded \cup {<<r, N(r)>>} /\ p = Tail(at[r])
    <3>1. CASE call[r].ok
      BY <1>1, <1>5, <3>1 DEF Intends
    <3>2. CASE ~call[r].ok
      <4>1. Goes(r, <<>>) /\ recorded' = recorded
        BY <1>1, <1>5, <3>2 DEF Intends
      <4> QED
        BY <1>3, <4>1
    <3> QED
      BY <3>1, <3>2
  <2>2. UNCHANGED <<signVars, scene, mem, handed, twice, ran>>
    BY <1>5 DEF Intends, world, history
  <2> QED
    BY <1>1, <1>2, <1>5, <2>1, <2>2, Toldly
<1> QED
  BY <1>4, <1>5 DEF Intends

LEMMA RootedServes ==
    ASSUME LogInv, TrailInv, NEW r \in Request, Rooted(r)
    PROVE  LogInv' /\ TrailInv'
<1>1. /\ at[r] # <<>> /\ at[r][1][1] = "rooted"
      /\ Onward(r) = Goes(r, Tail(at[r])) /\ Over(r) = Goes(r, <<>>)
  BY AtHead DEF Rooted
<1>2. "rooted" \in Askers /\ Asked("rooted") = "result"
  BY DEF Askers, Asked, Recording, Denying
<1>3. LeavesTold(at[r], Tail(at[r])) /\ LeavesTold(at[r], <<>>)
  BY <1>1, Ranks DEF LeavesTold, Final, Recording, Answering
<1>4. CASE Asks(r, "result")
  BY <1>1, <1>2, <1>4, AskingMoves
<1>5. CASE Told(r) /\ ~Asks(r, "result")
  <2>1. PICK p : Goes(r, p) /\ recorded' = recorded /\ LeavesTold(at[r], p)
    BY <1>1, <1>3, <1>5 DEF Rooted, history
  <2>2. UNCHANGED <<signVars, scene, mem, handed, twice, ran>>
    BY <1>5 DEF Rooted, world, history
  <2> QED
    BY <1>1, <1>2, <1>5, <2>1, <2>2, Toldly
<1> QED
  BY <1>4, <1>5 DEF Rooted

LEMMA FailedServes ==
    ASSUME LogInv, TrailInv, NEW r \in Request, Failed(r)
    PROVE  LogInv' /\ TrailInv'
<1>1. /\ at[r] # <<>> /\ at[r][1][1] = "failed"
      /\ Over(r) = Goes(r, <<>>)
  BY AtHead DEF Failed
<1>2. "failed" \in Askers /\ Asked("failed") = "result"
  BY DEF Askers, Asked, Recording, Denying
<1>3. LeavesTold(at[r], <<>>)
  BY <1>1, Ranks DEF LeavesTold, Final, Recording, Answering
<1>4. CASE Asks(r, "result")
  BY <1>1, <1>2, <1>4, AskingMoves
<1>5. CASE Told(r) /\ ~Asks(r, "result")
  <2>1. PICK p : Goes(r, p) /\ recorded' = recorded /\ LeavesTold(at[r], p)
    BY <1>1, <1>3, <1>5 DEF Failed, history
  <2>2. UNCHANGED <<signVars, scene, mem, handed, twice, ran>>
    BY <1>5 DEF Failed, world, history
  <2> QED
    BY <1>1, <1>2, <1>5, <2>1, <2>2, Toldly
<1> QED
  BY <1>4, <1>5 DEF Failed

LEMMA ReportsServes ==
    ASSUME LogInv, TrailInv, NEW r \in Request, Reports(r)
    PROVE  LogInv' /\ TrailInv'
<1>1. /\ at[r] # <<>> /\ at[r][1][1] = "report"
      /\ Over(r) = Goes(r, <<>>) /\ Turns(r, "undo") = Goes(r, <<<<"undo", at[r][1][2]>>>>)
  BY AtHead DEF Reports
<1>2. "report" \in Askers /\ Asked("report") = "result"
  BY DEF Askers, Asked, Recording, Denying
<1>3. LeavesTold(at[r], <<>>) /\ LeavesTold(at[r], <<<<"undo", at[r][1][2]>>>>)
  BY <1>1, Ranks DEF LeavesTold, Final, Recording, Answering
<1>4. CASE Asks(r, "result")
  BY <1>1, <1>2, <1>4, AskingMoves
<1>5. CASE Told(r) /\ ~Asks(r, "result")
  <2>1. PICK p : Goes(r, p) /\ recorded' = recorded /\ LeavesTold(at[r], p)
    BY <1>1, <1>3, <1>5 DEF Reports, history
  <2>2. UNCHANGED <<signVars, scene, mem, handed, twice, ran>>
    BY <1>5 DEF Reports, world, history
  <2> QED
    BY <1>1, <1>2, <1>5, <2>1, <2>2, Toldly
<1> QED
  BY <1>4, <1>5 DEF Reports

LEMMA SumServes ==
    ASSUME LogInv, TrailInv, NEW r \in Request, Sum(r)
    PROVE  LogInv' /\ TrailInv'
<1>1. /\ at[r] # <<>> /\ at[r][1][1] = "sum"
      /\ Over(r) = Goes(r, <<>>)
  BY AtHead DEF Sum
<1>2. "sum" \in Askers /\ Asked("sum") = "result"
  BY DEF Askers, Asked, Recording, Denying
<1>3. LeavesTold(at[r], <<>>)
  BY <1>1, Ranks DEF LeavesTold, Final, Recording, Answering
<1>4. CASE mem[r].big /\ Asks(r, "result")
  BY <1>1, <1>2, <1>4, AskingMoves
<1>5. CASE Told(r) /\ ~(mem[r].big /\ Asks(r, "result"))
  <2>1. PICK p : Goes(r, p) /\ recorded' = recorded /\ LeavesTold(at[r], p)
    BY <1>1, <1>3, <1>5 DEF Sum, history
  <2>2. UNCHANGED <<signVars, scene, mem, handed, twice, ran>>
    BY <1>5 DEF Sum, world, history
  <2> QED
    BY <1>1, <1>2, <1>5, <2>1, <2>2, Toldly
<1>6. CASE ~mem[r].big /\ UNCHANGED logVars /\ ~(mem[r].big /\ Asks(r, "result"))
  <2>1. Goes(r, <<>>) /\ UNCHANGED <<signVars, scene, history, mem>>
    BY <1>1, <1>6 DEF Sum, world
  <2>2. MayLeave(at[r], <<>>)
    BY <1>1 DEF MayLeave, Final, Answering
  <2> QED
    BY <1>1, <1>6, <2>1, <2>2, QuietSteps
<1> QED
  BY <1>4, <1>5, <1>6 DEF Sum

LEMMA ResultServes ==
    ASSUME LogInv, TrailInv, NEW r \in Request, Result(r)
    PROVE  LogInv' /\ TrailInv'
<1>1. /\ at[r] # <<>> /\ at[r][1][1] = "result"
      /\ Over(r) = Goes(r, <<>>)
  BY AtHead DEF Result
<1>2. "result" \in Askers /\ Asked("result") = "result"
  BY DEF Askers, Asked, Recording, Denying
<1>3. LeavesTold(at[r], <<>>)
  BY <1>1, Ranks DEF LeavesTold, Final, Recording, Answering
<1>4. CASE Asks(r, "result")
  BY <1>1, <1>2, <1>4, AskingMoves
<1>5. CASE Told(r) /\ ~Asks(r, "result")
  <2>1. PICK p : Goes(r, p) /\ recorded' = recorded /\ LeavesTold(at[r], p)
    BY <1>1, <1>3, <1>5 DEF Result, history
  <2>2. UNCHANGED <<signVars, scene, mem, handed, twice, ran>>
    BY <1>5 DEF Result, Told, world, history
  <2> QED
    BY <1>1, <1>2, <1>5, <2>1, <2>2, Toldly
<1>6. CASE call[r].st = "idle" /\ Writes(r, "result") /\ ~Asks(r, "result")
  <2>1. Goes(r, <<>>) /\ UNCHANGED <<signVars, scene, mem, recorded, ran>> /\ ~Asking(r)
    BY <1>1, <1>6 DEF Result, Told, world, Asking
  <2>2. At1(r, at[r], FALSE, H(r), R(r), W(r)) /\ <<N(r), "result">> \notin H(r) /\ N(r) = at[r][1][2]
    BY <1>1, <2>1, Unsaid, AtWork
  <2>3. Serves(r, <<>>, H(r) \cup {<<N(r), "result">>}, R(r), W(r))
    BY <1>1, <2>2, ServesEnd DEF Final, Answering
  <2> QED
    BY <1>1, <1>6, <2>1, <2>2, <2>3, WritingMoves
<1> QED
  BY <1>4, <1>5, <1>6 DEF Result

LEMMA ConfirmServes ==
    ASSUME LogInv, TrailInv, NEW r \in Request, Confirm(r)
    PROVE  LogInv' /\ TrailInv'
<1>1. /\ at[r] # <<>> /\ at[r][1][1] = "confirm" /\ N(r) = at[r][1][2]
      /\ Onward(r) = Goes(r, Tail(at[r])) /\ Over(r) = Goes(r, <<>>)
      /\ Turns(r, "dismiss") = Goes(r, <<<<"dismiss", at[r][1][2]>>>>)
  BY AtHead DEF Confirm
<1>2. "confirm" \notin Recording \cup Answering \cup Askers
  BY DEF Recording, Answering, Askers, Denying
<1>3. UNCHANGED <<signVars, scene, mem, recorded, ran>>
  BY DEF Confirm, world
<1>4. CASE ~Writes(r, "challenge")
  <2>1. /\ MayLeave(at[r], <<<<"dismiss", at[r][1][2]>>>>) /\ MayLeave(at[r], Tail(at[r]))
        /\ MayLeave(at[r], <<<<"spend", at[r][1][2]>>>> \o Tail(at[r]))
    BY <1>1, <1>2, Ranks DEF MayLeave
  <2>2. UNCHANGED <<logVars, handed, twice>>
    BY <1>4 DEF Confirm
  <2>3. PICK p : Goes(r, p) /\ MayLeave(at[r], p)
    <3>1. \/ Onward(r) \/ Turns(r, "dismiss")
          \/ Goes(r, <<<<"spend", N(r)>>>> \o Tail(at[r]))
      BY <1>4 DEF Confirm
    <3> QED
      BY <1>1, <2>1, <3>1
  <2> QED
    BY <1>1, <1>2, <1>3, <2>2, <2>3, MemKept, Quietly
<1>5. CASE Writes(r, "challenge") /\ Over(r)
  <2>1. ~Asking(r)
    BY <1>1, <1>2 DEF TrailInv, AskShape
  <2>2. At1(r, at[r], FALSE, H(r), R(r), W(r)) /\ <<N(r), "challenge">> \notin H(r)
    BY <1>1, <2>1, Unsaid
  <2>3. Serves(r, <<>>, H(r) \cup {<<N(r), "challenge">>}, R(r), W(r))
    <3> DEFINE g == H(r) \cup {<<at[r][1][2], "challenge">>}
    <3>1. Rank(at[r][1][1]) <= 5
      BY <1>1, Ranks
    <3>2. Serves(r, <<>>, g, R(r), W(r))
      BY <2>2, <3>1, ServesNothing
    <3> QED
      BY <1>1, <3>2
  <2> QED
    BY <1>1, <1>3, <1>5, <2>1, <2>2, <2>3, WritingMoves
<1>6. CASE Writes(r, "challenge") /\ UNCHANGED handed
  <2>1. <<r, N(r), "challenge">> \in handed
    BY <1>6 DEF Writes, Hands
  <2>2. ~Asking(r)
    BY <1>1, <1>2 DEF TrailInv, AskShape
  <2>3. <<N(r), "challenge">> \notin H(r) /\ N(r) \in 0 .. 2
    BY <1>1, <2>2, Unsaid, AtWork
  <2> QED
    BY <2>1, <2>3 DEF H
<1> QED
  BY <1>4, <1>5, <1>6 DEF Confirm

LEMMA NoteServes ==
    ASSUME LogInv, TrailInv, NEW r \in Request, Note(r)
    PROVE  LogInv' /\ TrailInv'
<1>1. at[r] # <<>> /\ at[r][1][1] = "note" /\ N(r) = at[r][1][2] /\ Onward(r) = Goes(r, Tail(at[r]))
  BY AtHead DEF Note
<1>2. ~Asking(r)
  BY <1>1 DEF TrailInv, AskShape, Askers, Recording, Denying
<1>3. At1(r, at[r], FALSE, H(r), R(r), W(r)) /\ <<N(r), "result">> \notin H(r)
  BY <1>1, <1>2, Unsaid
<1>4. Serves(r, Tail(at[r]), H(r) \cup {<<N(r), "result">>}, R(r), W(r))
  BY <1>1, <1>3, ServesNoted
<1>5. UNCHANGED <<signVars, scene, mem, recorded, ran>> /\ Writes(r, "result") /\ Goes(r, Tail(at[r]))
  BY <1>1 DEF Note, world
<1> QED
  BY <1>1, <1>2, <1>3, <1>4, <1>5, WritingMoves

LEMMA SorryServes ==
    ASSUME LogInv, TrailInv, NEW r \in Request, Sorry(r)
    PROVE  LogInv' /\ TrailInv'
<1>1. at[r] # <<>> /\ at[r][1][1] = "sorry" /\ N(r) = at[r][1][2] /\ Over(r) = Goes(r, <<>>)
  BY AtHead DEF Sorry
<1>2. ~Asking(r)
  BY <1>1 DEF TrailInv, AskShape, Askers, Recording, Denying
<1>3. At1(r, at[r], FALSE, H(r), R(r), W(r)) /\ <<N(r), "result">> \notin H(r)
  BY <1>1, <1>2, Unsaid
<1>4. Serves(r, <<>>, H(r) \cup {<<N(r), "result">>}, R(r), W(r))
  BY <1>1, <1>3, ServesEnd DEF Final, Answering
<1>5. UNCHANGED <<signVars, scene, mem, recorded, ran>> /\ Writes(r, "result") /\ Goes(r, <<>>)
  BY <1>1 DEF Sorry, world
<1> QED
  BY <1>1, <1>2, <1>3, <1>4, <1>5, WritingMoves

LEMMA Workly ==
    ASSUME LogInv, TrailInv, NEW r \in Request, at[r] # <<>>, at[r][1][1] \in Working \cup {"apply"},
           Goes(r, Tail(at[r])), UNCHANGED <<logVars, signVars, scene, mem, handed, twice, recorded>>,
           ran' = ran \cup {<<r, N(r)>>}
    PROVE  LogInv' /\ TrailInv'
<1>1. ~Asking(r) /\ at[r][1][1] \notin Recording \cup Answering /\ at[r][1][1] # "undo"
  BY DEF TrailInv, AskShape, Askers, Recording, Denying, Working, Answering
<1>2. At1(r, at[r], FALSE, H(r), R(r), W(r)) /\ N(r) = at[r][1][2]
  BY <1>1, Unsaid, AtWork
<1>3. Serves(r, Tail(at[r]), H(r), R(r), W(r) \cup {N(r)})
  BY <1>1, <1>2, ServesTail
<1> QED
  BY <1>1, <1>3, WorkMoves

LEMMA CallServes ==
    ASSUME LogInv, TrailInv, NEW r \in Request, Call(r)
    PROVE  LogInv' /\ TrailInv'
<1>1. at[r] # <<>> /\ at[r][1][1] \in {"call", "run"} /\ Goes(r, Tail(at[r]))
  BY AtHead DEF Call
<1>2. UNCHANGED <<logVars, signVars, scene, mem, handed, twice, recorded>>
  BY DEF Call
<1>3. at[r][1][1] \in Working /\ at[r][1][1] \notin Recording \cup Answering \cup Askers
  BY <1>1 DEF Working, Recording, Answering, Askers, Denying
<1>4. CASE Works(r)
  BY <1>1, <1>2, <1>3, <1>4, Workly DEF Works
<1>5. CASE NotDone
  <2>1. MayLeave(at[r], Tail(at[r]))
    BY <1>3 DEF MayLeave
  <2>2. UNCHANGED ran
    BY <1>5 DEF NotDone
  <2> QED
    BY <1>1, <1>2, <1>3, <2>1, <2>2, MemKept, Quietly
<1> QED
  BY <1>4, <1>5 DEF Call

LEMMA OpenServes ==
    ASSUME LogInv, TrailInv, NEW r \in Request, Open(r)
    PROVE  LogInv' /\ TrailInv'
<1>1. /\ at[r] # <<>> /\ at[r][1][1] = "open" /\ Onward(r) = Goes(r, Tail(at[r]))
      /\ Turns(r, "result") = Goes(r, <<<<"result", at[r][1][2]>>>>)
  BY AtHead DEF Open
<1>2. UNCHANGED <<logVars, signVars, scene, mem, handed, twice, recorded>>
  BY DEF Open
<1>3. "open" \in Working /\ "open" \notin Recording \cup Answering \cup Askers
  BY DEF Working, Recording, Answering, Askers, Denying
<1>4. CASE Works(r) /\ Onward(r)
  BY <1>1, <1>2, <1>3, <1>4, Workly DEF Works
<1>5. CASE NotDone /\ Turns(r, "result")
  <2>1. MayLeave(at[r], <<<<"result", at[r][1][2]>>>>)
    BY <1>1 DEF MayLeave
  <2>2. UNCHANGED ran
    BY <1>5 DEF NotDone
  <2> QED
    BY <1>1, <1>2, <1>3, <1>5, <2>1, <2>2, MemKept, Quietly
<1> QED
  BY <1>4, <1>5 DEF Open

LEMMA AppliesServes ==
    ASSUME LogInv, TrailInv, NEW r \in Request, Applies(r)
    PROVE  LogInv' /\ TrailInv'
<1>1. at[r] # <<>> /\ at[r][1][1] = "apply" /\ Goes(r, Tail(at[r]))
  BY AtHead DEF Applies
<1>2. UNCHANGED <<logVars, signVars, scene, mem, handed, twice, recorded>> /\ ran' = ran \cup {<<r, N(r)>>}
  BY DEF Applies, world
<1> QED
  BY <1>1, <1>2, Workly

LEMMA HandlesServes ==
    ASSUME LogInv, TrailInv, NEW r \in Request, Handles(r)
    PROVE  LogInv' /\ TrailInv'
<1>1. CASE Look(r) \/ Seal(r) \/ Clear(r) \/ Deny(r) \/ Confirm(r) \/ Spends(r) \/ TurnsAway(r)
  BY <1>1, LookServes, SealServes, ClearServes, DenyServes, ConfirmServes, SpendsServes, TurnsAwayServes
<1>2. CASE Record(r) \/ Call(r) \/ Result(r) \/ Each(r) \/ Strike(r) \/ Entry(r) \/ Note(r) \/ Sum(r)
  BY <1>2, RecordServes, CallServes, ResultServes, EachServes, StrikeServes, EntryServes, NoteServes, SumServes
<1>3. CASE Slot(r) \/ Bind(r) \/ Open(r) \/ Body(r) \/ Finalize(r) \/ Root(r) \/ Rooted(r) \/ Submit(r) \/ Sorry(r) \/ Start(r)
  BY <1>3, SlotServes, BindServes, OpenServes, BodyServes, FinalizeServes, RootServes, RootedServes, SubmitServes,
     SorryServes, StartServes
<1>4. CASE Locks(r) \/ Intends(r) \/ Saves(r) \/ Failed(r) \/ Applies(r) \/ Reports(r) \/ Undoes(r)
  BY <1>4, LocksServes, IntendsServes, SavesServes, FailedServes, AppliesServes, ReportsServes, UndoesServes
<1> QED
  BY <1>1, <1>2, <1>3, <1>4 DEF Handles
-----------------------------------------------------------------------------
(* The sign-in of a request, beside everything else.                       *)

LEMMA HandlesLeavesSignIn ==
    ASSUME NEW r \in Request, Handles(r)
    PROVE  UNCHANGED signVars
<1>1. ASSUME Look(r) \/ Seal(r) \/ Clear(r) \/ Deny(r) \/ Confirm(r) \/ Spends(r) \/ TurnsAway(r)
      PROVE  UNCHANGED signVars
  BY <1>1 DEF Look, Seal, Clear, Deny, Confirm, Spends, TurnsAway, Asks
<1>2. ASSUME Record(r) \/ Call(r) \/ Result(r) \/ Each(r) \/ Strike(r) \/ Entry(r) \/ Note(r) \/ Sum(r)
      PROVE  UNCHANGED signVars
  BY <1>2 DEF Record, Call, Result, Each, Strike, Entry, Note, Sum, Asks
<1>3. ASSUME Slot(r) \/ Bind(r) \/ Open(r) \/ Body(r) \/ Finalize(r)
             \/ Root(r) \/ Rooted(r) \/ Submit(r) \/ Sorry(r) \/ Start(r)
      PROVE  UNCHANGED signVars
  BY <1>3 DEF Slot, Bind, Open, Body, Finalize, Root, Rooted, Submit, Sorry, Start, Asks
<1>4. ASSUME Locks(r) \/ Intends(r) \/ Saves(r) \/ Failed(r) \/ Applies(r) \/ Reports(r) \/ Undoes(r)
      PROVE  UNCHANGED signVars
  BY <1>4 DEF Locks, Intends, Saves, Failed, Applies, Reports, Undoes, Asks
<1> QED
  BY <1>1, <1>2, <1>3, <1>4, Zenon DEF Handles

LEMMA SignInKept == SignInv /\ [Next]_vars => SignInv'
<1> SUFFICES ASSUME SignInv, [Next]_vars PROVE SignInv'
  OBVIOUS
<1>1. ASSUME NEW r \in Request, Arrives(r) PROVE SignInv'
  <2>1. CASE Lookup(r)
    BY <2>1, LooksUp
  <2>2. CASE To(r, "in") /\ UNCHANGED <<qts, cache, flight, leader, live, born, owner, sess, word>>
    BY <1>1, <2>2, ComesIn DEF Arrives
  <2> QED
    BY <1>1, <2>1, <2>2, Zenon DEF Arrives
<1>2. ASSUME NEW r \in Request, Dispatch(r) PROVE SignInv'
  <2>1. PICK st \in {"served", "refused"} : To(r, st) /\ sign[r] \in {"in", "outside"}
    BY <1>2 DEF Dispatch
  <2>2. Parts(r) /\ UNCHANGED <<qts, cache, flight, leader, live, born, owner>>
    BY <1>2 DEF Dispatch
  <2> QED
    BY <2>1, <2>2, Leaves, Zenon
<1>3. ASSUME NEW r \in Request, Acts(r) PROVE SignInv'
  BY <1>2, <1>3, HandlesLeavesSignIn, Elsewise, Authenticating, Zenon DEF Acts
<1>4. ASSUME Happens PROVE SignInv'
  <2>1. CASE UNCHANGED signVars
    BY <2>1, Elsewise, Zenon
  <2>2. CASE SignsOut \/ Removed \/ CacheExpires
    BY <2>2, OtherSteps
  <2> QED
    BY <1>4, <2>1, <2>2 DEF Happens
<1>5. ASSUME Logs \/ UNCHANGED vars PROVE SignInv'
  BY <1>5, Elsewise DEF Logs, vars
<1> QED
  BY <1>1, <1>3, <1>4, <1>5, QtsAnswers, Zenon DEF Next

-----------------------------------------------------------------------------
(* The steps of anybody else.                                              *)

\* Nobody's request is handled who was not, nor comes who had not.
Signs ==
    /\ \A q \in Request : Handled(q) => Handled(q)'
    /\ \A q \in Request : sign'[q] # "new" => q \in Uses

LEMMA OthersMove ==
    ASSUME TrailInv, Onwards, Signs, UNCHANGED <<scene, at, mem, handed, twice, recorded, ran>>
    PROVE  TrailInv'
<1>1. \A q \in Request : H(q)' = H(q) /\ R(q)' = R(q) /\ W(q)' = W(q)
  BY SameLines
<1>2. \A q \in Caller : Asking(q)' = Asking(q) /\ (Asking(q) => call'[q].line = call[q].line)
  BY DEF Onwards
<1>3. AskShape'
  <2>1. ASSUME NEW q \in Request, Asking(q)'
        PROVE  /\ at'[q] # <<>> /\ at'[q][1][1] \in Askers
               /\ call'[q].line = <<q, at'[q][1][2], Asked(at'[q][1][1])>>
               /\ call'[q].line \in handed'
               /\ at'[q][1][1] = "sum" => mem'[q].big
    <3>1. Asking(q) /\ call'[q].line = call[q].line
      BY <1>2, <2>1, LineAssumption
    <3> QED
      BY <3>1 DEF TrailInv, AskShape
  <2>2. \A o \in Caller \ Request : ~Asking(o)'
    BY <1>2 DEF TrailInv, AskShape
  <2> QED
    BY <2>1, <2>2 DEF AskShape
<1>4. PlanShape'
  <2>1. Uses' = Uses
    BY DEF Uses, What
  <2>2. ASSUME NEW q \in Request
        PROVE  /\ Plan(at[q])' /\ Fit(at[q], Asking(q), H(q), R(q), W(q))' /\ Kinds(q, at[q])'
               /\ ~Handled(q)' => at'[q] = <<>> /\ H(q)' = {} /\ R(q)' = {} /\ W(q)' = {}
               /\ q \in Safe => at'[q] = <<>>
               /\ sign'[q] # "new" => q \in Uses'
    <3>1. Asking(q)' = Asking(q) /\ H(q)' = H(q) /\ R(q)' = R(q) /\ W(q)' = W(q)
      BY <1>1, <1>2, LineAssumption
    <3>2. Plan(at[q])' /\ Fit(at[q], Asking(q), H(q), R(q), W(q))'
      BY <3>1 DEF TrailInv, PlanShape
    <3>3. Kinds(q, at[q])'
      BY DEF TrailInv, PlanShape, Kinds, What
    <3> QED
      BY <2>1, <3>1, <3>2, <3>3 DEF TrailInv, PlanShape, Signs
  <2> QED
    BY <2>2 DEF PlanShape
<1>5. RecordShape' /\ OwnLines' /\ MemShape'
  BY DEF TrailInv, RecordShape, OwnLines, MemShape, Onwards
<1> QED
  BY <1>3, <1>4, <1>5 DEF TrailInv

LEMMA Authenticate ==
    ASSUME SignInv, TrailInv, NEW r \in Request, Authenticates(r)
    PROVE  Signs
<1>1. sign \in [Request -> SignState]
  BY DEF SignInv, SignTypeOK
<1>2. PICK crew \in SUBSET Request : \E st :
        /\ sign' = [q \in Request |-> IF q \in crew THEN st ELSE sign[q]]
        /\ \A q \in crew : sign[q] \notin {"new", "served", "refused"}
  <2>1. ASSUME NEW st, To(r, st), sign[r] \notin {"new", "served", "refused"}
        PROVE  \E crew \in SUBSET Request : \E s :
                 /\ sign' = [q \in Request |-> IF q \in crew THEN s ELSE sign[q]]
                 /\ \A q \in crew : sign[q] \notin {"new", "served", "refused"}
    <3>1. sign' = [q \in Request |-> IF q \in {r} THEN st ELSE sign[q]]
      BY <1>1, <2>1 DEF To
    <3>2. {r} \in SUBSET Request /\ \A q \in {r} : sign[q] \notin {"new", "served", "refused"}
      BY <2>1
    <3> QED
      BY <3>1, <3>2
  <2>2. ASSUME NEW s, NEW st, Landed(r, s, st), sign[r] \notin {"new", "served", "refused"}
        PROVE  \E crew \in SUBSET Request : \E u :
                 /\ sign' = [q \in Request |-> IF q \in crew THEN u ELSE sign[q]]
                 /\ \A q \in crew : sign[q] \notin {"new", "served", "refused"}
    <3> DEFINE crew == {r} \cup {q \in Request : sign[q] = "follow"}
    <3>1. sign' = [q \in Request |-> IF q \in crew THEN st ELSE sign[q]]
      BY <2>2 DEF Landed
    <3>2. crew \in SUBSET Request /\ \A q \in crew : sign[q] \notin {"new", "served", "refused"}
      BY <2>2
    <3> HIDE DEF crew
    <3> QED
      BY <3>1, <3>2
  <2>3. CASE Boot(r)
    <3>1. sign[r] = "boot" /\ \E st : To(r, st)
      BY <2>3 DEF Boot
    <3> QED
      BY <2>1, <3>1
  <2>4. CASE Create(r)
    <3>1. sign[r] = "answer" /\ \E s, st : Landed(r, s, st)
      BY <2>4 DEF Create
    <3> QED
      BY <2>2, <3>1
  <2>5. CASE Lock(r) \/ Enter(r) \/ Verify(r)
    <3>1. sign[r] \in {"lock", "admit", "verify"} /\ \E st : To(r, st)
      BY <2>5 DEF Lock, Enter, Verify
    <3> QED
      BY <2>1, <3>1
  <2>6. CASE Land(r)
    <3> DEFINE crew == {r} \cup {q \in Request : sign[q] = "join"}
    <3>1. sign' = [q \in Request |-> IF q \in crew THEN "answer" ELSE sign[q]] /\ sign[r] = "ask"
      BY <2>6 DEF Land
    <3>2. crew \in SUBSET Request /\ \A q \in crew : sign[q] \notin {"new", "served", "refused"}
      BY <3>1
    <3> HIDE DEF crew
    <3> QED
      BY <3>1, <3>2
  <2>7. CASE Validate(r)
    <3>1. sign[r] = "answer" /\ \E st : To(r, st)
      BY <2>7 DEF Validate
    <3> QED
      BY <2>1, <3>1
  <2> QED
    BY <2>3, <2>4, <2>5, <2>6, <2>7 DEF Authenticates
<1> QED
  BY <1>1, <1>2 DEF Signs, Handled, TrailInv, PlanShape

\* A request that arrives, and one whose authentication goes on.
LEMMA ArrivesMove ==
    ASSUME SignInv, LogInv, TrailInv, NEW r \in Request, Arrives(r)
    PROVE  LogInv' /\ TrailInv'
<1>1. sign \in [Request -> SignState] /\ r \in Uses /\ sign[r] = "new"
  BY DEF SignInv, SignTypeOK, Arrives
<1>2. PICK st : To(r, st)
  BY DEF Arrives, Lookup
<1>3. UNCHANGED <<scene, at, mem, handed, twice, recorded, ran, logVars>>
  BY DEF Arrives, webVars
<1>4. Signs
  BY <1>1, <1>2 DEF Signs, To, Handled, TrailInv, PlanShape
<1>5. Onwards
  BY <1>3 DEF logVars, Onwards, Asking
<1> QED
  BY <1>3, <1>4, <1>5, OthersMove, LogStays

LEMMA ElsewhereMoves ==
    ASSUME SignInv, LogInv, TrailInv, Signs, UNCHANGED <<logVars, scene, at, mem, handed, twice, recorded, ran>>
    PROVE  LogInv' /\ TrailInv'
<1>1. Onwards
  BY DEF logVars, Onwards, Asking
<1> QED
  BY <1>1, OthersMove, LogStays

LEMMA SignStays ==
    ASSUME TrailInv, UNCHANGED sign
    PROVE  Signs
  BY DEF Signs, Handled, TrailInv, PlanShape

LEMMA HappensMoves ==
    ASSUME SignInv, LogInv, TrailInv, Happens
    PROVE  LogInv' /\ TrailInv'
<1>1. UNCHANGED <<scene, at, mem, handed, twice, recorded, ran, sign>>
  BY DEF Happens, history, signVars, SignsOut, Removed, CacheExpires
<1>2. CASE CloseStarts
  <2>1. LogInv' /\ Onwards
    BY <1>1, <1>2, LogGoesOn
  <2> QED
    BY <1>1, <2>1, OthersMove, SignStays
<1>3. CASE UNCHANGED logVars
  BY <1>1, <1>3, SignStays, ElsewhereMoves
<1> QED
  BY <1>2, <1>3 DEF Happens

LEMMA LogsMove ==
    ASSUME LogInv, TrailInv, Logs
    PROVE  LogInv' /\ TrailInv'
<1>1. UNCHANGED <<scene, at, mem, handed, twice, recorded, ran, sign>>
  BY DEF Logs, webVars, signVars
<1>2. LogInv' /\ Onwards
  BY <1>1, LogGoesOn DEF Logs
<1> QED
  BY <1>1, <1>2, OthersMove, SignStays

\* What a request has ahead of it once it is dispatched.
LEMMA Dispatched ==
    ASSUME TrailInv, NEW r \in Uses
    PROVE  /\ Serves(r, Of(r).steps, {}, {}, {}) /\ Serves(r, <<>>, {}, {}, {})
           /\ Serves(r, <<<<"deny", 0>>>>, {}, {}, {})
           /\ r \in Safe => Of(r).steps = <<>>
<1>1. What(r) \in DOMAIN dispatch /\ (r \in Safe => What(r) = "plain")
  BY SceneAssumption DEF TrailInv, Uses, What
<1>2. Fine(What(r), Of(r).steps)
  BY <1>1, Handlers DEF Of
<1>3. Serves(r, Of(r).steps, {}, {}, {})
  <2>1. Plan(Of(r).steps) /\ Fit(Of(r).steps, FALSE, {}, {}, {})
    BY <1>2, FitOfScript DEF Fine
  <2>2. Kinds(r, Of(r).steps)
    BY <1>2 DEF Fine, Apart, Kinds
  <2> QED
    BY <2>1, <2>2 DEF Serves
<1>4. Serves(r, <<>>, {}, {}, {})
  BY NothingPlanned DEF Serves, Fit, Unwritten, Permitted, Answered, Unrecorded, Past, Justified
<1>5. Serves(r, <<<<"deny", 0>>>>, {}, {}, {})
  <2> DEFINE x == <<"deny", 0>>
  <2>1. x \in Step /\ x[1] \in Final \ {"report"} /\ x[1] = "deny" /\ x[2] = 0 /\ "deny" \notin Locked \cup Working \cup {"lock"}
    BY DEF Step, Name, Denying, Final, Locked, Working
  <2>2. Plan(<<x>>) /\ Kinds(r, <<x>>)
    BY <2>1, PlanOfOne, KindsOfOne
  <2>3. DOMAIN <<x>> = {1} /\ <<x>>[1] = x /\ "deny" \in Denying
    BY DEF Denying
  <2>4. Fit(<<x>>, FALSE, {}, {}, {})
    BY <2>1, <2>3 DEF Fit, Unwritten, Permitted, Answered, Unrecorded, Past, Justified
  <2> QED
    BY <2>2, <2>4 DEF Serves
<1>6. r \in Safe => Of(r).steps = <<>>
  BY <1>1 DEF Of, dispatch, Handler
<1> QED
  BY <1>3, <1>4, <1>5, <1>6

LEMMA DispatchMoves ==
    ASSUME SignInv, LogInv, TrailInv, NEW r \in Request, Dispatch(r)
    PROVE  LogInv' /\ TrailInv'
<1>1. sign \in [Request -> SignState] /\ sign[r] \in {"in", "outside"}
  BY DEF SignInv, SignTypeOK, Dispatch
<1>2. ~Handled(r) /\ r \in Uses
  BY <1>1 DEF Handled, TrailInv, PlanShape
<1>3. at[r] = <<>> /\ H(r) = {} /\ R(r) = {} /\ W(r) = {} /\ ~Asking(r)
  BY <1>2 DEF TrailInv, PlanShape, AskShape
<1>4. PICK p : Goes(r, p) /\ Serves(r, p, {}, {}, {}) /\ (r \in Safe => p = <<>>)
  BY <1>2, Dispatched DEF Dispatch, Over
<1>5. UNCHANGED <<logVars, scene, mem, handed, twice, recorded, ran>>
  BY DEF Dispatch, world, history
<1>6. Handled(r)' /\ \A q \in Request \ {r} : sign'[q] = sign[q]
  BY <1>1 DEF Dispatch, To, Handled
<1>7. at'[r] = p /\ p \in Seq(Step) /\ at' \in [Request -> Seq(Step)] /\ \A q \in Request \ {r} : at'[q] = at[q]
  BY <1>4 DEF Goes, TrailInv, Serves, Plan
<1>8. \A q \in Request : H(q)' = H(q) /\ R(q)' = R(q) /\ W(q)' = W(q) /\ Asking(q)' = Asking(q)
  BY <1>5, SameLines DEF Asking, logVars
<1>9. LogInv'
  BY <1>5, LogStays
<1>10. AskShape'
  <2>1. call' = call /\ mem' = mem /\ handed' = handed
    BY <1>5 DEF logVars
  <2>2. \A o \in Caller \ Request : ~Asking(o)'
    BY <2>1 DEF TrailInv, AskShape, Asking
  <2>3. ASSUME NEW q \in Request, Asking(q)'
        PROVE  /\ at'[q] # <<>> /\ at'[q][1][1] \in Askers
               /\ call'[q].line = <<q, at'[q][1][2], Asked(at'[q][1][1])>>
               /\ call'[q].line \in handed'
               /\ at'[q][1][1] = "sum" => mem'[q].big
    <3>1. Asking(q) /\ q # r
      BY <1>3, <1>8, <2>3
    <3> QED
      BY <1>7, <2>1, <3>1 DEF TrailInv, AskShape
  <2> QED
    BY <2>2, <2>3 DEF AskShape
<1>11. PlanShape'
  <2>1. Uses' = Uses
    BY <1>5 DEF Uses, What
  <2>2. ASSUME NEW q \in Request
        PROVE  /\ Plan(at[q])' /\ Fit(at[q], Asking(q), H(q), R(q), W(q))' /\ Kinds(q, at[q])'
               /\ ~Handled(q)' => at'[q] = <<>> /\ H(q)' = {} /\ R(q)' = {} /\ W(q)' = {}
               /\ q \in Safe => at'[q] = <<>>
               /\ sign'[q] # "new" => q \in Uses'
    <3>1. CASE q = r
      <4>1. Plan(p) /\ Fit(p, FALSE, {}, {}, {}) /\ Kinds(r, p)
        BY <1>4 DEF Serves
      <4>2. Plan(at[r])' /\ Fit(at[r], Asking(r), H(r), R(r), W(r))'
        BY <1>3, <1>7, <1>8, <4>1 DEF Fit, Unwritten
      <4>3. Kinds(r, at[r])'
        BY <1>5, <1>7, <4>1 DEF Kinds, What
      <4> QED
        BY <1>2, <1>4, <1>6, <1>7, <2>1, <3>1, <4>2, <4>3
    <3>2. CASE q # r
      <4>1. Kinds(q, at[q])' /\ Handled(q)' = Handled(q)
        BY <1>5, <1>6, <1>7, <3>2 DEF TrailInv, PlanShape, Kinds, What, Handled
      <4>2. Plan(at[q])' /\ Fit(at[q], Asking(q), H(q), R(q), W(q))'
        BY <1>7, <1>8, <3>2 DEF TrailInv, PlanShape
      <4> QED
        BY <1>6, <1>7, <1>8, <2>1, <3>2, <4>1, <4>2 DEF TrailInv, PlanShape
    <3> QED
      BY <3>1, <3>2
  <2> QED
    BY <2>2 DEF PlanShape
<1>12. RecordShape' /\ OwnLines' /\ MemShape' /\ scene' \in Scenes
  BY <1>5 DEF TrailInv, RecordShape, OwnLines, MemShape, logVars
<1> QED
  BY <1>7, <1>9, <1>10, <1>11, <1>12 DEF TrailInv

-----------------------------------------------------------------------------
(* The theorems of the log and of the trail.                               *)

Inv == SignInv /\ LogInv /\ TrailInv

LEMMA InvBegins == Init => Inv
<1> SUFFICES ASSUME Init PROVE Inv
  OBVIOUS
<1>1. SignInv
  BY Initially DEF Init
<1>2. LogInv
  BY LogBegins DEF Init
<1>3. \A c \in Caller : ~Asking(c)
  BY DEF Init, LogInit, Quiet, Asking
<1>4. \A r \in Request : at[r] = <<>> /\ H(r) = {} /\ R(r) = {} /\ W(r) = {} /\ ~Asking(r) /\ sign[r] = "new"
  <2>1. \A r \in Request : at[r] = <<>> /\ sign[r] = "new"
    BY DEF Init, SignInit
  <2>2. \A r \in Request : H(r) = {} /\ R(r) = {} /\ W(r) = {}
    BY DEF Init, H, R, W
  <2> QED
    BY <1>3, <2>1, <2>2, LineAssumption
<1>5. Plan(<<>>) /\ Fit(<<>>, FALSE, {}, {}, {}) /\ \A r : Kinds(r, <<>>)
  BY NothingPlanned DEF Fit, Unwritten, Permitted, Answered, Unrecorded, Past, Justified
<1>6. AskShape
  BY <1>3, <1>4 DEF AskShape
<1>7. PlanShape
  <2>1. ASSUME NEW r \in Request PROVE Plan(at[r]) /\ Fit(at[r], Asking(r), H(r), R(r), W(r)) /\ Kinds(r, at[r])
    BY <1>4, <1>5 DEF Fit, Unwritten
  <2> QED
    BY <1>4, <2>1 DEF PlanShape, Handled
<1>8. OwnLines /\ RecordShape /\ MemShape
  BY DEF Init, OwnLines, RecordShape, MemShape
<1>9. scene \in Scenes /\ at \in [Request -> Seq(Step)]
  BY DEF Init
<1> QED
  BY <1>1, <1>2, <1>6, <1>7, <1>8, <1>9 DEF Inv, TrailInv

LEMMA InvKept == Inv /\ [Next]_vars => Inv'
<1> SUFFICES ASSUME Inv, [Next]_vars PROVE Inv'
  OBVIOUS
<1>1. SignInv'
  BY SignInKept DEF Inv
<1>2. LogInv' /\ TrailInv'
  <2>1. ASSUME NEW r \in Request, Arrives(r) \/ Acts(r) PROVE LogInv' /\ TrailInv'
    <3>1. CASE Authenticates(r) /\ Elsewhere
      <4>1. UNCHANGED <<logVars, scene, at, mem, handed, twice, recorded, ran>>
        BY <3>1 DEF Elsewhere, webVars
      <4> QED
        BY <3>1, <4>1, Authenticate, ElsewhereMoves DEF Inv
    <3> QED
      BY <2>1, <3>1, ArrivesMove, DispatchMoves, HandlesServes DEF Inv, Acts
  <2>2. CASE Answers /\ Elsewhere
    <3>1. UNCHANGED <<logVars, scene, at, mem, handed, twice, recorded, ran, sign>>
      BY <2>2 DEF Answers, Elsewhere, webVars
    <3> QED
      BY <3>1, SignStays, ElsewhereMoves DEF Inv
  <2>3. CASE Happens
    BY <2>3, HappensMoves DEF Inv
  <2>4. CASE Logs
    BY <2>4, LogsMove DEF Inv
  <2>5. CASE UNCHANGED vars
    <3>1. UNCHANGED <<logVars, scene, at, mem, handed, twice, recorded, ran, sign>>
      BY <2>5 DEF vars, webVars, signVars
    <3> QED
      BY <3>1, SignStays, ElsewhereMoves DEF Inv
  <2> QED
    BY <2>1, <2>2, <2>3, <2>4, <2>5, Zenon DEF Next
<1> QED
  BY <1>1, <1>2 DEF Inv

LEMMA TrailFollows == Inv => TrailIsWhole
<1> SUFFICES ASSUME Inv PROVE TrailIsWhole
  OBVIOUS
<1>1. NothingUnrecorded
  <2> SUFFICES ASSUME NEW r \in Request, NEW n \in 0 .. 2, <<r, n>> \in ran
               PROVE  <<r, n, "intent">> \in safe
    <3>1. ran \subseteq Request \X (0 .. 2)
      BY DEF Inv, TrailInv, OwnLines
    <3>2. \A x \in ran : x[1] \in Request /\ x[2] \in 0 .. 2 /\ <<x[1], x[2]>> \in ran
      BY <3>1
    <3> QED
      BY <3>2 DEF NothingUnrecorded
  <2>1. n \in W(r)
    BY DEF W
  <2>2. n \in R(r)
    BY <2>1 DEF Inv, TrailInv, PlanShape, Fit, Past
  <2>3. <<r, n>> \in recorded
    BY <2>2 DEF R
  <2> QED
    BY <2>3 DEF Inv, TrailInv, RecordShape
<1>2. ASSUME NEW r \in Request, Rests(r), NEW n \in 1 .. 2
      PROVE  <<r, n>> \in recorded <=> <<r, n, "result">> \in handed
  <2>1. at[r] = <<>> /\ DOMAIN at[r] = {}
    BY <1>2 DEF Rests
  <2>2. Answered(at[r], H(r), R(r)) /\ Justified(H(r), R(r))
    BY DEF Inv, TrailInv, PlanShape, Fit
  <2>3. n \in R(r) <=> <<n, "result">> \in H(r)
    BY <2>1, <2>2 DEF Answered, Justified
  <2> QED
    BY <2>3 DEF R, H
<1>3. EveryIntentHasItsResult
  BY <1>2 DEF EveryIntentHasItsResult, Inv, TrailInv, OwnLines
<1> QED
  BY <1>1, <1>3 DEF TrailIsWhole

(* An unsafe request of a session is served on an answer that QTS gave     *)
(* after it came, or on one asked for in the name of a session that was    *)
(* gone (authenticateSession, Verifier.Verify).                            *)
THEOREM UnsafeRequestsSignInAfresh == Spec => []FreshSignIn
<1>1. Inv => FreshSignIn
  BY Zenon DEF Inv, SignInv
<1> QED
  BY <1>1, InvBegins, InvKept, PTL DEF Spec

(* An answer of WriteSync can be acted on, and a closed log is quiet,      *)
(* whatever the requests do that write to it (AuditLog.WriteSync, Close).  *)
THEOREM TheLogKeepsItsWord == Spec => []LogKeepsItsWord
<1>1. Inv => LogKeepsItsWord
  BY LogIsHonest DEF Inv
<1> QED
  BY <1>1, InvBegins, InvKept, PTL DEF Spec

(* Nothing is done without a durable intent, and every intent has its      *)
(* result once its request or its job is over (auditIntent, finish,        *)
(* auditJobFinish, failJobSubmit, postSettings).                           *)
THEOREM TheTrailIsWhole == Spec => []TrailIsWhole
<1> QED
  BY TrailFollows, InvBegins, InvKept, PTL DEF Spec
-----------------------------------------------------------------------------
(* What any step leaves ahead: less, or one more step in a place of its    *)
(* own. A check is not passed while the switch refuses.                    *)

Could(q, p, refused) ==
    LET x == q[1][1]  n == q[1][2] IN
    \/ p = q
    \/ p = Tail(q) /\ ~(refused /\ x \in Checks)
    \/ p = <<>>
    \/ \E y \in {"deny", "dismiss", "sorry", "result"} : p = <<<<y, n>>>>
    \/ p = Sums
    \/ p = <<<<"spend", n>>>> \o Tail(q) /\ x = "confirm"
    \/ p = <<<<"rooted", 0>>>> \o Tail(q) /\ x = "root"
    \/ p = <<<<"strike", n>>>> \o SubSeq(q, 5, Len(q)) /\ x = "each"

Goings(r) ==
    /\ at[r] # <<>> /\ at[r][1][1] \notin Locked \cup {"lock"}
    /\ \E p : Goes(r, p) /\ Could(at[r], p, readOnly)
    /\ UNCHANGED <<config, readOnly, scene, bound, signVars>>
    /\ \/ ran' = ran
       \/ at[r][1][1] \in Working /\ ran' = ran \cup {<<r, N(r)>>}

LEMMA ReadOnlyRefuses ==
    ASSUME readOnly
    PROVE  /\ \A place : Check(place) = "read_only"
           /\ \A r : guardRefuses(Verdict(r)) /\ guardRefuses(recheckGuard(r))
<1>1. \A place : Check(place) = "read_only" /\ Rules(place) \in {"protected", "confirm", "ok"}
  BY DEF Check, Rules
<1>2. \A w \in {"protected", "confirm", "ok"} : worstGuard({"read_only"} \cup {w}) = "read_only"
  <2> SUFFICES ASSUME NEW w \in {"protected", "confirm", "ok"} PROVE worstGuard({"read_only"} \cup {w}) = "read_only"
    OBVIOUS
  <2> DEFINE vs == {"read_only"} \cup {w}
             rank == [read_only |-> 3, protected |-> 2, confirm |-> 1, ok |-> 0]
             Worst(v) == \A u \in vs : rank[u] <= rank[v]
  <2>1. rank["read_only"] = 3 /\ rank["protected"] = 2 /\ rank["confirm"] = 1 /\ rank["ok"] = 0
    OBVIOUS
  <2>2. "read_only" \in vs /\ Worst("read_only")
    BY <2>1
  <2>3. \A v \in vs : Worst(v) => v = "read_only"
    BY <2>1
  <2>4. worstGuard(vs) = CHOOSE v \in vs : Worst(v)
    BY DEF worstGuard
  <2> QED
    BY <2>2, <2>3, <2>4
<1>3. worstGuard({"read_only"}) = "read_only"
  BY DEF worstGuard
<1>4. \A r : Verdict(r) = "read_only"
  <2> SUFFICES ASSUME NEW r PROVE Verdict(r) = "read_only"
    OBVIOUS
  <2>1. CASE Of(r).deep
    BY <1>1, <1>2, <2>1 DEF Verdict, Contains
  <2>2. CASE ~Of(r).deep
    BY <1>1, <1>3, <2>2 DEF Verdict
  <2> QED
    BY <2>1, <2>2
<1> QED
  BY <1>1, <1>4 DEF guardRefuses, recheckGuard

LEMMA LookGoes ==
    ASSUME TrailInv, NEW r \in Request, Look(r)
    PROVE  Goings(r)
<1>1. /\ at[r] # <<>> /\ at[r][1][1] = "look"
      /\ Over(r) = Goes(r, <<>>) /\ Turns(r, "deny") = Goes(r, <<<<"deny", at[r][1][2]>>>>) /\ Onward(r) = Goes(r, Tail(at[r]))
  BY AtHead DEF Look
<1>2. "look" \notin Locked \cup {"lock"}
  BY DEF Locked, Checks
<1>3. /\ Could(at[r], <<>>, readOnly)
      /\ Could(at[r], <<<<"deny", at[r][1][2]>>>>, readOnly)
      /\ (~readOnly => Could(at[r], Tail(at[r]), readOnly))
  BY <1>1, <1>2 DEF Could
<1>4. UNCHANGED <<config, readOnly, scene, bound, ran, signVars>>
  BY DEF Look, guardVars, world, history, config
<1>5. CASE readOnly
  <2>1. \E p : Goes(r, p) /\ Could(at[r], p, readOnly)
    BY <1>1, <1>3, <1>5, ReadOnlyRefuses DEF Look, guardRefuses
  <2> QED
    BY <1>1, <1>2, <1>4, <2>1 DEF Goings
<1>6. CASE ~readOnly
  <2>1. \E p : Goes(r, p) /\ Could(at[r], p, readOnly)
    BY <1>1, <1>3, <1>6 DEF Look
  <2> QED
    BY <1>1, <1>2, <1>4, <2>1 DEF Goings
<1> QED
  BY <1>5, <1>6

LEMMA SealGoes ==
    ASSUME TrailInv, NEW r \in Request, Seal(r)
    PROVE  Goings(r)
<1>1. /\ at[r] # <<>> /\ at[r][1][1] = "seal"
      /\ Over(r) = Goes(r, <<>>) /\ Turns(r, "deny") = Goes(r, <<<<"deny", at[r][1][2]>>>>) /\ Onward(r) = Goes(r, Tail(at[r]))
  BY AtHead DEF Seal
<1>2. "seal" \notin Locked \cup {"lock"} /\ "seal" \notin Checks
  BY DEF Locked, Checks
<1>3. /\ Could(at[r], <<>>, readOnly)
      /\ Could(at[r], <<<<"deny", at[r][1][2]>>>>, readOnly)
      /\ Could(at[r], Tail(at[r]), readOnly)
  BY <1>1, <1>2 DEF Could
<1>4. UNCHANGED <<config, readOnly, scene, bound, ran, signVars>>
  BY DEF Seal, guardVars, world, history, config
<1>5. \E p : Goes(r, p) /\ Could(at[r], p, readOnly)
  BY <1>1, <1>3 DEF Seal
<1> QED
  BY <1>1, <1>2, <1>4, <1>5 DEF Goings

LEMMA ClearGoes ==
    ASSUME TrailInv, NEW r \in Request, Clear(r)
    PROVE  Goings(r)
<1>1. /\ at[r] # <<>> /\ at[r][1][1] = "clear"
      /\ Turns(r, "deny") = Goes(r, <<<<"deny", at[r][1][2]>>>>) /\ Onward(r) = Goes(r, Tail(at[r])) /\ Over(r) = Goes(r, <<>>)
  BY AtHead DEF Clear
<1>2. "clear" \notin Locked \cup {"lock"} /\ "clear" \notin Checks
  BY DEF Locked, Checks
<1>3. /\ Could(at[r], <<<<"deny", at[r][1][2]>>>>, readOnly)
      /\ Could(at[r], Tail(at[r]), readOnly)
      /\ Could(at[r], <<>>, readOnly)
  BY <1>1, <1>2 DEF Could
<1>4. UNCHANGED <<config, readOnly, scene, bound, ran, signVars>>
  BY DEF Clear, guardVars, world, history, config
<1>5. \E p : Goes(r, p) /\ Could(at[r], p, readOnly)
  BY <1>1, <1>3 DEF Clear
<1> QED
  BY <1>1, <1>2, <1>4, <1>5 DEF Goings

LEMMA DenyGoes ==
    ASSUME TrailInv, NEW r \in Request, Deny(r)
    PROVE  Goings(r)
<1>1. /\ at[r] # <<>> /\ at[r][1][1] = "deny"
      /\ Over(r) = Goes(r, <<>>)
  BY AtHead DEF Deny
<1>2. "deny" \notin Locked \cup {"lock"} /\ "deny" \notin Checks
  BY DEF Locked, Checks
<1>3. /\ Could(at[r], at[r], readOnly)
      /\ Could(at[r], <<>>, readOnly)
      /\ (UNCHANGED at => Goes(r, at[r]))
  BY <1>1, <1>2 DEF Could, Goes, TrailInv
<1>4. UNCHANGED <<config, readOnly, scene, bound, ran, signVars>>
  BY DEF Deny, guardVars, world, history, config, Asks
<1>5. \E p : Goes(r, p) /\ Could(at[r], p, readOnly)
  BY <1>1, <1>3 DEF Deny, Asks
<1> QED
  BY <1>1, <1>2, <1>4, <1>5 DEF Goings

LEMMA ConfirmGoes ==
    ASSUME TrailInv, NEW r \in Request, Confirm(r)
    PROVE  Goings(r)
<1>1. /\ at[r] # <<>> /\ at[r][1][1] = "confirm" /\ N(r) = at[r][1][2]
      /\ Onward(r) = Goes(r, Tail(at[r])) /\ Over(r) = Goes(r, <<>>) /\ Turns(r, "dismiss") = Goes(r, <<<<"dismiss", at[r][1][2]>>>>)
  BY AtHead DEF Confirm
<1>2. "confirm" \notin Locked \cup {"lock"} /\ "confirm" \notin Checks
  BY DEF Locked, Checks
<1>3. /\ Could(at[r], Tail(at[r]), readOnly)
      /\ Could(at[r], <<>>, readOnly)
      /\ Could(at[r], <<<<"spend", at[r][1][2]>>>> \o Tail(at[r]), readOnly)
      /\ Could(at[r], <<<<"dismiss", at[r][1][2]>>>>, readOnly)
  BY <1>1, <1>2 DEF Could
<1>4. UNCHANGED <<config, readOnly, scene, bound, ran, signVars>>
  BY DEF Confirm, guardVars, world, history, config, Issue
<1>5. \E p : Goes(r, p) /\ Could(at[r], p, readOnly)
  BY <1>1, <1>3 DEF Confirm
<1> QED
  BY <1>1, <1>2, <1>4, <1>5 DEF Goings

LEMMA SpendsGoes ==
    ASSUME TrailInv, NEW r \in Request, Spends(r)
    PROVE  Goings(r)
<1>1. /\ at[r] # <<>> /\ at[r][1][1] = "spend"
      /\ Onward(r) = Goes(r, Tail(at[r])) /\ Turns(r, "dismiss") = Goes(r, <<<<"dismiss", at[r][1][2]>>>>)
  BY AtHead DEF Spends
<1>2. "spend" \notin Locked \cup {"lock"} /\ "spend" \notin Checks
  BY DEF Locked, Checks
<1>3. /\ Could(at[r], Tail(at[r]), readOnly)
      /\ Could(at[r], <<<<"dismiss", at[r][1][2]>>>>, readOnly)
  BY <1>1, <1>2 DEF Could
<1>4. UNCHANGED <<config, readOnly, scene, bound, ran, signVars>>
  BY DEF Spends, guardVars, world, history, config, Redeem, Spent
<1>5. \E p : Goes(r, p) /\ Could(at[r], p, readOnly)
  BY <1>1, <1>3 DEF Spends
<1> QED
  BY <1>1, <1>2, <1>4, <1>5 DEF Goings

LEMMA TurnsAwayGoes ==
    ASSUME TrailInv, NEW r \in Request, TurnsAway(r)
    PROVE  Goings(r)
<1>1. /\ at[r] # <<>> /\ at[r][1][1] = "dismiss"
      /\ Over(r) = Goes(r, <<>>)
  BY AtHead DEF TurnsAway
<1>2. "dismiss" \notin Locked \cup {"lock"} /\ "dismiss" \notin Checks
  BY DEF Locked, Checks
<1>3. /\ Could(at[r], at[r], readOnly)
      /\ Could(at[r], <<>>, readOnly)
      /\ (UNCHANGED at => Goes(r, at[r]))
  BY <1>1, <1>2 DEF Could, Goes, TrailInv
<1>4. UNCHANGED <<config, readOnly, scene, bound, ran, signVars>>
  BY DEF TurnsAway, guardVars, world, history, config, Asks, Issue
<1>5. \E p : Goes(r, p) /\ Could(at[r], p, readOnly)
  BY <1>1, <1>3 DEF TurnsAway, Asks
<1> QED
  BY <1>1, <1>2, <1>4, <1>5 DEF Goings

LEMMA RecordGoes ==
    ASSUME TrailInv, NEW r \in Request, Record(r)
    PROVE  Goings(r)
<1>1. /\ at[r] # <<>> /\ at[r][1][1] = "record"
      /\ Onward(r) = Goes(r, Tail(at[r])) /\ Over(r) = Goes(r, <<>>)
  BY AtHead DEF Record
<1>2. "record" \notin Locked \cup {"lock"} /\ "record" \notin Checks
  BY DEF Locked, Checks
<1>3. /\ Could(at[r], at[r], readOnly)
      /\ Could(at[r], Tail(at[r]), readOnly)
      /\ Could(at[r], <<>>, readOnly)
      /\ (UNCHANGED at => Goes(r, at[r]))
  BY <1>1, <1>2 DEF Could, Goes, TrailInv
<1>4. UNCHANGED <<config, readOnly, scene, bound, ran, signVars>>
  BY DEF Record, guardVars, world, history, config, Asks
<1>5. \E p : Goes(r, p) /\ Could(at[r], p, readOnly)
  BY <1>1, <1>3 DEF Record, Asks
<1> QED
  BY <1>1, <1>2, <1>4, <1>5 DEF Goings

LEMMA ResultGoes ==
    ASSUME TrailInv, NEW r \in Request, Result(r)
    PROVE  Goings(r)
<1>1. /\ at[r] # <<>> /\ at[r][1][1] = "result"
      /\ Over(r) = Goes(r, <<>>)
  BY AtHead DEF Result
<1>2. "result" \notin Locked \cup {"lock"} /\ "result" \notin Checks
  BY DEF Locked, Checks
<1>3. /\ Could(at[r], at[r], readOnly)
      /\ Could(at[r], <<>>, readOnly)
      /\ (UNCHANGED at => Goes(r, at[r]))
  BY <1>1, <1>2 DEF Could, Goes, TrailInv
<1>4. UNCHANGED <<config, readOnly, scene, bound, ran, signVars>>
  BY DEF Result, guardVars, world, history, config, Asks
<1>5. \E p : Goes(r, p) /\ Could(at[r], p, readOnly)
  BY <1>1, <1>3 DEF Result, Asks
<1> QED
  BY <1>1, <1>2, <1>4, <1>5 DEF Goings

LEMMA EachGoes ==
    ASSUME TrailInv, NEW r \in Request, Each(r)
    PROVE  Goings(r)
<1>1. /\ at[r] # <<>> /\ at[r][1][1] = "each" /\ N(r) = at[r][1][2]
      /\ Onward(r) = Goes(r, Tail(at[r]))
  BY AtHead DEF Each
<1>2. "each" \notin Locked \cup {"lock"}
  BY DEF Locked, Checks
<1>3. /\ Could(at[r], Sums, readOnly)
      /\ Could(at[r], <<<<"strike", at[r][1][2]>>>> \o SubSeq(at[r], 5, Len(at[r])), readOnly)
      /\ (~readOnly => Could(at[r], Tail(at[r]), readOnly))
  BY <1>1, <1>2 DEF Could
<1>4. UNCHANGED <<config, readOnly, scene, bound, ran, signVars>>
  BY DEF Each, guardVars, world, history, config
<1>5. CASE readOnly
  <2>1. \E p : Goes(r, p) /\ Could(at[r], p, readOnly)
    BY <1>1, <1>3, <1>5, ReadOnlyRefuses DEF Each, guardRefuses, Rest
  <2> QED
    BY <1>1, <1>2, <1>4, <2>1 DEF Goings
<1>6. CASE ~readOnly
  <2>1. \E p : Goes(r, p) /\ Could(at[r], p, readOnly)
    BY <1>1, <1>3, <1>6 DEF Each, Rest
  <2> QED
    BY <1>1, <1>2, <1>4, <2>1 DEF Goings
<1> QED
  BY <1>5, <1>6

LEMMA StrikeGoes ==
    ASSUME TrailInv, NEW r \in Request, Strike(r)
    PROVE  Goings(r)
<1>1. /\ at[r] # <<>> /\ at[r][1][1] = "strike"
      /\ Onward(r) = Goes(r, Tail(at[r]))
  BY AtHead DEF Strike
<1>2. "strike" \notin Locked \cup {"lock"} /\ "strike" \notin Checks
  BY DEF Locked, Checks
<1>3. /\ Could(at[r], at[r], readOnly)
      /\ Could(at[r], Tail(at[r]), readOnly)
      /\ (UNCHANGED at => Goes(r, at[r]))
  BY <1>1, <1>2 DEF Could, Goes, TrailInv
<1>4. UNCHANGED <<config, readOnly, scene, bound, ran, signVars>>
  BY DEF Strike, guardVars, world, history, config, Asks
<1>5. \E p : Goes(r, p) /\ Could(at[r], p, readOnly)
  BY <1>1, <1>3 DEF Strike, Asks
<1> QED
  BY <1>1, <1>2, <1>4, <1>5 DEF Goings

LEMMA EntryGoes ==
    ASSUME TrailInv, NEW r \in Request, Entry(r)
    PROVE  Goings(r)
<1>1. /\ at[r] # <<>> /\ at[r][1][1] = "entry"
      /\ Onward(r) = Goes(r, Tail(at[r]))
  BY AtHead DEF Entry
<1>2. "entry" \notin Locked \cup {"lock"} /\ "entry" \notin Checks
  BY DEF Locked, Checks
<1>3. /\ Could(at[r], at[r], readOnly)
      /\ Could(at[r], Tail(at[r]), readOnly)
      /\ Could(at[r], Sums, readOnly)
      /\ (UNCHANGED at => Goes(r, at[r]))
  BY <1>1, <1>2 DEF Could, Goes, TrailInv
<1>4. UNCHANGED <<config, readOnly, scene, bound, ran, signVars>>
  BY DEF Entry, guardVars, world, history, config, Asks
<1>5. \E p : Goes(r, p) /\ Could(at[r], p, readOnly)
  BY <1>1, <1>3 DEF Entry, Asks
<1> QED
  BY <1>1, <1>2, <1>4, <1>5 DEF Goings

LEMMA NoteGoes ==
    ASSUME TrailInv, NEW r \in Request, Note(r)
    PROVE  Goings(r)
<1>1. /\ at[r] # <<>> /\ at[r][1][1] = "note"
      /\ Onward(r) = Goes(r, Tail(at[r]))
  BY AtHead DEF Note
<1>2. "note" \notin Locked \cup {"lock"} /\ "note" \notin Checks
  BY DEF Locked, Checks
<1>3. /\ Could(at[r], Tail(at[r]), readOnly)
  BY <1>1, <1>2 DEF Could
<1>4. UNCHANGED <<config, readOnly, scene, bound, ran, signVars>>
  BY DEF Note, guardVars, world, history, config
<1>5. \E p : Goes(r, p) /\ Could(at[r], p, readOnly)
  BY <1>1, <1>3 DEF Note
<1> QED
  BY <1>1, <1>2, <1>4, <1>5 DEF Goings

LEMMA SumGoes ==
    ASSUME TrailInv, NEW r \in Request, Sum(r)
    PROVE  Goings(r)
<1>1. /\ at[r] # <<>> /\ at[r][1][1] = "sum"
      /\ Over(r) = Goes(r, <<>>)
  BY AtHead DEF Sum
<1>2. "sum" \notin Locked \cup {"lock"} /\ "sum" \notin Checks
  BY DEF Locked, Checks
<1>3. /\ Could(at[r], at[r], readOnly)
      /\ Could(at[r], <<>>, readOnly)
      /\ (UNCHANGED at => Goes(r, at[r]))
  BY <1>1, <1>2 DEF Could, Goes, TrailInv
<1>4. UNCHANGED <<config, readOnly, scene, bound, ran, signVars>>
  BY DEF Sum, guardVars, world, history, config, Asks
<1>5. \E p : Goes(r, p) /\ Could(at[r], p, readOnly)
  BY <1>1, <1>3 DEF Sum, Asks
<1> QED
  BY <1>1, <1>2, <1>4, <1>5 DEF Goings

LEMMA SlotGoes ==
    ASSUME TrailInv, NEW r \in Request, Slot(r)
    PROVE  Goings(r)
<1>1. /\ at[r] # <<>> /\ at[r][1][1] = "slot"
      /\ Onward(r) = Goes(r, Tail(at[r])) /\ Over(r) = Goes(r, <<>>)
  BY AtHead DEF Slot
<1>2. "slot" \notin Locked \cup {"lock"} /\ "slot" \notin Checks
  BY DEF Locked, Checks
<1>3. /\ Could(at[r], Tail(at[r]), readOnly)
      /\ Could(at[r], <<>>, readOnly)
  BY <1>1, <1>2 DEF Could
<1>4. UNCHANGED <<config, readOnly, scene, bound, ran, signVars>>
  BY DEF Slot, guardVars, world, history, config
<1>5. \E p : Goes(r, p) /\ Could(at[r], p, readOnly)
  BY <1>1, <1>3 DEF Slot
<1> QED
  BY <1>1, <1>2, <1>4, <1>5 DEF Goings

LEMMA BindGoes ==
    ASSUME TrailInv, NEW r \in Request, Bind(r)
    PROVE  Goings(r)
<1>1. /\ at[r] # <<>> /\ at[r][1][1] = "bind"
      /\ Onward(r) = Goes(r, Tail(at[r])) /\ Over(r) = Goes(r, <<>>)
  BY AtHead DEF Bind
<1>2. "bind" \notin Locked \cup {"lock"} /\ "bind" \notin Checks
  BY DEF Locked, Checks
<1>3. /\ Could(at[r], Tail(at[r]), readOnly)
      /\ Could(at[r], <<>>, readOnly)
  BY <1>1, <1>2 DEF Could
<1>4. UNCHANGED <<config, readOnly, scene, bound, ran, signVars>>
  BY DEF Bind, guardVars, world, history, config
<1>5. \E p : Goes(r, p) /\ Could(at[r], p, readOnly)
  BY <1>1, <1>3 DEF Bind
<1> QED
  BY <1>1, <1>2, <1>4, <1>5 DEF Goings

LEMMA BodyGoes ==
    ASSUME TrailInv, NEW r \in Request, Body(r)
    PROVE  Goings(r)
<1>1. /\ at[r] # <<>> /\ at[r][1][1] = "body"
      /\ Onward(r) = Goes(r, Tail(at[r])) /\ Turns(r, "result") = Goes(r, <<<<"result", at[r][1][2]>>>>)
  BY AtHead DEF Body
<1>2. "body" \notin Locked \cup {"lock"} /\ "body" \notin Checks
  BY DEF Locked, Checks
<1>3. /\ Could(at[r], Tail(at[r]), readOnly)
      /\ Could(at[r], <<<<"result", at[r][1][2]>>>>, readOnly)
  BY <1>1, <1>2 DEF Could
<1>4. UNCHANGED <<config, readOnly, scene, bound, ran, signVars>>
  BY DEF Body, guardVars, world, history, config
<1>5. \E p : Goes(r, p) /\ Could(at[r], p, readOnly)
  BY <1>1, <1>3 DEF Body
<1> QED
  BY <1>1, <1>2, <1>4, <1>5 DEF Goings

LEMMA FinalizeGoes ==
    ASSUME TrailInv, NEW r \in Request, Finalize(r)
    PROVE  Goings(r)
<1>1. /\ at[r] # <<>> /\ at[r][1][1] = "land"
      /\ Onward(r) = Goes(r, Tail(at[r]))
  BY AtHead DEF Finalize
<1>2. "land" \notin Locked \cup {"lock"} /\ "land" \notin Checks
  BY DEF Locked, Checks
<1>3. /\ Could(at[r], Tail(at[r]), readOnly)
  BY <1>1, <1>2 DEF Could
<1>4. UNCHANGED <<config, readOnly, scene, bound, ran, signVars>>
  BY DEF Finalize, guardVars, world, history, config
<1>5. \E p : Goes(r, p) /\ Could(at[r], p, readOnly)
  BY <1>1, <1>3 DEF Finalize
<1> QED
  BY <1>1, <1>2, <1>4, <1>5 DEF Goings

LEMMA RootGoes ==
    ASSUME TrailInv, NEW r \in Request, Root(r)
    PROVE  Goings(r)
<1>1. /\ at[r] # <<>> /\ at[r][1][1] = "root"
      /\ Onward(r) = Goes(r, Tail(at[r])) /\ Over(r) = Goes(r, <<>>)
  BY AtHead DEF Root
<1>2. "root" \notin Locked \cup {"lock"} /\ "root" \notin Checks
  BY DEF Locked, Checks
<1>3. /\ Could(at[r], Tail(at[r]), readOnly)
      /\ Could(at[r], <<>>, readOnly)
      /\ Could(at[r], <<<<"rooted", 0>>>> \o Tail(at[r]), readOnly)
  BY <1>1, <1>2 DEF Could
<1>4. UNCHANGED <<config, readOnly, scene, bound, ran, signVars>>
  BY DEF Root, guardVars, world, history, config
<1>5. \E p : Goes(r, p) /\ Could(at[r], p, readOnly)
  BY <1>1, <1>3 DEF Root
<1> QED
  BY <1>1, <1>2, <1>4, <1>5 DEF Goings

LEMMA RootedGoes ==
    ASSUME TrailInv, NEW r \in Request, Rooted(r)
    PROVE  Goings(r)
<1>1. /\ at[r] # <<>> /\ at[r][1][1] = "rooted"
      /\ Onward(r) = Goes(r, Tail(at[r])) /\ Over(r) = Goes(r, <<>>)
  BY AtHead DEF Rooted
<1>2. "rooted" \notin Locked \cup {"lock"} /\ "rooted" \notin Checks
  BY DEF Locked, Checks
<1>3. /\ Could(at[r], at[r], readOnly)
      /\ Could(at[r], Tail(at[r]), readOnly)
      /\ Could(at[r], <<>>, readOnly)
      /\ (UNCHANGED at => Goes(r, at[r]))
  BY <1>1, <1>2 DEF Could, Goes, TrailInv
<1>4. UNCHANGED <<config, readOnly, scene, bound, ran, signVars>>
  BY DEF Rooted, guardVars, world, history, config, Asks
<1>5. \E p : Goes(r, p) /\ Could(at[r], p, readOnly)
  BY <1>1, <1>3 DEF Rooted, Asks
<1> QED
  BY <1>1, <1>2, <1>4, <1>5 DEF Goings

LEMMA SubmitGoes ==
    ASSUME TrailInv, NEW r \in Request, Submit(r)
    PROVE  Goings(r)
<1>1. /\ at[r] # <<>> /\ at[r][1][1] = "submit"
      /\ Onward(r) = Goes(r, Tail(at[r])) /\ Turns(r, "sorry") = Goes(r, <<<<"sorry", at[r][1][2]>>>>)
  BY AtHead DEF Submit
<1>2. "submit" \notin Locked \cup {"lock"} /\ "submit" \notin Checks
  BY DEF Locked, Checks
<1>3. /\ Could(at[r], Tail(at[r]), readOnly)
      /\ Could(at[r], <<<<"sorry", at[r][1][2]>>>>, readOnly)
  BY <1>1, <1>2 DEF Could
<1>4. UNCHANGED <<config, readOnly, scene, bound, ran, signVars>>
  BY DEF Submit, guardVars, world, history, config
<1>5. \E p : Goes(r, p) /\ Could(at[r], p, readOnly)
  BY <1>1, <1>3 DEF Submit
<1> QED
  BY <1>1, <1>2, <1>4, <1>5 DEF Goings

LEMMA SorryGoes ==
    ASSUME TrailInv, NEW r \in Request, Sorry(r)
    PROVE  Goings(r)
<1>1. /\ at[r] # <<>> /\ at[r][1][1] = "sorry"
      /\ Over(r) = Goes(r, <<>>)
  BY AtHead DEF Sorry
<1>2. "sorry" \notin Locked \cup {"lock"} /\ "sorry" \notin Checks
  BY DEF Locked, Checks
<1>3. /\ Could(at[r], <<>>, readOnly)
  BY <1>1, <1>2 DEF Could
<1>4. UNCHANGED <<config, readOnly, scene, bound, ran, signVars>>
  BY DEF Sorry, guardVars, world, history, config
<1>5. \E p : Goes(r, p) /\ Could(at[r], p, readOnly)
  BY <1>1, <1>3 DEF Sorry
<1> QED
  BY <1>1, <1>2, <1>4, <1>5 DEF Goings

LEMMA StartGoes ==
    ASSUME TrailInv, NEW r \in Request, Start(r)
    PROVE  Goings(r)
<1>1. /\ at[r] # <<>> /\ at[r][1][1] = "start"
      /\ Turns(r, "result") = Goes(r, <<<<"result", at[r][1][2]>>>>) /\ Onward(r) = Goes(r, Tail(at[r]))
  BY AtHead DEF Start
<1>2. "start" \notin Locked \cup {"lock"}
  BY DEF Locked, Checks
<1>3. /\ Could(at[r], <<<<"result", at[r][1][2]>>>>, readOnly)
      /\ (~readOnly => Could(at[r], Tail(at[r]), readOnly))
  BY <1>1, <1>2 DEF Could
<1>4. UNCHANGED <<config, readOnly, scene, bound, ran, signVars>>
  BY DEF Start, guardVars, world, history, config
<1>5. CASE readOnly
  <2>1. \E p : Goes(r, p) /\ Could(at[r], p, readOnly)
    BY <1>1, <1>3, <1>5, ReadOnlyRefuses DEF Start, guardRefuses
  <2> QED
    BY <1>1, <1>2, <1>4, <2>1 DEF Goings
<1>6. CASE ~readOnly
  <2>1. \E p : Goes(r, p) /\ Could(at[r], p, readOnly)
    BY <1>1, <1>3, <1>6 DEF Start
  <2> QED
    BY <1>1, <1>2, <1>4, <2>1 DEF Goings
<1> QED
  BY <1>5, <1>6

LEMMA CallGoes ==
    ASSUME TrailInv, NEW r \in Request, Call(r)
    PROVE  Goings(r)
<1>1. at[r] # <<>> /\ at[r][1][1] \in {"call", "run"} /\ (Onward(r) = Goes(r, Tail(at[r])))
  BY AtHead DEF Call
<1>2. at[r][1][1] \notin Locked \cup {"lock"} \cup Checks /\ at[r][1][1] \in Working
  BY <1>1 DEF Locked, Checks, Working
<1>3. Could(at[r], Tail(at[r]), readOnly) /\ Could(at[r], <<<<"result", at[r][1][2]>>>>, readOnly)
  BY <1>1, <1>2 DEF Could
<1>4. UNCHANGED <<config, readOnly, scene, bound, signVars>>
  BY DEF Call, guardVars, config
<1>5. \E p : Goes(r, p) /\ Could(at[r], p, readOnly)
  BY <1>1, <1>3 DEF Call
<1>6. ran' = ran \/ ran' = ran \cup {<<r, N(r)>>}
  BY DEF Call, Works, NotDone
<1> QED
  BY <1>1, <1>2, <1>4, <1>5, <1>6 DEF Goings

LEMMA OpenGoes ==
    ASSUME TrailInv, NEW r \in Request, Open(r)
    PROVE  Goings(r)
<1>1. at[r] # <<>> /\ at[r][1][1] = "open" /\ (Onward(r) = Goes(r, Tail(at[r]))) /\ (Turns(r, "result") = Goes(r, <<<<"result", at[r][1][2]>>>>))
  BY AtHead DEF Open
<1>2. at[r][1][1] \notin Locked \cup {"lock"} \cup Checks /\ at[r][1][1] \in Working
  BY <1>1 DEF Locked, Checks, Working
<1>3. Could(at[r], Tail(at[r]), readOnly) /\ Could(at[r], <<<<"result", at[r][1][2]>>>>, readOnly)
  BY <1>1, <1>2 DEF Could
<1>4. UNCHANGED <<config, readOnly, scene, bound, signVars>>
  BY DEF Open, guardVars, config
<1>5. \E p : Goes(r, p) /\ Could(at[r], p, readOnly)
  BY <1>1, <1>3 DEF Open
<1>6. ran' = ran \/ ran' = ran \cup {<<r, N(r)>>}
  BY DEF Open, Works, NotDone
<1> QED
  BY <1>1, <1>2, <1>4, <1>5, <1>6 DEF Goings

LEMMA HandlesGoes ==
    ASSUME TrailInv, NEW r \in Request, Handles(r)
    PROVE  \/ Goings(r)
           \/ Locks(r) \/ Intends(r) \/ Saves(r) \/ Failed(r) \/ Applies(r) \/ Reports(r) \/ Undoes(r)
<1>1. CASE Look(r) \/ Seal(r) \/ Clear(r) \/ Deny(r) \/ Confirm(r) \/ Spends(r) \/ TurnsAway(r)
  BY <1>1, LookGoes, SealGoes, ClearGoes, DenyGoes, ConfirmGoes, SpendsGoes, TurnsAwayGoes
<1>2. CASE Record(r) \/ Call(r) \/ Result(r) \/ Each(r) \/ Strike(r) \/ Entry(r) \/ Note(r) \/ Sum(r)
  BY <1>2, RecordGoes, CallGoes, ResultGoes, EachGoes, StrikeGoes, EntryGoes, NoteGoes, SumGoes
<1>3. CASE Slot(r) \/ Bind(r) \/ Open(r) \/ Body(r) \/ Finalize(r) \/ Root(r) \/ Rooted(r) \/ Submit(r) \/ Sorry(r) \/ Start(r)
  BY <1>3, SlotGoes, BindGoes, OpenGoes, BodyGoes, FinalizeGoes, RootGoes, RootedGoes, SubmitGoes, SorryGoes, StartGoes
<1> QED
  BY <1>1, <1>2, <1>3 DEF Handles

-----------------------------------------------------------------------------
(* Why the guard obeys the file.                                           *)

\* What stands at the head of what is left.
LEMMA HeadOfTail ==
    ASSUME NEW q, Plan(q), q # <<>>
    PROVE  /\ Tail(q) # <<>> => 2 \in DOMAIN q /\ Tail(q)[1] = q[2]
           /\ 2 \in DOMAIN q => Tail(q) # <<>>
<1>1. Follows(Tail(q), q, 1) /\ Len(q) \in Nat \ {0} /\ DOMAIN q = 1 .. Len(q)
  BY Shape
<1>2. Tail(q) \in Seq(Step) /\ Len(Tail(q)) = Len(q) - 1 /\ \A i \in 1 .. Len(Tail(q)) : Tail(q)[i] = q[i + 1]
  BY <1>1 DEF Follows
<1>3. Tail(q) # <<>> <=> Len(q) - 1 # 0
  <2>1. \A t \in Seq(Step) : t # <<>> <=> Len(t) # 0
    BY EmptySeq
  <2> QED
    BY <1>2, <2>1
<1>4. 2 \in DOMAIN q <=> Len(q) - 1 # 0
  BY <1>1
<1>5. Len(q) - 1 # 0 => Tail(q)[1] = q[1 + 1]
  BY <1>1, <1>2
<1> QED
  BY <1>3, <1>4, <1>5

LEMMA NotUnderLock ==
    ASSUME NEW q, NEW p, NEW refused, Plan(q), q # <<>>, q[1][1] \notin Locked \cup {"lock"},
           Could(q, p, refused), p # <<>>
    PROVE  p[1][1] \notin Locked
<1>1. Through \subseteq Locked \cup {"lock"}
  BY DEF Through, Locked
<1>2. CASE p = q
  BY <1>2
<1>3. CASE p = Tail(q)
  <2>1. 1 \in DOMAIN q /\ 1 + 1 \in DOMAIN q /\ p[1] = q[1 + 1]
    BY <1>3, HeadOfTail, Shape
  <2>2. UnderLock(q)
    BY DEF Plan
  <2>3. q[1 + 1][1] \in Locked => q[1][1] \in Through
    BY <2>1, <2>2 DEF UnderLock
  <2> QED
    BY <1>1, <2>1, <2>3
<1>4. CASE \/ \E y \in {"deny", "dismiss", "sorry", "result"} : p = <<<<y, q[1][2]>>>>
           \/ p = Sums
  BY <1>4 DEF Sums, Locked
<1>5. CASE \/ p = <<<<"spend", q[1][2]>>>> \o Tail(q) /\ q[1][1] = "confirm"
           \/ p = <<<<"rooted", 0>>>> \o Tail(q) /\ q[1][1] = "root"
           \/ p = <<<<"strike", q[1][2]>>>> \o SubSeq(q, 5, Len(q)) /\ q[1][1] = "each"
  <2>1. \E y \in {"spend", "rooted", "strike"} : \E n : p[1] = <<y, n>>
    BY <1>5, PlanOfSpend, PlanOfRooted, PlanOfStrike DEF Puts
  <2> QED
    BY <2>1 DEF Locked
<1> QED
  BY <1>2, <1>3, <1>4, <1>5 DEF Could

\* Who has the lock moves, or who does not.
LEMMA HolderMoves ==
    ASSUME TrailInv, LockShape, NEW r \in Request, NEW p, Goes(r, p), UNCHANGED scene,
           cfgMu \in {r, None}, cfgMu' \in {r, None},
           cfgMu' = r <=> p # <<>> /\ p[1][1] \in Locked,
           cfgMu' = None => Match',
           cfgMu' = r => IF p[1][1] = "apply" THEN stored' = scene.want[r] ELSE Match'
    PROVE  LockShape'
<1>1. at'[r] = p /\ \A q \in Request \ {r} : at'[q] = at[q]
  BY DEF Goes, TrailInv
<1> QED
  BY <1>1, RequestAssumption DEF LockShape

LEMMA OtherMoves ==
    ASSUME TrailInv, LockShape, NEW r \in Request, NEW p, Goes(r, p), UNCHANGED <<config, readOnly, scene>>,
           cfgMu # r, p # <<>> => p[1][1] \notin Locked
    PROVE  LockShape'
<1>1. at'[r] = p /\ \A q \in Request \ {r} : at'[q] = at[q]
  BY DEF Goes, TrailInv
<1>2. Match' = Match /\ cfgMu' = cfgMu /\ stored' = stored /\ scene' = scene
  BY DEF Match, config
<1>3. cfgMu' \in Request \cup {None} /\ (cfgMu' = None => Match')
  BY <1>2 DEF LockShape
<1>4. ASSUME NEW q \in Request
      PROVE  /\ cfgMu' = q <=> at'[q] # <<>> /\ at'[q][1][1] \in Locked
             /\ cfgMu' = q => IF at'[q][1][1] = "apply" THEN stored' = scene'.want[q] ELSE Match'
  BY <1>1, <1>2 DEF LockShape
<1> QED
  BY <1>3, <1>4 DEF LockShape

LEMMA NobodyMoves ==
    LockShape /\ UNCHANGED <<config, readOnly, scene, at>> => LockShape'
  BY DEF LockShape, Match, config

\* A throw of the switch, by whoever has the lock.
LEMMA Reconciles ==
    ASSUME NEW v, reconcileReadOnly(v, FALSE)
    PROVE  Match'
  BY DEF reconcileReadOnly, Sets, SetReadOnly, Match

\* Under the lock every step has a successor.
LEMMA NextUnderLock ==
    ASSUME NEW q, Plan(q), q # <<>>, q[1][1] \in Through
    PROVE  Tail(q) # <<>> /\ Tail(q)[1][1] = Successor(q[1][1])
<1>1. 1 \in DOMAIN q /\ UnderLock(q)
  BY Shape DEF Plan
<1>2. 1 + 1 \in DOMAIN q /\ q[1 + 1][1] = Successor(q[1][1])
  BY <1>1 DEF UnderLock
<1> QED
  BY <1>2, HeadOfTail

LEMMA Holds ==
    ASSUME TrailInv, LockShape, NEW r \in Request, NEW x \in Locked, At(r, x)
    PROVE  cfgMu = r /\ (x # "apply" => Match) /\ (x = "apply" => stored = scene.want[r]) /\ Plan(at[r])
<1>1. at[r] # <<>> /\ at[r][1][1] = x
  BY AtHead
<1> QED
  BY <1>1 DEF LockShape, TrailInv, PlanShape

LEMMA UnderTheLock ==
    ASSUME TrailInv, LockShape, NEW r \in Request,
           Locks(r) \/ Intends(r) \/ Saves(r) \/ Failed(r) \/ Applies(r) \/ Reports(r) \/ Undoes(r)
    PROVE  LockShape'
<1> USE RequestAssumption
<1>1. \A ph : Asks(r, ph) => LockShape'
  BY NobodyMoves DEF Asks, guardVars, world
<1>2. Locked = {"intent", "save", "apply", "report", "failed", "undo"}
  BY DEF Locked
<1>3. CASE Locks(r)
  <2>1. at[r] # <<>> /\ at[r][1][1] = "lock" /\ Goes(r, Tail(at[r])) /\ Plan(at[r])
    BY <1>3, AtHead DEF Locks, TrailInv, PlanShape
  <2>2. Tail(at[r]) # <<>> /\ Tail(at[r])[1][1] = "intent"
    BY <2>1, NextUnderLock DEF Through, Successor
  <2>3. cfgMu = None /\ cfgMu' = r /\ UNCHANGED <<scene, stored, blind, readOnly>>
    BY <1>3 DEF Locks, world, guardVars
  <2>4. Match'
    BY <2>3 DEF LockShape, Match
  <2> QED
    BY <1>2, <2>1, <2>2, <2>3, <2>4, HolderMoves
<1>4. CASE Intends(r) /\ UNCHANGED <<stored, blind, readOnly, scene>> /\ Told(r)
  <2>1. at[r] # <<>> /\ at[r][1][1] = "intent" /\ (Onward(r) = Goes(r, Tail(at[r]))) /\ (Over(r) = Goes(r, <<>>))
    BY <1>4, AtHead DEF Intends
  <2>2. cfgMu = r /\ Match /\ Plan(at[r])
    BY <1>2, <1>4, Holds DEF Intends
  <2>3. Tail(at[r]) # <<>> /\ Tail(at[r])[1][1] = "save"
    BY <2>1, <2>2, NextUnderLock DEF Through, Successor
  <2>4. Match'
    BY <1>4, <2>2 DEF Match
  <2>5. CASE Asks(r, "intent")
    BY <1>1, <2>5
  <2>6. CASE Goes(r, Tail(at[r])) /\ cfgMu' = cfgMu
    BY <1>2, <1>4, <2>2, <2>3, <2>4, <2>6, HolderMoves
  <2>7. CASE Goes(r, <<>>) /\ cfgMu' = None
    BY <1>2, <1>4, <2>2, <2>4, <2>7, HolderMoves
  <2> QED
    BY <1>4, <2>1, <2>5, <2>6, <2>7 DEF Intends
<1>5. CASE Saves(r)
  <2>1. /\ at[r] # <<>> /\ at[r][1][1] = "save" /\ (Onward(r) = Goes(r, Tail(at[r])))
        /\ (Turns(r, "failed") = Goes(r, <<<<"failed", at[r][1][2]>>>>))
    BY <1>5, AtHead DEF Saves
  <2>2. cfgMu = r /\ Match /\ Plan(at[r]) /\ UNCHANGED <<cfgMu, scene>>
    BY <1>2, <1>5, Holds DEF Saves
  <2>3. Tail(at[r]) # <<>> /\ Tail(at[r])[1][1] = "apply"
    BY <2>1, <2>2, NextUnderLock DEF Through, Successor
  <2>4. CASE stored' = scene.want[r] /\ Onward(r)
    BY <1>2, <2>1, <2>2, <2>3, <2>4, HolderMoves
  <2>5. CASE reconcileReadOnly(prev, FALSE) /\ Turns(r, "failed")
    <3>1. Match' /\ Goes(r, <<<<"failed", at[r][1][2]>>>>)
      BY <2>1, <2>5, Reconciles
    <3>2. <<<<"failed", at[r][1][2]>>>> # <<>> /\ <<<<"failed", at[r][1][2]>>>>[1][1] = "failed"
      OBVIOUS
    <3> QED
      BY <1>2, <2>2, <3>1, <3>2, HolderMoves
  <2> QED
    BY <1>5, <2>4, <2>5 DEF Saves
<1>6. CASE Failed(r)
  <2>1. at[r] # <<>> /\ (Over(r) = Goes(r, <<>>))
    BY <1>6, AtHead DEF Failed
  <2>2. cfgMu = r /\ Match
    BY <1>2, <1>6, Holds DEF Failed
  <2>3. CASE Goes(r, <<>>) /\ cfgMu' = None /\ UNCHANGED <<guardVars, scene, stored, blind>>
    BY <1>2, <2>2, <2>3, HolderMoves DEF Match, guardVars
  <2> QED
    BY <1>1, <1>6, <2>1, <2>3 DEF Failed, world
<1>7. CASE Applies(r)
  <2>1. at[r] # <<>> /\ at[r][1][1] = "apply" /\ Goes(r, Tail(at[r]))
    BY <1>7, AtHead DEF Applies
  <2>2. cfgMu = r /\ stored = scene.want[r] /\ Plan(at[r])
    BY <1>2, <1>7, Holds DEF Applies
  <2>3. Tail(at[r]) # <<>> /\ Tail(at[r])[1][1] = "report"
    BY <2>1, <2>2, NextUnderLock DEF Through, Successor
  <2>4. readOnly' = scene.want[r] /\ UNCHANGED <<scene, cfgMu, stored>>
    BY <1>7 DEF Applies, Sets, SetReadOnly, world
  <2>5. Match'
    BY <2>2, <2>4 DEF Match
  <2> QED
    BY <1>2, <2>1, <2>2, <2>3, <2>4, <2>5, HolderMoves
<1>8. CASE Reports(r)
  <2>1. /\ at[r] # <<>> /\ (Over(r) = Goes(r, <<>>))
        /\ (Turns(r, "undo") = Goes(r, <<<<"undo", at[r][1][2]>>>>))
    BY <1>8, AtHead DEF Reports
  <2>2. cfgMu = r /\ Match
    BY <1>2, <1>8, Holds DEF Reports
  <2>3. CASE ~Asks(r, "result")
    <3>1. UNCHANGED <<guardVars, scene, stored, blind>>
      BY <1>8, <2>3 DEF Reports, world
    <3>2. Match'
      BY <2>2, <3>1 DEF Match, guardVars
    <3>3. CASE Goes(r, <<>>) /\ cfgMu' = None
      BY <1>2, <2>2, <3>1, <3>2, <3>3, HolderMoves
    <3>4. CASE Goes(r, <<<<"undo", at[r][1][2]>>>>) /\ cfgMu' = cfgMu
      <4>1. <<<<"undo", at[r][1][2]>>>> # <<>> /\ <<<<"undo", at[r][1][2]>>>>[1][1] = "undo"
        OBVIOUS
      <4> QED
        BY <1>2, <2>2, <3>1, <3>2, <3>4, <4>1, HolderMoves
    <3> QED
      BY <1>8, <2>1, <2>3, <3>3, <3>4 DEF Reports
  <2> QED
    BY <1>1, <2>3
<1>9. CASE Undoes(r)
  <2>1. at[r] # <<>> /\ Goes(r, <<>>) /\ cfgMu' = None /\ UNCHANGED scene
    BY <1>9, AtHead DEF Undoes
  <2>2. cfgMu = r
    BY <1>2, <1>9, Holds DEF Undoes
  <2>3. Match'
    <3>1. CASE stored' = prev /\ reconcileReadOnly(prev, TRUE)
      BY <3>1 DEF reconcileReadOnly, Sets, SetReadOnly, Match
    <3>2. CASE reconcileReadOnly(prev, FALSE)
      BY <3>2, Reconciles
    <3> QED
      BY <1>9, <3>1, <3>2 DEF Undoes
  <2> QED
    BY <1>2, <2>1, <2>2, <2>3, HolderMoves
<1>10. CASE Intends(r) /\ ~(UNCHANGED <<stored, blind, readOnly, scene>> /\ Told(r))
  BY <1>1, <1>10 DEF Intends, world, guardVars
<1> QED
  BY <1>3, <1>4, <1>5, <1>6, <1>7, <1>8, <1>9, <1>10

\* What a handler begins with is not of those that hold the lock.
LEMMA FirstSteps ==
    ASSUME TrailInv, NEW r \in Uses, Of(r).steps # <<>>
    PROVE  Of(r).steps[1][1] \notin Locked
<1>1. What(r) \in DOMAIN dispatch
  BY SceneAssumption DEF TrailInv, Uses, What
<1>2. Fine(What(r), Of(r).steps)
  BY <1>1, Handlers DEF Of
<1>3. 1 \in DOMAIN Of(r).steps
  BY <1>2, Shape DEF Fine, Script
<1>4. CASE What(r) # "settings"
  BY <1>2, <1>3, <1>4 DEF Fine, Apart
<1>5. CASE What(r) = "settings"
  <2>1. Of(r).steps = Steps(<<"lock", "intent", "save", "apply", "report">>)
    BY <1>5 DEF Of, dispatch, postSettings, Handler
  <2>2. Steps(<<"lock", "intent", "save", "apply", "report">>)[1] = <<"lock", 1>>
    BY DEF Steps
  <2> QED
    BY <2>1, <2>2 DEF Locked
<1> QED
  BY <1>4, <1>5

LEMMA LockShapeKept ==
    ASSUME SignInv, TrailInv, LockShape, [Next]_vars
    PROVE  LockShape'
<1>1. ASSUME NEW r \in Request, Handles(r) PROVE LockShape'
  <2>1. CASE Goings(r)
    <3>1. PICK p : Goes(r, p) /\ Could(at[r], p, readOnly)
      BY <2>1 DEF Goings
    <3>2. cfgMu # r /\ at[r] # <<>> /\ at[r][1][1] \notin Locked \cup {"lock"} /\ Plan(at[r])
      BY <2>1 DEF Goings, LockShape, TrailInv, PlanShape
    <3>3. p # <<>> => p[1][1] \notin Locked
      BY <3>1, <3>2, NotUnderLock
    <3>4. UNCHANGED <<config, readOnly, scene>>
      BY <2>1 DEF Goings
    <3> QED
      BY <3>1, <3>2, <3>3, <3>4, OtherMoves
  <2> QED
    BY <1>1, <2>1, HandlesGoes, UnderTheLock
<1>2. ASSUME NEW r \in Request, Dispatch(r) PROVE LockShape'
  <2>1. sign[r] \in {"in", "outside"}
    BY <1>2 DEF Dispatch
  <2>2. at[r] = <<>> /\ r \in Uses
    BY <2>1 DEF TrailInv, PlanShape, Handled
  <2>3. cfgMu # r
    BY <2>2 DEF LockShape
  <2>4. PICK p : Goes(r, p) /\ p \in {Of(r).steps, <<>>, <<<<"deny", 0>>>>}
    BY <1>2 DEF Dispatch, Over
  <2>5. p # <<>> => p[1][1] \notin Locked
    BY <2>2, <2>4, FirstSteps DEF Locked
  <2>6. UNCHANGED <<config, readOnly, scene>>
    BY <1>2 DEF Dispatch, guardVars, world
  <2> QED
    BY <2>3, <2>4, <2>5, <2>6, OtherMoves
<1>3. CASE UNCHANGED <<config, readOnly, scene, at>>
  BY <1>3, NobodyMoves
<1>4. ASSUME NEW r \in Request, Arrives(r) \/ (Authenticates(r) /\ Elsewhere) PROVE UNCHANGED <<config, readOnly, scene, at>>
  BY <1>4 DEF Arrives, Elsewhere, guardVars, webVars, config
<1>5. Happens => UNCHANGED <<config, readOnly, scene, at>>
  BY DEF Happens, Tick, guardVars
<1>6. (Answers /\ Elsewhere) \/ Logs \/ UNCHANGED vars => UNCHANGED <<config, readOnly, scene, at>>
  BY DEF Elsewhere, Logs, vars, guardVars, webVars, config
<1> QED
  BY <1>1, <1>2, <1>3, <1>4, <1>5, <1>6, Zenon DEF Next, Acts

LEMMA LockShapeBegins == Init => LockShape
  BY RequestAssumption DEF Init, LockShape, Match

-----------------------------------------------------------------------------
(* Why the switch binds.                                                   *)

LEMMA GuardedRest ==
    ASSUME NEW q, NEW p, NEW d \in Nat, q \in Seq(Step), Follows(p, q, d), NEW n, Guarded(q, n),
           \A i \in DOMAIN q : i <= d => q[i] \notin Checks \X {n}
    PROVE  Guarded(p, n)
<1>1. DOMAIN p = 1 .. Len(p) /\ DOMAIN q = 1 .. Len(q) /\ Len(q) \in Nat /\ Len(p) = Len(q) - d
      /\ \A i \in 1 .. Len(p) : i + d \in 1 .. Len(q) /\ p[i] = q[i + d]
  BY DEF Follows
<1> SUFFICES ASSUME NEW j \in DOMAIN p, p[j] \in Working \X {n}
             PROVE  \E i \in DOMAIN p : i < j /\ p[i] \in Checks \X {n}
  BY DEF Guarded
<1>2. j + d \in DOMAIN q /\ q[j + d] \in Working \X {n}
  BY <1>1
<1>3. PICK i \in DOMAIN q : i < j + d /\ q[i] \in Checks \X {n}
  BY <1>2 DEF Guarded
<1>4. i > d /\ i \in Nat /\ j \in Nat
  BY <1>1, <1>3
<1>5. i - d \in 1 .. Len(p) /\ i - d < j /\ (i - d) + d = i
  BY <1>1, <1>3, <1>4
<1> QED
  BY <1>1, <1>3, <1>5

LEMMA GuardedPut ==
    ASSUME NEW p, NEW x, NEW t, t \in Seq(Step), Puts(p, x, t), NEW n, Guarded(t, n), x[1] \notin Working
    PROVE  Guarded(p, n)
<1>1. DOMAIN p = 1 .. Len(p) /\ DOMAIN t = 1 .. Len(t) /\ Len(t) \in Nat /\ Len(p) = Len(t) + 1
      /\ p[1] = x /\ \A i \in 1 .. Len(t) : p[i + 1] = t[i]
  BY DEF Puts
<1> SUFFICES ASSUME NEW j \in DOMAIN p, p[j] \in Working \X {n}
             PROVE  \E i \in DOMAIN p : i < j /\ p[i] \in Checks \X {n}
  BY DEF Guarded
<1>2. j # 1
  BY <1>1
<1>3. j - 1 \in DOMAIN t /\ (j - 1) + 1 = j
  BY <1>1, <1>2
<1>4. t[j - 1] \in Working \X {n}
  BY <1>1, <1>3
<1>5. PICK i \in DOMAIN t : i < j - 1 /\ t[i] \in Checks \X {n}
  BY <1>3, <1>4 DEF Guarded
<1>6. i + 1 \in DOMAIN p /\ i + 1 < j
  BY <1>1, <1>3, <1>5
<1> QED
  BY <1>1, <1>5, <1>6

LEMMA GuardedStays ==
    ASSUME NEW q, NEW p, NEW n, Plan(q), q # <<>>, Guarded(q, n), Could(q, p, TRUE)
    PROVE  Guarded(p, n)
<1>1. q \in Seq(Step) /\ Follows(Tail(q), q, 1) /\ 1 \in DOMAIN q /\ DOMAIN q = 1 .. Len(q) /\ Len(q) \in Nat
  BY Shape
<1>2. ASSUME q[1][1] \notin Checks PROVE Guarded(Tail(q), n) /\ Tail(q) \in Seq(Step)
  <2>1. \A i \in DOMAIN q : i <= 1 => q[i] \notin Checks \X {n}
    BY <1>1, <1>2
  <2> QED
    BY <1>1, <2>1, GuardedRest DEF Follows
<1>3. CASE p = q
  BY <1>3
<1>4. CASE p = Tail(q) /\ q[1][1] \notin Checks
  BY <1>2, <1>4
<1>5. CASE p = <<>> \/ \E x : x[1] \notin Working /\ p = <<x>>
  BY <1>5 DEF Guarded
<1>6. CASE p = <<<<"spend", q[1][2]>>>> \o Tail(q) /\ q[1][1] = "confirm"
  <2> DEFINE x == <<"spend", q[1][2]>>
  <2>1. Puts(p, x, Tail(q)) /\ x[1] \notin Working
    BY <1>6, PlanOfSpend DEF Working
  <2>2. Guarded(Tail(q), n) /\ Tail(q) \in Seq(Step)
    BY <1>2, <1>6 DEF Checks
  <2> HIDE DEF x
  <2> QED
    BY <2>1, <2>2, GuardedPut
<1>7. CASE p = <<<<"rooted", 0>>>> \o Tail(q) /\ q[1][1] = "root"
  <2> DEFINE x == <<"rooted", 0>>
  <2>1. Puts(p, x, Tail(q)) /\ x[1] \notin Working
    BY <1>7, PlanOfRooted DEF Working
  <2>2. Guarded(Tail(q), n) /\ Tail(q) \in Seq(Step)
    BY <1>2, <1>7 DEF Checks
  <2> HIDE DEF x
  <2> QED
    BY <2>1, <2>2, GuardedPut
<1>8. CASE p = <<<<"strike", q[1][2]>>>> \o SubSeq(q, 5, Len(q)) /\ q[1][1] = "each"
  <2> DEFINE x == <<"strike", q[1][2]>>  t == SubSeq(q, 5, Len(q))
  <2>1. Follows(t, q, 4) /\ Puts(p, x, t) /\ x[1] \notin Working /\ \A j \in DOMAIN q : j > 4 => q[j][2] # q[1][2]
    BY <1>8, PlanOfStrike DEF Working
  <2>2. t \in Seq(Step)
    BY <2>1 DEF Follows
  <2>3. CASE n = q[1][2]
    <3>1. \A j \in DOMAIN t : t[j] \notin Working \X {n}
      <4> SUFFICES ASSUME NEW j \in DOMAIN t PROVE t[j][2] # n
        OBVIOUS
      <4>1. j \in Nat /\ j >= 1 /\ j + 4 \in DOMAIN q /\ t[j] = q[j + 4]
        BY <1>1, <2>1 DEF Follows
      <4> QED
        BY <2>1, <2>3, <4>1
    <3>2. Guarded(t, n)
      BY <3>1 DEF Guarded
    <3> HIDE DEF x, t
    <3> QED
      BY <2>1, <2>2, <3>2, GuardedPut
  <2>4. CASE n # q[1][2]
    <3>1. /\ 1 + 3 \in DOMAIN q
          /\ q[1 + 1] = <<"entry", q[1][2]>> /\ q[1 + 2] = <<"call", q[1][2]>> /\ q[1 + 3] = <<"note", q[1][2]>>
      BY <1>1, <1>8 DEF Plan, Whole
    <3>2. q[1][2] # n /\ q[2][2] # n /\ q[3][2] # n /\ q[4][2] # n
      BY <2>4, <3>1
    <3>3. \A i \in DOMAIN q : i <= 4 => q[i] \notin Checks \X {n}
      BY <1>1, <3>2
    <3>4. Guarded(t, n)
      <4> HIDE DEF t
      <4> QED
        BY <1>1, <2>1, <3>3, GuardedRest
    <3> HIDE DEF x, t
    <3> QED
      BY <2>1, <2>2, <3>4, GuardedPut
  <2> QED
    BY <2>3, <2>4
<1>9. CASE \/ \E y \in {"deny", "dismiss", "sorry", "result"} : p = <<<<y, q[1][2]>>>>
           \/ p = Sums
  <2>1. PICK y \in {"deny", "dismiss", "sorry", "result", "sum"} : \E m : p = <<<<y, m>>>>
    BY <1>9 DEF Sums
  <2>2. \E x : x[1] \notin Working /\ p = <<x>>
    BY <2>1 DEF Working
  <2> QED
    BY <1>5, <2>2
<1> QED
  BY <1>3, <1>4, <1>5, <1>6, <1>7, <1>8, <1>9 DEF Could

\* What becomes bound may not have run, and is behind a check.
LEMMA UncheckedShape ==
    ASSUME TrailInv
    PROVE  /\ Unchecked \subseteq Uses \X (0 .. 2) /\ Unchecked \cap ran = {}
           /\ \A x \in Unchecked : Guarded(Ahead(x[1]), x[2]) /\ What(x[1]) # "settings"
<1>1. Unchecked \subseteq Uses \X (0 .. 2)
  BY DEF Unchecked
<1> SUFFICES ASSUME NEW r \in Uses, NEW n \in 0 .. 2, <<r, n>> \in Unchecked
             PROVE  <<r, n>> \notin ran /\ Guarded(Ahead(r), n) /\ What(r) # "settings"
  <2>1. \A x \in Unchecked : x[1] \in Uses /\ x[2] \in 0 .. 2 /\ x = <<x[1], x[2]>>
    BY <1>1
  <2> QED
    BY <1>1, <2>1
<1> DEFINE q == Ahead(r)
<1>2. r \in Request
  BY DEF Uses
<1>3. Plan(q) /\ Kinds(r, q)
  BY <1>2, Dispatched DEF TrailInv, PlanShape, Ahead, Handled, Serves
<1>4. PICK j \in DOMAIN q : \E i \in 1 .. j - 1 :
          q[j] \in {"call", "run", "open"} \X {n} /\ q[i] \in Checks \X {n}
  BY DEF Unchecked
<1>5. q # <<>>
  BY <1>4
<1>6. DOMAIN q = 1 .. Len(q) /\ Len(q) \in Nat /\ q[j] \in Working \X {n}
  BY <1>3, <1>4, <1>5, Shape DEF Working
<1>7. PICK i \in DOMAIN q : i < j /\ q[i] \in Checks \X {n}
  BY <1>4, <1>6
<1>8. What(r) # "settings"
  BY <1>3, <1>6 DEF Kinds
<1>9. \A k \in DOMAIN q : q[k] \in Working \X {n} => k = j
  <2> SUFFICES ASSUME NEW k \in DOMAIN q, q[k] \in Working \X {n}, k # j PROVE FALSE
    OBVIOUS
  <2>1. Rank(q[k][1]) = 8 /\ Rank(q[j][1]) = 8 /\ q[k][2] = q[j][2]
    BY <1>6, Ranks DEF Working
  <2>2. k < j \/ j < k
    BY <1>6
  <2>3. Rises(q)
    BY <1>3 DEF Plan
  <2> HIDE DEF q
  <2> QED
    BY <2>1, <2>2, <2>3 DEF Rises
<1>10. Guarded(q, n)
  BY <1>7, <1>9 DEF Guarded
<1>11. <<r, n>> \notin ran
  <2> SUFFICES ASSUME <<r, n>> \in ran PROVE FALSE
    OBVIOUS
  <2>1. n \in W(r) /\ Handled(r) /\ q = at[r]
    <3>1. n \in W(r)
      BY DEF W
    <3>2. Handled(r)
      BY <1>2, <3>1 DEF TrailInv, PlanShape
    <3> QED
      BY <3>1, <3>2 DEF Ahead, Handled
  <2>2. Past(at[r], R(r), W(r))
    BY <1>2 DEF TrailInv, PlanShape, Fit
  <2>3. Rank(q[j][1]) = 8 /\ q[j][2] = n
    BY <1>6, Ranks DEF Working
  <2>4. Rank(q[j][1]) > 8
    BY <1>6, <2>1, <2>2, <2>3 DEF Past
  <2> QED
    BY <2>3, <2>4
<1> QED
  BY <1>8, <1>10, <1>11

LEMMA BoundStays ==
    ASSUME BoundShape, UNCHANGED <<readOnly, bound, ran, scene>>,
           \A x \in bound : Guarded(Ahead(x[1]), x[2]) => Guarded(Ahead(x[1]), x[2])'
    PROVE  BoundShape'
<1>1. Uses' = Uses /\ \A r : What(r)' = What(r)
  BY DEF Uses, What
<1> QED
  BY <1>1 DEF BoundShape

\* The switch is thrown by the settings alone.
LEMMA LockFrames ==
    ASSUME TrailInv, NEW r \in Request,
           Locks(r) \/ Intends(r) \/ Saves(r) \/ Failed(r) \/ Applies(r) \/ Reports(r) \/ Undoes(r)
    PROVE  /\ What(r) = "settings" /\ UNCHANGED <<signVars, scene>>
           /\ \A q \in Request \ {r} : at'[q] = at[q]
           /\ ran' = ran \/ ran' = ran \cup {<<r, N(r)>>}
           /\ UNCHANGED <<bound, readOnly>> \/ \E v : Sets(v)
<1>1. What(r) = "settings"
  <2>1. PICK x \in Locked \cup {"lock"} : At(r, x)
    BY DEF Locks, Intends, Saves, Failed, Applies, Reports, Undoes, Locked
  <2>2. at[r] # <<>> /\ at[r][1][1] = x
    BY <2>1, AtHead
  <2>3. 1 \in DOMAIN at[r] /\ Kinds(r, at[r])
    BY <2>2, Shape DEF TrailInv, PlanShape
  <2> QED
    BY <2>2, <2>3 DEF Kinds
<1>2. UNCHANGED <<signVars, scene>>
  <2>1. CASE Locks(r) \/ Intends(r) \/ Failed(r) \/ Reports(r)
    BY <2>1 DEF Locks, Intends, Failed, Reports, Asks, world
  <2>2. CASE Saves(r) \/ Applies(r) \/ Undoes(r)
    BY <2>2 DEF Saves, Applies, Undoes, world
  <2> QED
    BY <2>1, <2>2
<1>3. at' = at \/ \E p : Goes(r, p)
  <2>1. CASE Locks(r) \/ Intends(r) \/ Failed(r) \/ Reports(r)
    BY <2>1 DEF Locks, Intends, Failed, Reports, Asks, Onward, Over, Turns
  <2>2. CASE Saves(r) \/ Applies(r) \/ Undoes(r)
    BY <2>2 DEF Saves, Applies, Undoes, Onward, Over, Turns
  <2> QED
    BY <2>1, <2>2
<1>4. \A q \in Request \ {r} : at'[q] = at[q]
  BY <1>3 DEF Goes, TrailInv
<1>5. ran' = ran \/ ran' = ran \cup {<<r, N(r)>>}
  <2>1. CASE Locks(r) \/ Intends(r) \/ Failed(r) \/ Reports(r)
    BY <2>1 DEF Locks, Intends, Failed, Reports, Asks, history
  <2>2. CASE Saves(r) \/ Applies(r) \/ Undoes(r)
    BY <2>2 DEF Saves, Applies, Undoes
  <2> QED
    BY <2>1, <2>2
<1>6. UNCHANGED <<bound, readOnly>> \/ \E v : Sets(v)
  <2>1. CASE Locks(r) \/ Intends(r) \/ Failed(r) \/ Reports(r)
    BY <2>1 DEF Locks, Intends, Failed, Reports, Asks, history, guardVars
  <2>2. CASE Saves(r) \/ Applies(r) \/ Undoes(r)
    BY <2>2 DEF Saves, Applies, Undoes, reconcileReadOnly, guardVars
  <2> QED
    BY <2>1, <2>2
<1> QED
  BY <1>1, <1>2, <1>4, <1>5, <1>6

LEMMA ThrownBinds ==
    ASSUME TrailInv, BoundShape, NEW r \in Request,
           Locks(r) \/ Intends(r) \/ Saves(r) \/ Failed(r) \/ Applies(r) \/ Reports(r) \/ Undoes(r)
    PROVE  BoundShape'
<1>1. /\ What(r) = "settings" /\ UNCHANGED <<signVars, scene>>
      /\ \A q \in Request \ {r} : at'[q] = at[q]
      /\ ran' = ran \/ ran' = ran \cup {<<r, N(r)>>}
      /\ UNCHANGED <<bound, readOnly>> \/ \E v : Sets(v)
  BY LockFrames
<1>2. Uses' = Uses /\ Uses \subseteq Request /\ \A q : What(q)' = What(q)
  BY <1>1 DEF Uses, What
<1>3. \A q \in Request \ {r} : Ahead(q)' = Ahead(q)
  BY <1>1 DEF Ahead, Of, What, signVars
<1>4. CASE bound' = {}
  BY <1>4 DEF BoundShape
<1>5. CASE bound' # {}
  <2>1. readOnly' /\ bound' \subseteq bound \cup Unchecked
    <3>1. CASE UNCHANGED <<bound, readOnly>>
      BY <1>5, <3>1 DEF BoundShape
    <3>2. CASE ~UNCHANGED <<bound, readOnly>>
      <4>1. PICK v : Sets(v)
        BY <1>1, <3>2
      <4>2. CASE v
        BY <4>1, <4>2 DEF Sets, SetReadOnly
      <4>3. CASE ~v
        BY <1>5, <4>1, <4>3 DEF Sets
      <4> QED
        BY <4>2, <4>3
    <3> QED
      BY <3>1, <3>2
  <2>2. /\ bound' \subseteq Uses \X (0 .. 2) /\ bound' \cap ran = {}
        /\ \A x \in bound' : Guarded(Ahead(x[1]), x[2]) /\ What(x[1]) # "settings"
    BY <2>1, UncheckedShape DEF BoundShape
  <2>3. \A x \in bound' : x[1] \in Request \ {r}
    BY <1>1, <1>2, <2>2
  <2>4. bound' \cap ran' = {}
    BY <1>1, <2>2, <2>3
  <2>5. \A x \in bound' : Guarded(Ahead(x[1]), x[2])' /\ What(x[1])' # "settings"
    <3>1. \A x \in bound' : Ahead(x[1])' = Ahead(x[1])
      BY <1>3, <2>3
    <3> QED
      BY <1>2, <2>2, <3>1 DEF Guarded
  <2> QED
    BY <1>2, <2>1, <2>2, <2>4, <2>5 DEF BoundShape
<1> QED
  BY <1>4, <1>5

LEMMA GoingsBinds ==
    ASSUME TrailInv, BoundShape, NEW r \in Request, Goings(r)
    PROVE  BoundShape'
<1>1. PICK p : Goes(r, p) /\ Could(at[r], p, readOnly)
  BY DEF Goings
<1>2. at[r] # <<>> /\ Plan(at[r]) /\ Handled(r) /\ UNCHANGED <<readOnly, scene, bound, signVars>>
  BY DEF Goings, TrailInv, PlanShape
<1>3. at'[r] = p /\ \A q \in Request \ {r} : at'[q] = at[q]
  BY <1>1 DEF Goes, TrailInv
<1>4. \A q : q # r /\ q \in Request => Ahead(q)' = Ahead(q)
  BY <1>2, <1>3 DEF Ahead, Of, What, signVars
<1>5. Ahead(r) = at[r] /\ Ahead(r)' = p
  BY <1>2, <1>3 DEF Ahead, Handled, signVars
<1>6. ASSUME NEW x \in bound, Guarded(Ahead(x[1]), x[2]) PROVE Guarded(Ahead(x[1]), x[2])'
  <2>1. x[1] \in Request
    BY DEF BoundShape, Uses
  <2>2. CASE x[1] # r
    BY <1>4, <1>6, <2>1, <2>2 DEF Guarded
  <2>3. CASE x[1] = r
    <3>1. Could(at[r], p, TRUE)
      BY <1>1 DEF BoundShape, Could
    <3>2. Guarded(at[r], x[2])
      BY <1>5, <1>6, <2>3
    <3>3. Guarded(p, x[2])
      BY <1>2, <3>1, <3>2, GuardedStays
    <3> QED
      BY <1>5, <2>3, <3>3 DEF Guarded
  <2> QED
    BY <2>2, <2>3
<1>7. bound' \cap ran' = {}
  <2>1. CASE ran' = ran
    BY <1>2, <2>1 DEF BoundShape
  <2>2. CASE at[r][1][1] \in Working /\ ran' = ran \cup {<<r, N(r)>>}
    <3>1. 1 \in DOMAIN at[r] /\ at[r][1] \in Step /\ N(r) = at[r][1][2] /\ \A i \in DOMAIN at[r] : ~(i < 1)
      <4>1. 1 \in DOMAIN at[r] /\ at[r][1] \in Step /\ DOMAIN at[r] = 1 .. Len(at[r]) /\ Len(at[r]) \in Nat
        BY <1>2, Shape
      <4>2. N(r) = at[r][1][2]
        BY <1>2, AtWork
      <4> QED
        BY <4>1, <4>2
    <3>2. ~Guarded(at[r], N(r))
      <4>1. at[r][1] \in Working \X {N(r)}
        BY <2>2, <3>1 DEF Step
      <4> QED
        BY <3>1, <4>1 DEF Guarded
    <3>3. \A x \in bound : x[1] = r => Guarded(at[r], x[2])
      BY <1>5 DEF BoundShape
    <3>4. <<r, N(r)>> \notin bound
      BY <3>2, <3>3
    <3> QED
      BY <1>2, <2>2, <3>4 DEF BoundShape
  <2> QED
    BY <2>1, <2>2 DEF Goings
<1>8. Uses' = Uses /\ \A q : What(q)' = What(q)
  BY <1>2 DEF Uses, What
<1> QED
  BY <1>2, <1>6, <1>7, <1>8 DEF BoundShape

\* A request that is dispatched, or only signs in.
LEMMA DispatchBinds ==
    ASSUME SignInv, TrailInv, BoundShape, NEW r \in Request, Dispatch(r)
    PROVE  BoundShape'
<1>1. UNCHANGED <<readOnly, bound, ran, scene>>
  BY DEF Dispatch, guardVars, history, world
<1>2. sign \in [Request -> SignState] /\ sign[r] \in {"in", "outside"}
  BY DEF SignInv, SignTypeOK, Dispatch
<1>3. PICK p : Goes(r, p) /\ p \in {Of(r).steps, <<>>, <<<<"deny", 0>>>>}
  BY DEF Dispatch, Over
<1>4. at'[r] = p /\ \A q \in Request \ {r} : at'[q] = at[q]
  BY <1>3 DEF Goes, TrailInv
<1>5. sign'[r] \in {"served", "refused"} /\ \A q \in Request \ {r} : sign'[q] = sign[q]
  BY <1>2 DEF Dispatch, To
<1>6. Ahead(r) = Of(r).steps /\ Ahead(r)' = p
  BY <1>2, <1>4, <1>5 DEF Ahead
<1>7. \A q \in Request \ {r} : Ahead(q)' = Ahead(q)
  BY <1>1, <1>4, <1>5 DEF Ahead, Of, What
<1>8. ASSUME NEW x \in bound, Guarded(Ahead(x[1]), x[2]) PROVE Guarded(Ahead(x[1]), x[2])'
  <2>1. x[1] \in Request
    BY DEF BoundShape, Uses
  <2>2. CASE x[1] # r
    BY <1>7, <1>8, <2>1, <2>2 DEF Guarded
  <2>3. CASE x[1] = r
    <3>1. \A n : Guarded(<<>>, n) /\ Guarded(<<<<"deny", 0>>>>, n)
      BY DEF Guarded, Working
    <3>2. Guarded(p, x[2])
      BY <1>3, <1>6, <1>8, <2>3, <3>1
    <3> QED
      BY <1>6, <2>3, <3>2 DEF Guarded
  <2> QED
    BY <2>2, <2>3
<1> QED
  BY <1>1, <1>8, BoundStays

LEMMA SigningBinds ==
    ASSUME TrailInv, BoundShape, Signs, UNCHANGED <<readOnly, bound, ran, scene, at>>
    PROVE  BoundShape'
<1>1. ASSUME NEW x \in bound, Guarded(Ahead(x[1]), x[2]) PROVE Guarded(Ahead(x[1]), x[2])'
  <2>1. x[1] \in Request
    BY DEF BoundShape, Uses
  <2>2. CASE Handled(x[1]) = Handled(x[1])'
    <3>1. Ahead(x[1])' = Ahead(x[1])
      BY <2>2 DEF Ahead, Handled, Of, What
    <3> QED
      BY <1>1, <3>1 DEF Guarded
  <2>3. CASE Handled(x[1]) # Handled(x[1])'
    <3>1. Handled(x[1])' /\ at[x[1]] = <<>>
      BY <2>1, <2>3 DEF Signs, Handled, TrailInv, PlanShape
    <3>2. Ahead(x[1])' = <<>>
      BY <3>1 DEF Ahead, Handled
    <3> QED
      BY <3>2 DEF Guarded
  <2> QED
    BY <2>2, <2>3
<1> QED
  BY <1>1, BoundStays

LEMMA BoundShapeKept ==
    ASSUME SignInv, TrailInv, BoundShape, [Next]_vars
    PROVE  BoundShape'
<1>1. ASSUME NEW r \in Request, Handles(r) PROVE BoundShape'
  BY <1>1, HandlesGoes, GoingsBinds, ThrownBinds
<1>2. ASSUME Signs, UNCHANGED <<readOnly, bound, ran, scene, at>> PROVE BoundShape'
  BY <1>2, SigningBinds
<1>3. ASSUME NEW r \in Request, Authenticates(r), Elsewhere PROVE BoundShape'
  <2>1. UNCHANGED <<readOnly, bound, ran, scene, at>>
    BY <1>3 DEF Elsewhere, guardVars, webVars
  <2> QED
    BY <1>2, <1>3, <2>1, Authenticate
<1>4. ASSUME NEW r \in Request, Arrives(r) PROVE BoundShape'
  <2>1. sign \in [Request -> SignState] /\ r \in Uses /\ sign[r] = "new"
    BY <1>4 DEF SignInv, SignTypeOK, Arrives
  <2>2. PICK st : To(r, st)
    BY <1>4 DEF Arrives, Lookup
  <2>3. Signs
    BY <2>1, <2>2 DEF Signs, To, Handled, TrailInv, PlanShape
  <2>4. UNCHANGED <<readOnly, bound, ran, scene, at>>
    BY <1>4 DEF Arrives, guardVars, webVars
  <2> QED
    BY <1>2, <2>3, <2>4
<1>5. CASE (Answers /\ Elsewhere) \/ Happens \/ Logs \/ UNCHANGED vars
  <2>1. UNCHANGED <<readOnly, bound, ran, scene, at, sign>>
    <3>1. CASE Happens
      BY <3>1 DEF Happens, history, guardVars, Tick, signVars, SignsOut, Removed, CacheExpires
    <3>2. CASE Answers /\ Elsewhere
      BY <3>2 DEF Answers, Elsewhere, guardVars, webVars
    <3>3. CASE Logs \/ UNCHANGED vars
      BY <3>3 DEF Logs, vars, guardVars, webVars, signVars
    <3> QED
      BY <1>5, <3>1, <3>2, <3>3
  <2> QED
    BY <1>2, <2>1, SignStays
<1> QED
  BY <1>1, <1>3, <1>4, <1>5, DispatchBinds, Zenon DEF Next, Acts

LEMMA BoundShapeBegins == Init => BoundShape
<1> SUFFICES ASSUME Init PROVE BoundShape
  OBVIOUS
<1>1. TrailInv
  BY InvBegins DEF Inv
<1>2. bound = {} \/ (readOnly /\ bound = Unchecked)
  BY DEF Init
<1> QED
  BY <1>1, <1>2, UncheckedShape DEF BoundShape

(* The switch that the guard obeys is the one in the file, whoever failed  *)
(* at changing it, or everything is refused (reconcileReadOnly).           *)
THEOREM TheGuardMatchesItsFile == Spec => []GuardMatchesFile
<1>1. Init => Inv /\ LockShape
  BY InvBegins, LockShapeBegins
<1>2. Inv /\ LockShape /\ [Next]_vars => (Inv /\ LockShape)'
  BY InvKept, LockShapeKept DEF Inv
<1>3. LockShape => GuardMatchesFile
  BY DEF LockShape, Match, GuardMatchesFile
<1> QED
  BY <1>1, <1>2, <1>3, PTL DEF Spec

(* What had not passed its check when the switch was thrown never runs     *)
(* (Check, recheckGuard).                                                  *)
THEOREM TheSwitchBinds == Spec => []ReadOnlyBinds
<1>1. Init => Inv /\ BoundShape
  BY InvBegins, BoundShapeBegins
<1>2. Inv /\ BoundShape /\ [Next]_vars => (Inv /\ BoundShape)'
  BY InvKept, BoundShapeKept DEF Inv
<1>3. BoundShape => ReadOnlyBinds
  BY DEF BoundShape, ReadOnlyBinds
<1> QED
  BY <1>1, <1>2, <1>3, PTL DEF Spec
-----------------------------------------------------------------------------
(* Consent.                                                                *)

Acl == {"chmod", "jobChmod"}

\* The steps that decide what a confirmation is of, ask for it and pay it.
Asides == {"look", "seal", "confirm", "spend"}
Decided(q) == \A i \in DOMAIN q : q[i][1] \notin Asides
Before(q, j, names) == \E i \in DOMAIN q : i < j /\ q[i][1] \in names

\* A token is spent at once, and nothing is asked twice.
Once(q) == \A j \in DOMAIN q :
    /\ q[j][1] = "spend" => j = 1
    /\ q[j][1] \in Asides => ~Before(q, j, {"confirm", "spend"})

\* No work but after a confirmation; no job starts that has not looked.
Owed(q) == \A j \in DOMAIN q : q[j][1] \in Working => Before(q, j, {"confirm", "spend"})
Looked(q) == \A j \in DOMAIN q : q[j][1] = "start" => Before(q, j, {"look"})
Alone(w, q) == \A j \in DOMAIN q : q[j][1] # "each" /\ (q[j][1] = "start" => w = "jobChmod")

Paid(r) ==
    /\ mem[r].paid # None /\ mem[r].paid \in Request /\ tokens[mem[r].paid] # NoToken
    /\ tokens[mem[r].paid].parts = mem[r].parts

TokenShape ==
    /\ clock \in Nat /\ DOMAIN tokens = Request /\ \A t \in Request : tokens[t].exp \in Nat
    /\ \A t \in Request : tokens[t] # NoToken => Handled(t) /\ at[t] = <<>>

\* What was spent is remembered until it has expired.
SpentShape ==
    /\ \A r \in Request : mem[r].paid # None =>
          /\ mem[r].paid \in Request /\ tokens[mem[r].paid] # NoToken
          /\ mem[r].paid \in seen \/ Expired(mem[r].paid)
    /\ \A q, r \in Request :
          q # r /\ mem[q].paid = mem[r].paid /\ mem[q].paid # None => mem[q].late \/ mem[r].late

Shown(r) == at[r] # <<>> /\ at[r][1][1] = "spend" =>
    /\ scene.shows[r] # None /\ scene.shows[r] \in Request /\ tokens[scene.shows[r]] # NoToken
    /\ tokens[scene.shows[r]].parts = mem[r].parts
Warned(r) == mem[r].was = "discards" =>
    mem[r].expect = "trivial" \/ (mem[r].asks /\ mem[r].parts[3] \in Destroys)
Consented(r) == Handled(r) /\ Paid(r) /\ mem[r].parts[3] \in Destroys /\ Decided(at[r])
Agrees(r) ==
    /\ Once(at[r]) /\ Shown(r)
    /\ What(r) \in Acl =>
          /\ Alone(What(r), at[r]) /\ Warned(r)
          /\ Owed(at[r]) \/ ((mem[r].asks => Paid(r)) /\ Decided(at[r]))
          /\ Looked(at[r]) \/ mem[r].asks
    /\ r \in wiped => Consented(r)

ConsentInv ==
    /\ aclmode \in {"keeps", "discards"} /\ wiped \subseteq Request
    /\ TokenShape /\ SpentShape /\ \A r \in Request : Agrees(r)

\* What a step leaves of them that settles nothing.
Less(q, p) ==
    \/ p = q
    \/ p = <<>>
    \/ p = Tail(q) /\ q[1][1] \notin Asides
    \/ \E x : p = <<x>> /\ x[1] \notin Asides \cup Working \cup {"each", "start"}
    \/ p = <<<<"rooted", 0>>>> \o Tail(q) /\ q[1][1] = "root"
    \/ p = <<<<"strike", q[1][2]>>>> \o SubSeq(q, 5, Len(q)) /\ q[1][1] = "each"

LEMMA RestOnce ==
    ASSUME NEW q \in Seq(Step), NEW p, NEW d \in Nat \ {0}, Follows(p, q, d), Once(q)
    PROVE  Once(p) /\ (\A j \in DOMAIN p : p[j][1] # "spend") /\ (Decided(q) => Decided(p))
<1>1. DOMAIN p = 1 .. Len(p) /\ DOMAIN q = 1 .. Len(q) /\ Len(q) \in Nat /\ Len(p) = Len(q) - d
      /\ \A i \in 1 .. Len(p) : i + d \in DOMAIN q /\ p[i] = q[i + d] /\ i + d # 1
  BY DEF Follows
<1>2. \A j \in DOMAIN p : p[j][1] # "spend"
  BY <1>1 DEF Once
<1>3. \A j \in DOMAIN p : p[j][1] \in Asides => ~Before(p, j, {"confirm", "spend"})
  <2> SUFFICES ASSUME NEW j \in DOMAIN p, p[j][1] \in Asides, NEW i \in DOMAIN p, i < j, p[i][1] \in {"confirm", "spend"}
               PROVE  FALSE
    BY DEF Before
  <2>1. j + d \in DOMAIN q /\ q[j + d][1] \in Asides /\ i + d \in DOMAIN q /\ i + d < j + d /\ q[i + d][1] \in {"confirm", "spend"}
    BY <1>1
  <2> QED
    BY <2>1 DEF Once, Before
<1>4. Decided(q) => Decided(p)
  BY <1>1 DEF Decided
<1> QED
  BY <1>2, <1>3, <1>4 DEF Once

LEMMA PutOnce ==
    ASSUME NEW p, NEW x, NEW t, t \in Seq(Step), Puts(p, x, t), Once(t), \A j \in DOMAIN t : t[j][1] # "spend",
           Decided(t) \/ x[1] \notin {"confirm", "spend"}
    PROVE  Once(p) /\ (Decided(t) /\ x[1] \notin Asides => Decided(p))
<1>1. DOMAIN p = 1 .. Len(p) /\ DOMAIN t = 1 .. Len(t) /\ Len(t) \in Nat /\ Len(p) = Len(t) + 1
      /\ p[1] = x /\ \A j \in DOMAIN p : j # 1 => j - 1 \in DOMAIN t /\ p[j] = t[j - 1]
  <2>1. DOMAIN p = 1 .. Len(p) /\ DOMAIN t = 1 .. Len(t) /\ Len(t) \in Nat /\ Len(p) = Len(t) + 1
        /\ p[1] = x /\ \A i \in 1 .. Len(t) : p[i + 1] = t[i]
    BY DEF Puts
  <2>2. ASSUME NEW j \in DOMAIN p, j # 1 PROVE j - 1 \in DOMAIN t /\ p[j] = t[j - 1]
    <3>1. j - 1 \in 1 .. Len(t) /\ (j - 1) + 1 = j
      BY <2>1, <2>2
    <3> QED
      BY <2>1, <3>1
  <2> QED
    BY <2>1, <2>2
<1>2. \A j \in DOMAIN p : p[j][1] = "spend" => j = 1
  BY <1>1
<1>3. ASSUME NEW j \in DOMAIN p, p[j][1] \in Asides, NEW i \in DOMAIN p, i < j, p[i][1] \in {"confirm", "spend"}
      PROVE  FALSE
  <2>1. j # 1 /\ j - 1 \in DOMAIN t /\ t[j - 1][1] \in Asides
    BY <1>1, <1>3
  <2>2. CASE i = 1
    BY <1>1, <1>3, <2>1, <2>2 DEF Decided
  <2>3. CASE i # 1
    <3>1. i - 1 \in DOMAIN t /\ i - 1 < j - 1 /\ t[i - 1][1] \in {"confirm", "spend"}
      BY <1>1, <1>3, <2>3
    <3> QED
      BY <2>1, <3>1 DEF Once, Before
  <2> QED
    BY <2>2, <2>3
<1>4. Decided(t) /\ x[1] \notin Asides => Decided(p)
  BY <1>1 DEF Decided
<1>5. \A j \in DOMAIN p : p[j][1] \in Asides => ~Before(p, j, {"confirm", "spend"})
  BY <1>3 DEF Before
<1> QED
  BY <1>2, <1>4, <1>5 DEF Once

\* Behind one of those names something stays behind it, unless it was the first.
LEMMA RestBefore ==
    ASSUME NEW q \in Seq(Step), NEW p, Follows(p, q, 1), NEW j \in DOMAIN p, NEW names, q[1][1] \notin names
    PROVE  j + 1 \in DOMAIN q /\ p[j] = q[j + 1] /\ (Before(q, j + 1, names) => Before(p, j, names))
<1>1. DOMAIN p = 1 .. Len(p) /\ DOMAIN q = 1 .. Len(q) /\ Len(q) \in Nat /\ Len(p) = Len(q) - 1
      /\ \A i \in 1 .. Len(p) : i + 1 \in DOMAIN q /\ p[i] = q[i + 1]
  BY DEF Follows
<1>2. ASSUME NEW i \in DOMAIN q, i < j + 1, q[i][1] \in names PROVE Before(p, j, names)
  <2>1. i # 1 /\ i - 1 \in 1 .. Len(p) /\ (i - 1) + 1 = i /\ i - 1 < j
    BY <1>1, <1>2
  <2>2. p[i - 1] = q[i]
    BY <1>1, <2>1
  <2> QED
    BY <1>1, <1>2, <2>1, <2>2 DEF Before
<1> QED
  BY <1>1, <1>2 DEF Before

LEMMA PutBefore ==
    ASSUME NEW p, NEW x, NEW t, t \in Seq(Step), Puts(p, x, t), NEW j \in DOMAIN p, j # 1, NEW names
    PROVE  /\ j - 1 \in DOMAIN t /\ p[j] = t[j - 1]
           /\ Before(t, j - 1, names) \/ x[1] \in names => Before(p, j, names)
<1>1. DOMAIN p = 1 .. Len(p) /\ DOMAIN t = 1 .. Len(t) /\ Len(t) \in Nat /\ Len(p) = Len(t) + 1
      /\ p[1] = x /\ \A i \in 1 .. Len(t) : p[i + 1] = t[i]
  BY DEF Puts
<1>2. j - 1 \in 1 .. Len(t) /\ (j - 1) + 1 = j /\ 1 \in DOMAIN p /\ 1 < j
  BY <1>1
<1>3. p[j] = t[j - 1]
  BY <1>1, <1>2
<1>4. ASSUME NEW i \in DOMAIN t, i < j - 1, t[i][1] \in names PROVE Before(p, j, names)
  <2>1. i + 1 \in DOMAIN p /\ i + 1 < j /\ p[i + 1] = t[i]
    BY <1>1, <1>2, <1>4
  <2> QED
    BY <1>4, <2>1 DEF Before
<1>5. x[1] \in names => Before(p, j, names)
  BY <1>1, <1>2 DEF Before
<1> QED
  BY <1>1, <1>2, <1>3, <1>4, <1>5 DEF Before

LEMMA TailKeeps ==
    ASSUME NEW q, Plan(q), q # <<>>, Once(q)
    PROVE  LET t == Tail(q) IN
           /\ t \in Seq(Step) /\ Once(t) /\ \A j \in DOMAIN t : t[j][1] # "spend"
           /\ Decided(q) => Decided(t)
           /\ q[1][1] \in {"confirm", "spend"} => Decided(t)
           /\ q[1][1] \notin {"confirm", "spend"} /\ Owed(q) => Owed(t)
           /\ q[1][1] # "look" /\ Looked(q) => Looked(t)
           /\ \A w : Alone(w, q) => Alone(w, t)
<1> DEFINE t == Tail(q)
<1>1. q \in Seq(Step) /\ Follows(t, q, 1) /\ 1 \in DOMAIN q /\ DOMAIN q = 1 .. Len(q) /\ Len(q) \in Nat
  BY Shape
<1> HIDE DEF t
<1>2. t \in Seq(Step)
  BY <1>1 DEF Follows
<1>3. Once(t) /\ (\A j \in DOMAIN t : t[j][1] # "spend") /\ (Decided(q) => Decided(t))
  BY <1>1, RestOnce
<1>4. \A j \in DOMAIN t : j + 1 \in DOMAIN q /\ t[j] = q[j + 1] /\ 1 < j + 1
  BY <1>1 DEF Follows
<1>5. ASSUME q[1][1] \in {"confirm", "spend"} PROVE Decided(t)
  <2>1. \A j \in DOMAIN t : Before(q, j + 1, {"confirm", "spend"})
    BY <1>1, <1>4, <1>5 DEF Before
  <2> QED
    BY <1>4, <2>1 DEF Once, Decided
<1>6. ASSUME q[1][1] \notin {"confirm", "spend"}, Owed(q) PROVE Owed(t)
  <2> DEFINE names == {"confirm", "spend"}
  <2>1. \A j \in DOMAIN t : Before(q, j + 1, names) => Before(t, j, names)
    BY <1>1, <1>6, RestBefore
  <2> QED
    BY <1>4, <1>6, <2>1 DEF Owed
<1>7. ASSUME q[1][1] # "look", Looked(q) PROVE Looked(t)
  <2> DEFINE names == {"look"}
  <2>0. q[1][1] \notin names
    BY <1>7
  <2> HIDE DEF names
  <2>1. \A j \in DOMAIN t : Before(q, j + 1, names) => Before(t, j, names)
    BY <1>1, <2>0, RestBefore
  <2> QED
    BY <1>4, <1>7, <2>1 DEF Looked, names
<1>8. \A w : Alone(w, q) => Alone(w, t)
  BY <1>4 DEF Alone
<1> QED
  BY <1>2, <1>3, <1>5, <1>6, <1>7, <1>8 DEF t

LEMMA PutKeeps ==
    ASSUME NEW p, NEW x, NEW t, t \in Seq(Step), Puts(p, x, t), Once(t), \A j \in DOMAIN t : t[j][1] # "spend",
           x[1] \notin Asides \cup Working \cup {"each", "start"}
    PROVE  /\ Once(p) /\ p[1] = x
           /\ Decided(t) => Decided(p)
           /\ Owed(t) => Owed(p)
           /\ Looked(t) => Looked(p)
           /\ \A w : Alone(w, t) => Alone(w, p)
<1>1. p[1] = x /\ \A j \in DOMAIN p : j # 1 => j - 1 \in DOMAIN t /\ p[j] = t[j - 1]
  BY PutBefore DEF Puts
<1>2. Once(p) /\ (Decided(t) => Decided(p))
  BY PutOnce DEF Asides
<1>3. ASSUME Owed(t) PROVE Owed(p)
  <2> DEFINE names == {"confirm", "spend"}
  <2>1. \A j \in DOMAIN p : j # 1 /\ Before(t, j - 1, names) => Before(p, j, names)
    BY PutBefore
  <2> QED
    BY <1>1, <1>3, <2>1 DEF Owed
<1>4. ASSUME Looked(t) PROVE Looked(p)
  <2> DEFINE names == {"look"}
  <2>1. \A j \in DOMAIN p : j # 1 /\ Before(t, j - 1, names) => Before(p, j, names)
    BY PutBefore
  <2> QED
    BY <1>1, <1>4, <2>1 DEF Looked
<1>5. \A w : Alone(w, t) => Alone(w, p)
  BY <1>1 DEF Alone
<1> QED
  BY <1>1, <1>2, <1>3, <1>4, <1>5

\* What settles nothing leaves nothing unsettled.
LEMMA LessKeeps ==
    ASSUME NEW q, NEW p, Plan(q), q # <<>>, Once(q), Less(q, p)
    PROVE  /\ Once(p)
           /\ Decided(q) => Decided(p)
           /\ p # <<>> /\ p[1][1] = "spend" => p = q
           /\ \A w : Alone(w, q) =>
                 Alone(w, p) /\ (Owed(q) => Owed(p)) /\ (Looked(q) => Looked(p))
<1> DEFINE t == Tail(q)
<1>1. t \in Seq(Step) /\ Once(t) /\ (\A j \in DOMAIN t : t[j][1] # "spend") /\ (Decided(q) => Decided(t))
      /\ (q[1][1] \notin {"confirm", "spend"} /\ Owed(q) => Owed(t))
      /\ (q[1][1] # "look" /\ Looked(q) => Looked(t))
      /\ \A w : Alone(w, q) => Alone(w, t)
  BY TailKeeps
<1>2. CASE p = q
  BY <1>2
<1>3. CASE p = <<>>
  BY <1>3 DEF Once, Decided, Alone, Owed, Looked
<1>4. CASE p = t /\ q[1][1] \notin Asides
  <2>1. p # <<>> => 1 \in DOMAIN p
    BY <1>1, <1>4
  <2> HIDE DEF t
  <2> QED
    BY <1>1, <1>4, <2>1 DEF Asides
<1>5. CASE \E x : p = <<x>> /\ x[1] \notin Asides \cup Working \cup {"each", "start"}
  <2>1. PICK x : p = <<x>> /\ x[1] \notin Asides \cup Working \cup {"each", "start"}
    BY <1>5
  <2>2. DOMAIN p = {1} /\ p[1] = x
    BY <2>1
  <2> QED
    BY <2>1, <2>2 DEF Once, Decided, Alone, Owed, Looked, Asides
<1>6. CASE p = <<<<"rooted", 0>>>> \o t /\ q[1][1] = "root"
  <2> DEFINE x == <<"rooted", 0>>
  <2>1. Puts(p, x, t) /\ x[1] \notin Asides \cup Working \cup {"each", "start"} /\ x[1] = "rooted"
    BY <1>6, PlanOfRooted DEF Asides, Working
  <2> HIDE DEF x, t
  <2>2. /\ Once(p) /\ p[1] = x
        /\ Decided(t) => Decided(p)
        /\ Owed(t) => Owed(p)
        /\ Looked(t) => Looked(p)
        /\ \A w : Alone(w, t) => Alone(w, p)
    BY <1>1, <2>1, PutKeeps
  <2> QED
    BY <1>1, <1>6, <2>1, <2>2
<1>7. CASE p = <<<<"strike", q[1][2]>>>> \o SubSeq(q, 5, Len(q)) /\ q[1][1] = "each"
  <2> DEFINE x == <<"strike", q[1][2]>>  u == SubSeq(q, 5, Len(q))
  <2>1. Follows(u, q, 4) /\ Puts(p, x, u) /\ q \in Seq(Step) /\ 1 \in DOMAIN q
    BY <1>7, PlanOfStrike, Shape
  <2>2. x[1] \notin Asides \cup Working \cup {"each", "start"} /\ x[1] = "strike"
    BY DEF Asides, Working
  <2>3. \A w : ~Alone(w, q)
    BY <1>7, <2>1 DEF Alone
  <2> HIDE DEF x, u
  <2>4. u \in Seq(Step) /\ Once(u) /\ (\A j \in DOMAIN u : u[j][1] # "spend") /\ (Decided(q) => Decided(u))
    BY <2>1, RestOnce DEF Follows
  <2>5. Once(p) /\ p[1] = x /\ (Decided(u) => Decided(p))
    BY <2>1, <2>2, <2>4, PutKeeps
  <2> QED
    BY <2>2, <2>3, <2>4, <2>5
<1> QED
  BY <1>2, <1>3, <1>4, <1>5, <1>6, <1>7 DEF Less

-----------------------------------------------------------------------------
(* What the requests remember, and what is known of their tokens.          *)

\* Tokens and the time only come on, and what was spent is remembered.
Grows ==
    /\ clock' \in Nat /\ clock <= clock' /\ DOMAIN tokens' = Request
    /\ \A t \in Request : tokens'[t].exp \in Nat /\ (tokens[t] # NoToken => tokens'[t] = tokens[t])
    /\ \A t \in seen : t \in seen' \/ Expired(t)

Kept(r) ==
    /\ mem'[r].paid = mem[r].paid /\ mem'[r].late = mem[r].late
    /\ mem'[r].parts = mem[r].parts /\ mem'[r].asks = mem[r].asks
    /\ What(r) \in Acl /\ Warned(r) => Warned(r)'

LEMMA GrowsStill ==
    ASSUME TokenShape, UNCHANGED <<clock, tokens, seen>>
    PROVE  Grows
  BY DEF TokenShape, Grows

LEMMA GrowsByIssue ==
    ASSUME TokenShape, NEW r \in Request, at[r] # <<>>, NEW parts, NEW cost, Issue(r, parts, cost)
    PROVE  Grows /\ \A q \in Request \ {r} : tokens'[q] = tokens[q]
<1>1. tokens[r] = NoToken
  BY DEF TokenShape
<1>2. clock' = clock /\ clock + Ttl \in Nat /\ tokens' = [tokens EXCEPT ![r] = [parts |-> parts, exp |-> clock + Ttl]]
  BY GuardAssumption DEF TokenShape, Issue
<1>3. \A t \in seen : t \in seen' \/ Expired(t)
  BY DEF Issue, Live
<1> QED
  BY <1>1, <1>2, <1>3 DEF TokenShape, Grows

LEMMA GrowsBySpending ==
    ASSUME TokenShape, NEW t, Redeem(t) \/ Spent(t)
    PROVE  Grows /\ tokens' = tokens /\ clock' = clock
<1>1. tokens' = tokens /\ clock' = clock
  BY DEF Redeem, Spent
<1>2. \A u \in seen : u \in seen' \/ Expired(u)
  BY DEF Redeem, Spent, Live
<1> QED
  BY <1>1, <1>2 DEF TokenShape, Grows

LEMMA PaidStays ==
    ASSUME Grows, NEW r, Kept(r), Paid(r)
    PROVE  Paid(r)'
  BY DEF Grows, Kept, Paid

LEMMA SpentStays ==
    ASSUME TokenShape, SpentShape, Grows,
           \A q \in Request : mem'[q].paid = mem[q].paid /\ mem'[q].late = mem[q].late
    PROVE  SpentShape'
<1>1. ASSUME NEW r \in Request, mem'[r].paid # None
      PROVE  /\ mem'[r].paid \in Request /\ tokens'[mem'[r].paid] # NoToken
             /\ mem'[r].paid \in seen' \/ Expired(mem[r].paid)'
  <2>1. /\ mem'[r].paid = mem[r].paid /\ mem[r].paid \in Request /\ tokens[mem[r].paid] # NoToken
        /\ mem[r].paid \in seen \/ Expired(mem[r].paid)
    BY <1>1 DEF SpentShape
  <2>2. Expired(mem[r].paid) => Expired(mem[r].paid)'
    BY <2>1 DEF TokenShape, Grows, Expired
  <2> QED
    BY <2>1, <2>2 DEF Grows
<1> QED
  BY <1>1 DEF SpentShape

LEMMA AgreesStays ==
    ASSUME Grows, NEW r \in Request, Agrees(r), Plan(at[r]), UNCHANGED scene, Kept(r),
           at'[r] = at[r] \/ (at[r] # <<>> /\ Less(at[r], at'[r])),
           r \in wiped' => r \in wiped \/ Consented(r), Handled(r) => Handled(r)'
    PROVE  Agrees(r)'
<1>1. /\ Once(at'[r])
      /\ Decided(at[r]) => Decided(at'[r])
      /\ at'[r] # <<>> /\ at'[r][1][1] = "spend" => at'[r] = at[r]
      /\ \A w : Alone(w, at[r]) =>
            Alone(w, at'[r]) /\ (Owed(at[r]) => Owed(at'[r])) /\ (Looked(at[r]) => Looked(at'[r]))
  <2>1. CASE at'[r] = at[r]
    BY <2>1 DEF Agrees
  <2>2. CASE at'[r] # at[r]
    BY <2>2, LessKeeps DEF Agrees
  <2> QED
    BY <2>1, <2>2
<1>2. What(r)' = What(r)
  BY DEF What
<1>3. Shown(r)'
  BY <1>1 DEF Agrees, Shown, Grows, Kept
<1>4. Paid(r) => Paid(r)'
  BY PaidStays
<1>5. What(r) \in Acl /\ Warned(r) => Warned(r)'
  BY DEF Kept
<1>6. mem'[r].asks = mem[r].asks /\ mem'[r].parts = mem[r].parts
  BY DEF Kept
<1>7. What(r)' \in Acl =>
          /\ Alone(What(r)', at'[r]) /\ Warned(r)'
          /\ Owed(at'[r]) \/ ((mem'[r].asks => Paid(r)') /\ Decided(at'[r]))
          /\ Looked(at'[r]) \/ mem'[r].asks
  BY <1>1, <1>2, <1>4, <1>5, <1>6 DEF Agrees
<1>8. r \in wiped' => Handled(r)' /\ Paid(r)' /\ mem'[r].parts[3] \in Destroys /\ Decided(at'[r])
  BY <1>1, <1>4, <1>6 DEF Agrees, Consented
<1>9. Once(at[r])' /\ Alone(What(r), at[r])' = Alone(What(r)', at'[r]) /\ Owed(at[r])' = Owed(at'[r])
      /\ Decided(at[r])' = Decided(at'[r]) /\ Looked(at[r])' = Looked(at'[r])
  BY <1>1 DEF Once, Before, Alone, Owed, Decided, Looked
<1> QED
  BY <1>3, <1>7, <1>8, <1>9 DEF Agrees, Consented

LEMMA ConsentMoves ==
    ASSUME TrailInv, ConsentInv, NEW r \in Request, Grows, UNCHANGED <<scene, aclmode>>,
           Handled(r)', \A q \in Request : Handled(q) => Handled(q)',
           \A q \in Request \ {r} : at'[q] = at[q] /\ Kept(q) /\ tokens'[q] = tokens[q],
           \A q \in wiped' : q \in wiped \/ q = r,
           tokens'[r] # NoToken => at'[r] = <<>>,
           SpentShape', Agrees(r)'
    PROVE  ConsentInv'
<1>1. NoToken' = NoToken
  BY DEF NoToken
<1>2. TokenShape'
  BY <1>1 DEF ConsentInv, TokenShape, Grows
<1>3. ASSUME NEW q \in Request PROVE Agrees(q)'
  <2>1. CASE q = r
    BY <2>1
  <2>2. CASE q # r
    <3>1. Agrees(q) /\ Plan(at[q]) /\ at'[q] = at[q] /\ Kept(q) /\ (q \in wiped' => q \in wiped) /\ (Handled(q) => Handled(q)')
      BY <2>2 DEF ConsentInv, TrailInv, PlanShape
    <3> QED
      BY <3>1, AgreesStays
  <2> QED
    BY <2>1, <2>2
<1> QED
  BY <1>2, <1>3 DEF ConsentInv

\* A step that settles nothing.
LEMMA SilentMoves ==
    ASSUME TrailInv, ConsentInv, NEW r \in Request, NEW p, at[r] # <<>>, Grows, UNCHANGED <<scene, sign, aclmode>>,
           \A q \in wiped' : q \in wiped \/ (q = r /\ Consented(r)),
           Goes(r, p), Less(at[r], p), \A q \in Request : Kept(q),
           \A q \in Request \ {r} : tokens'[q] = tokens[q],
           tokens'[r] # NoToken => p = <<>>
    PROVE  ConsentInv'
<1>1. at'[r] = p /\ \A q \in Request \ {r} : at'[q] = at[q]
  BY DEF Goes, TrailInv
<1>2. SpentShape'
  BY SpentStays DEF ConsentInv, Kept
<1>3. \A q \in Request : Handled(q)' = Handled(q)
  BY DEF Handled
<1>4. Agrees(r)'
  <2>1. Agrees(r) /\ Plan(at[r]) /\ Kept(r) /\ Less(at[r], at'[r]) /\ (Handled(r) => Handled(r)')
    BY <1>1, <1>3 DEF ConsentInv, TrailInv, PlanShape
  <2> QED
    BY <2>1, AgreesStays
<1>5. Handled(r)
  BY AtWork
<1> QED
  BY <1>1, <1>2, <1>3, <1>4, <1>5, ConsentMoves

\* One that leaves the tokens alone, and what is remembered of them.
LEMMA QuietConsent ==
    ASSUME TrailInv, ConsentInv, NEW r \in Request, NEW p, at[r] # <<>>,
           UNCHANGED <<scene, sign, aclmode, clock, tokens, seen>>,
           \A q \in wiped' : q \in wiped \/ (q = r /\ Consented(r)),
           Goes(r, p), Less(at[r], p), \A q \in Request : Kept(q)
    PROVE  ConsentInv'
<1>1. Grows
  BY GrowsStill DEF ConsentInv
<1>2. tokens[r] = NoToken
  BY DEF ConsentInv, TokenShape
<1> QED
  BY <1>1, <1>2, SilentMoves DEF NoToken

-----------------------------------------------------------------------------
(* The steps of a handler, and consent.                                    *)

LEMMA NothingKept ==
    ASSUME UNCHANGED <<mem, scene>>
    PROVE  \A q : Kept(q)
  BY DEF Kept, Warned

LEMMA LessOfCould ==
    ASSUME NEW q, NEW p, NEW refused, Could(q, p, refused), q[1][1] \notin Asides
    PROVE  Less(q, p)
<1>1. CASE \E y \in {"deny", "dismiss", "sorry", "result"} : p = <<<<y, q[1][2]>>>>
  <2>1. PICK y \in {"deny", "dismiss", "sorry", "result"} : p = <<<<y, q[1][2]>>>>
    BY <1>1
  <2> DEFINE x == <<y, q[1][2]>>
  <2>2. p = <<x>> /\ x[1] \notin Asides \cup Working \cup {"each", "start"}
    BY <2>1 DEF Asides, Working
  <2> HIDE DEF x
  <2> QED
    BY <2>2 DEF Less
<1>2. CASE p = Sums
  <2> DEFINE x == <<"sum", 0>>
  <2>1. p = <<x>> /\ x[1] \notin Asides \cup Working \cup {"each", "start"}
    BY <1>2 DEF Sums, Asides, Working
  <2> HIDE DEF x
  <2> QED
    BY <2>1 DEF Less
<1>3. CASE p = q \/ p = <<>> \/ p = Tail(q)
  BY <1>3 DEF Less
<1>4. CASE p = <<<<"spend", q[1][2]>>>> \o Tail(q) /\ q[1][1] = "confirm"
  BY <1>4 DEF Asides
<1>5. CASE \/ p = <<<<"rooted", 0>>>> \o Tail(q) /\ q[1][1] = "root"
           \/ p = <<<<"strike", q[1][2]>>>> \o SubSeq(q, 5, Len(q)) /\ q[1][1] = "each"
  BY <1>5 DEF Less
<1> QED
  BY <1>1, <1>2, <1>3, <1>4, <1>5 DEF Could

LEMMA GoingsAgree ==
    ASSUME TrailInv, ConsentInv, NEW r \in Request, Goings(r), at[r][1][1] \notin Asides,
           UNCHANGED <<mem, wiped, aclmode, clock, tokens, seen>>
    PROVE  ConsentInv'
<1>1. PICK p : Goes(r, p) /\ Could(at[r], p, readOnly)
  BY DEF Goings
<1>2. at[r] # <<>> /\ UNCHANGED <<scene, sign>>
  BY DEF Goings, signVars
<1> QED
  BY <1>1, <1>2, LessOfCould, NothingKept, QuietConsent

LEMMA QuietFrames ==
    ASSUME TrailInv, NEW r \in Request,
           \/ Clear(r) \/ Deny(r) \/ Record(r) \/ Result(r) \/ Each(r) \/ Strike(r) \/ Entry(r) \/ Note(r) \/ Sum(r)
           \/ Slot(r) \/ Bind(r) \/ Body(r) \/ Finalize(r) \/ Root(r) \/ Rooted(r) \/ Submit(r) \/ Sorry(r)
    PROVE  at[r][1][1] \notin Asides /\ UNCHANGED <<mem, wiped, aclmode, clock, tokens, seen>>
<1>1. CASE Clear(r) \/ Each(r) \/ Slot(r) \/ Bind(r) \/ Body(r) \/ Finalize(r) \/ Root(r) \/ Submit(r)
  <2>1. UNCHANGED <<mem, wiped, aclmode, clock, tokens, seen>>
    BY <1>1 DEF Clear, Each, Slot, Bind, Body, Finalize, Root, Submit, history, world, guardVars
  <2>2. PICK x \in {"clear", "each", "slot", "bind", "body", "land", "root", "submit"} : At(r, x)
    BY <1>1 DEF Clear, Each, Slot, Bind, Body, Finalize, Root, Submit
  <2> QED
    BY <2>1, <2>2, AtHead DEF Asides
<1>2. CASE Deny(r) \/ Record(r) \/ Result(r) \/ Strike(r) \/ Entry(r) \/ Sum(r) \/ Rooted(r)
  <2>1. UNCHANGED <<mem, wiped, aclmode, clock, tokens, seen>>
    BY <1>2 DEF Deny, Record, Result, Strike, Entry, Sum, Rooted, Asks, history, world, guardVars
  <2>2. PICK x \in {"deny", "record", "result", "strike", "entry", "sum", "rooted"} : At(r, x)
    BY <1>2 DEF Deny, Record, Result, Strike, Entry, Sum, Rooted
  <2> QED
    BY <2>1, <2>2, AtHead DEF Asides
<1>3. CASE Note(r) \/ Sorry(r)
  <2>1. UNCHANGED <<mem, wiped, aclmode, clock, tokens, seen>>
    BY <1>3 DEF Note, Sorry, world, guardVars
  <2>2. PICK x \in {"note", "sorry"} : At(r, x)
    BY <1>3 DEF Note, Sorry
  <2> QED
    BY <2>1, <2>2, AtHead DEF Asides
<1> QED
  BY <1>1, <1>2, <1>3

LEMMA LessOfFailure ==
    ASSUME NEW q, NEW n, NEW y \in {"deny", "dismiss", "result", "failed", "undo"}
    PROVE  Less(q, <<<<y, n>>>>)
<1> DEFINE z == <<y, n>>
<1>1. z[1] \notin Asides \cup Working \cup {"each", "start"}
  BY DEF Asides, Working
<1> HIDE DEF z
<1>2. Less(q, <<z>>)
  BY <1>1 DEF Less
<1> QED
  BY <1>2 DEF z

\* The settings ask for no consent.
LEMMA SettingsAgree ==
    ASSUME TrailInv, ConsentInv, NEW r \in Request,
           Locks(r) \/ Intends(r) \/ Saves(r) \/ Failed(r) \/ Applies(r) \/ Reports(r) \/ Undoes(r)
    PROVE  ConsentInv'
<1>1. PICK x \in Locked \cup {"lock"} : At(r, x)
  BY DEF Locks, Intends, Saves, Failed, Applies, Reports, Undoes, Locked
<1>2. at[r] # <<>> /\ at[r][1][1] = x /\ x \notin Asides
      /\ Onward(r) = Goes(r, Tail(at[r])) /\ Over(r) = Goes(r, <<>>)
      /\ \A y : Turns(r, y) = Goes(r, <<<<y, at[r][1][2]>>>>)
  BY <1>1, AtHead DEF Locked, Asides
<1>3. UNCHANGED <<scene, sign>>
  BY LockFrames DEF signVars
<1>4. UNCHANGED <<mem, wiped, aclmode, clock, tokens, seen>>
  <2>1. CASE Locks(r) \/ Intends(r) \/ Failed(r) \/ Reports(r)
    BY <2>1 DEF Locks, Intends, Failed, Reports, Asks, history, world, guardVars
  <2>2. CASE Saves(r) \/ Applies(r) \/ Undoes(r)
    BY <2>2 DEF Saves, Applies, Undoes, reconcileReadOnly, Sets, SetReadOnly, world, guardVars
  <2> QED
    BY <2>1, <2>2
<1>5. \E p : Goes(r, p) /\ Less(at[r], p)
  <2>1. Less(at[r], at[r]) /\ Less(at[r], <<>>) /\ Less(at[r], Tail(at[r]))
    BY <1>2 DEF Less
  <2>2. \A y \in {"failed", "undo"} : Less(at[r], <<<<y, at[r][1][2]>>>>)
    BY LessOfFailure
  <2>3. UNCHANGED at => Goes(r, at[r])
    BY DEF Goes, TrailInv
  <2>4. CASE Locks(r) \/ Intends(r) \/ Failed(r) \/ Reports(r)
    BY <1>2, <2>1, <2>2, <2>3, <2>4 DEF Locks, Intends, Failed, Reports, Asks
  <2>5. CASE Saves(r) \/ Applies(r) \/ Undoes(r)
    BY <1>2, <2>1, <2>2, <2>5 DEF Saves, Applies, Undoes
  <2> QED
    BY <2>4, <2>5
<1>6. PICK p : Goes(r, p) /\ Less(at[r], p)
  BY <1>5
<1> QED
  BY <1>2, <1>3, <1>4, <1>6, NothingKept, QuietConsent

\* What a handler that gathered its facts has to say of the ACL.
LEMMA GatheredConsent ==
    ASSUME NEW r \in Request, Gathers(r), aclmode \in {"keeps", "discards"}
    PROVE  \E v :
        /\ mem' = [mem EXCEPT ![r] = v] /\ v.paid = None
        /\ What(r) = "jobChmod" => v.asks
        /\ What(r) \in Acl /\ v.was = "discards" =>
              v.expect = "trivial" \/ (v.asks /\ v.parts[3] \in Destroys)
<1>1. PICK asks \in Of(r).asks, big \in Of(r).big, mode \in Modes, state \in States(What(r)) :
        LET acls == What(r) \in {"chmod", "jobChmod"}
            verdict == IF acls THEN aclVerdict(state, mode) ELSE "none"
            parts == tokenParts(r, verdict) IN
        \E scan \in Scans(r, parts) :
            /\ ~acls => mode = aclmode /\ state = "unknown"
            /\ mem' = [mem EXCEPT ![r] =
                 [Blank EXCEPT !.parts = parts, !.big = big \/ verdict \in Destroys \/ scan = "many",
                               !.cost = IF What(r) = "empty" THEN "unmeasured" ELSE scan,
                               !.asks = \/ asks \/ verdict # "none" \/ scan = "many"
                                        \/ Verdict(r) = "confirm"
                                        \/ /\ What(r) \in {"chmod", "jobChmod", "jobTransfer"}
                                           /\ scene.shows[r] # None,
                               !.expect = IF state = "unknown" \/ What(r) # "chmod" THEN "anything" ELSE state,
                               !.mode = mode, !.was = aclmode]]
  BY Zenon DEF Gathers
<1> DEFINE acls == What(r) \in {"chmod", "jobChmod"}
           verdict == IF acls THEN aclVerdict(state, mode) ELSE "none"
           parts == tokenParts(r, verdict)
<1>2. PICK scan \in Scans(r, parts) :
            /\ ~acls => mode = aclmode /\ state = "unknown"
            /\ mem' = [mem EXCEPT ![r] =
                 [Blank EXCEPT !.parts = parts, !.big = big \/ verdict \in Destroys \/ scan = "many",
                               !.cost = IF What(r) = "empty" THEN "unmeasured" ELSE scan,
                               !.asks = \/ asks \/ verdict # "none" \/ scan = "many"
                                        \/ Verdict(r) = "confirm"
                                        \/ /\ What(r) \in {"chmod", "jobChmod", "jobTransfer"}
                                           /\ scene.shows[r] # None,
                               !.expect = IF state = "unknown" \/ What(r) # "chmod" THEN "anything" ELSE state,
                               !.mode = mode, !.was = aclmode]]
  BY <1>1, Zenon
<1> DEFINE heavy == big \/ verdict \in Destroys \/ scan = "many"
           cost == IF What(r) = "empty" THEN "unmeasured" ELSE scan
           ask == \/ asks \/ verdict # "none" \/ scan = "many"
                  \/ Verdict(r) = "confirm"
                  \/ /\ What(r) \in {"chmod", "jobChmod", "jobTransfer"}
                     /\ scene.shows[r] # None
           expect == IF state = "unknown" \/ What(r) # "chmod" THEN "anything" ELSE state
           v == [Blank EXCEPT !.parts = parts, !.big = heavy, !.cost = cost, !.asks = ask,
                              !.expect = expect, !.mode = mode, !.was = aclmode]
<1>3. mem' = [mem EXCEPT ![r] = v]
  BY <1>2
<1>4. mode \in {"keeps", "discards", "unknown"} /\ (aclmode = "discards" => mode \in Destroys)
  BY DEF Modes, Destroys
<1>5. parts[3] = verdict
  BY DEF tokenParts
<1>6. What(r) = "jobChmod" => state = "unknown"
  BY DEF States
<1>7. What(r) \in Acl => (verdict = mode \/ state = "trivial") /\ (state # "trivial" => ask)
  BY <1>4 DEF Acl, aclVerdict
<1> HIDE DEF ask, expect, parts, verdict, heavy, cost
<1>8. v.paid = None /\ v.asks = ask /\ v.was = aclmode /\ v.expect = expect /\ v.parts = parts
  BY DEF Blank
<1>9. What(r) = "jobChmod" => v.asks
  BY <1>6, <1>7, <1>8 DEF Acl
<1>10. ASSUME What(r) \in Acl, v.was = "discards"
       PROVE  v.expect = "trivial" \/ (v.asks /\ v.parts[3] \in Destroys)
  <2>1. CASE state = "trivial"
    <3>1. What(r) = "chmod"
      BY <1>6, <1>10, <2>1 DEF Acl
    <3>2. expect = "trivial"
      BY <2>1, <3>1 DEF expect
    <3> QED
      BY <1>8, <3>2
  <2>2. CASE state # "trivial"
    <3>1. ask /\ verdict = mode /\ mode \in Destroys
      BY <1>4, <1>7, <1>8, <1>10, <2>2
    <3> QED
      BY <1>5, <1>8, <3>1
  <2> QED
    BY <2>1, <2>2
<1> HIDE DEF v
<1> QED
  BY <1>3, <1>8, <1>9, <1>10

\* A request that decides anew has paid for nothing.
LEMMA DecidesAnew ==
    ASSUME TrailInv, ConsentInv, NEW r \in Request, at[r] # <<>>, at[r][1][1] \in {"look", "seal"},
           Goes(r, Tail(at[r])), UNCHANGED <<guardVars, scene, sign, aclmode, wiped>>,
           NEW v, mem' = [mem EXCEPT ![r] = v], v.paid = None,
           at[r][1][1] = "seal" \/ What(r) = "jobChmod" => v.asks,
           What(r) \in Acl /\ v.was = "discards" => v.expect = "trivial" \/ (v.asks /\ v.parts[3] \in Destroys)
    PROVE  ConsentInv'
<1> DEFINE q == at[r]  t == Tail(at[r])
<1>1. Plan(q) /\ q # <<>> /\ Once(q) /\ Handled(r) /\ 1 \in DOMAIN q /\ Agrees(r)
  BY AtWork, Shape DEF ConsentInv, Agrees, TrailInv, PlanShape
<1>2. /\ t \in Seq(Step) /\ Once(t) /\ \A j \in DOMAIN t : t[j][1] # "spend"
      /\ q[1][1] \notin {"confirm", "spend"} /\ Owed(q) => Owed(t)
      /\ q[1][1] # "look" /\ Looked(q) => Looked(t)
      /\ \A w : Alone(w, q) => Alone(w, t)
  BY <1>1, TailKeeps
<1>3. mem'[r] = v /\ at'[r] = t /\ \A o \in Request \ {r} : at'[o] = at[o] /\ mem'[o] = mem[o]
  BY DEF Goes, TrailInv, MemShape
<1>4. Grows /\ UNCHANGED <<tokens, clock, seen>> /\ tokens[r] = NoToken
  BY <1>1, GrowsStill DEF ConsentInv, TokenShape, guardVars
<1>5. \A o \in Request \ {r} : Kept(o)
  BY <1>3 DEF Kept, Warned
<1>6. \A o : What(o)' = What(o) /\ Handled(o)' = Handled(o)
  BY DEF What, Handled
<1>7. ~Decided(q)
  BY <1>1 DEF Decided, Asides
<1>8. SpentShape'
  BY <1>3, <1>4 DEF ConsentInv, SpentShape, Expired
<1>9. Shown(r)'
  <2>1. t # <<>> => 1 \in DOMAIN t
    BY <1>2
  <2> HIDE DEF t
  <2> QED
    BY <1>2, <1>3, <2>1 DEF Shown
<1>10. r \notin wiped'
  BY <1>1, <1>7 DEF Agrees, Consented
<1>11. ASSUME What(r) \in Acl
       PROVE  Alone(What(r), t) /\ Owed(t) /\ (Looked(t) \/ v.asks) /\ Warned(r)'
  <2>1. Alone(What(r), t) /\ Owed(t)
    BY <1>1, <1>2, <1>7, <1>11 DEF Agrees
  <2>2. Looked(t) \/ v.asks
    <3>1. CASE What(r) = "chmod"
      <4> HIDE DEF t
      <4> QED
        BY <2>1, <3>1 DEF Alone, Looked
    <3>2. CASE What(r) = "jobChmod"
      BY <3>2
    <3> QED
      BY <1>11, <3>1, <3>2 DEF Acl
  <2>3. Warned(r)'
    BY <1>3, <1>11 DEF Warned
  <2> QED
    BY <2>1, <2>2, <2>3
<1>12. Agrees(r)'
  <2> HIDE DEF t, q
  <2>1. Once(at[r])' /\ Alone(What(r), at[r])' = Alone(What(r), t) /\ Owed(at[r])' = Owed(t) /\ Looked(at[r])' = Looked(t)
    BY <1>2, <1>3, <1>6 DEF Once, Before, Alone, Owed, Looked
  <2> QED
    BY <1>3, <1>6, <1>9, <1>10, <1>11, <2>1 DEF Agrees
<1> QED
  BY <1>1, <1>3, <1>4, <1>5, <1>6, <1>8, <1>12, ConsentMoves

\* A request that is over, or refused.
LEMMA Refused ==
    ASSUME TrailInv, ConsentInv, NEW r \in Request, at[r] # <<>>, UNCHANGED <<guardVars, scene, sign, aclmode, wiped, mem>>,
           Goes(r, <<>>) \/ \E y \in {"deny", "dismiss", "result"} : Goes(r, <<<<y, at[r][1][2]>>>>)
    PROVE  ConsentInv'
<1>1. UNCHANGED <<clock, tokens, seen>>
  BY DEF guardVars
<1>2. CASE Goes(r, <<>>)
  <2>1. Less(at[r], <<>>)
    BY DEF Less
  <2> QED
    BY <1>1, <1>2, <2>1, NothingKept, QuietConsent
<1>3. CASE \E y \in {"deny", "dismiss", "result"} : Goes(r, <<<<y, at[r][1][2]>>>>)
  <2>1. PICK y \in {"deny", "dismiss", "result"} : Goes(r, <<<<y, at[r][1][2]>>>>)
    BY <1>3
  <2>2. Less(at[r], <<<<y, at[r][1][2]>>>>)
    BY LessOfFailure
  <2> QED
    BY <1>1, <2>1, <2>2, NothingKept, QuietConsent
<1> QED
  BY <1>2, <1>3

LEMMA LookAgrees ==
    ASSUME TrailInv, ConsentInv, NEW r \in Request, Look(r)
    PROVE  ConsentInv'
<1>1. /\ at[r] # <<>> /\ at[r][1][1] = "look"
      /\ Over(r) = Goes(r, <<>>) /\ Turns(r, "deny") = Goes(r, <<<<"deny", at[r][1][2]>>>>) /\ Onward(r) = Goes(r, Tail(at[r]))
  BY AtHead DEF Look
<1>2. UNCHANGED <<guardVars, scene, sign, aclmode, wiped>>
  BY DEF Look, world, history, signVars
<1>3. CASE UNCHANGED mem /\ (Over(r) \/ Turns(r, "deny"))
  BY <1>1, <1>2, <1>3, Refused
<1>4. CASE Gathers(r) /\ Onward(r)
  <2>1. PICK v :
        /\ mem' = [mem EXCEPT ![r] = v] /\ v.paid = None
        /\ What(r) = "jobChmod" => v.asks
        /\ What(r) \in Acl /\ v.was = "discards" =>
              v.expect = "trivial" \/ (v.asks /\ v.parts[3] \in Destroys)
    BY <1>4, GatheredConsent DEF ConsentInv
  <2> QED
    BY <1>1, <1>2, <1>4, <2>1, DecidesAnew
<1> QED
  BY <1>3, <1>4 DEF Look

LEMMA SealAgrees ==
    ASSUME TrailInv, ConsentInv, NEW r \in Request, Seal(r)
    PROVE  ConsentInv'
<1>1. /\ at[r] # <<>> /\ at[r][1][1] = "seal"
      /\ Over(r) = Goes(r, <<>>) /\ Turns(r, "deny") = Goes(r, <<<<"deny", at[r][1][2]>>>>) /\ Onward(r) = Goes(r, Tail(at[r]))
  BY AtHead DEF Seal
<1>2. UNCHANGED <<guardVars, scene, sign, aclmode, wiped>>
  BY DEF Seal, world, history, signVars
<1>3. CASE UNCHANGED mem /\ (Over(r) \/ Turns(r, "deny"))
  BY <1>1, <1>2, <1>3, Refused
<1>4. CASE ~(UNCHANGED mem /\ (Over(r) \/ Turns(r, "deny")))
  <2>1. Onward(r) /\ \E parts, cost, big :
            mem' = [mem EXCEPT ![r] = [Blank EXCEPT !.parts = parts, !.asks = TRUE, !.cost = cost, !.big = big]]
    BY <1>4, Zenon DEF Seal
  <2>2. PICK parts, cost, big :
            mem' = [mem EXCEPT ![r] = [Blank EXCEPT !.parts = parts, !.asks = TRUE, !.cost = cost, !.big = big]]
    BY <2>1
  <2> DEFINE v == [Blank EXCEPT !.parts = parts, !.asks = TRUE, !.cost = cost, !.big = big]
  <2>3. v.paid = None /\ v.asks /\ v.was = "unread"
    BY DEF Blank
  <2>4. mem' = [mem EXCEPT ![r] = v]
    BY <2>2
  <2> HIDE DEF v
  <2> QED
    BY <1>1, <1>2, <2>1, <2>3, <2>4, DecidesAnew
<1> QED
  BY <1>3, <1>4

\* A confirmation that is not owed is passed; one that is shown is spent next.
LEMMA ConfirmAgrees ==
    ASSUME TrailInv, ConsentInv, NEW r \in Request, Confirm(r)
    PROVE  ConsentInv'
<1> DEFINE q == at[r]  t == Tail(at[r])  s == scene.shows[r]
<1>1. /\ at[r] # <<>> /\ at[r][1][1] = "confirm" /\ N(r) = at[r][1][2]
      /\ Onward(r) = Goes(r, t) /\ Over(r) = Goes(r, <<>>) /\ Turns(r, "dismiss") = Goes(r, <<<<"dismiss", at[r][1][2]>>>>)
  BY AtHead DEF Confirm
<1>2. UNCHANGED <<scene, sign, aclmode, mem, wiped>>
  BY DEF Confirm, signVars, world
<1>3. Plan(q) /\ q # <<>> /\ Once(q) /\ Handled(r) /\ 1 \in DOMAIN q /\ Agrees(r) /\ tokens[r] = NoToken
  BY <1>1, AtWork, Shape DEF ConsentInv, TokenShape, Agrees, TrailInv, PlanShape
<1>4. /\ t \in Seq(Step) /\ Once(t) /\ (\A j \in DOMAIN t : t[j][1] # "spend") /\ Decided(t)
      /\ (Looked(q) => Looked(t)) /\ \A w : Alone(w, q) => Alone(w, t)
  BY <1>1, <1>3, TailKeeps
<1>5. r \notin wiped
  BY <1>1, <1>3 DEF Agrees, Consented, Decided, Asides
<1>6. ASSUME UNCHANGED guardVars, NEW p, Goes(r, p), Once(p),
             What(r) \in Acl => Alone(What(r), p) /\ (Looked(t) => Looked(p)),
             Owed(p) \/ (~mem[r].asks /\ Decided(p)),
             p # <<>> /\ p[1][1] = "spend" =>
                 s # None /\ s \in Request /\ tokens[s] # NoToken /\ tokens[s].parts = mem[r].parts
      PROVE  ConsentInv'
  <2>1. at'[r] = p /\ \A o \in Request \ {r} : at'[o] = at[o]
    BY <1>6 DEF Goes, TrailInv
  <2>2. UNCHANGED <<tokens, clock, seen>>
    BY <1>6 DEF guardVars
  <2>3. Grows
    BY <2>2, GrowsStill DEF ConsentInv
  <2>4. SpentShape'
    BY <1>2, <2>3, SpentStays DEF ConsentInv
  <2>5. \A o : What(o)' = What(o) /\ Handled(o)' = Handled(o) /\ Kept(o)
    BY <1>2, NothingKept DEF What, Handled
  <2>6. Warned(r)' = Warned(r)
    BY <1>2 DEF Warned
  <2>7. Shown(r)'
    BY <1>2, <1>6, <2>1, <2>2 DEF Shown, NoToken
  <2>8. Agrees(r)'
    <3> HIDE DEF t, q, s
    <3>1. /\ Once(at[r])' = Once(p) /\ Alone(What(r), at[r])' = Alone(What(r), p)
          /\ Owed(at[r])' = Owed(p) /\ Looked(at[r])' = Looked(p) /\ Decided(at[r])' = Decided(p)
      BY <2>1, <2>5 DEF Once, Before, Alone, Owed, Looked, Decided
    <3>2. What(r) \in Acl => Warned(r) /\ (Looked(p) \/ mem[r].asks)
      BY <1>3, <1>4, <1>6 DEF Agrees, q
    <3> QED
      BY <1>2, <1>5, <1>6, <2>5, <2>6, <2>7, <3>1, <3>2 DEF Agrees
  <2> QED
    BY <1>2, <1>3, <2>1, <2>2, <2>3, <2>4, <2>5, <2>8, ConsentMoves DEF NoToken
<1>7. CASE ~mem[r].asks /\ Onward(r) /\ UNCHANGED guardVars
  <2>1. t # <<>> => 1 \in DOMAIN t
    BY <1>4
  <2>2. What(r) \in Acl => Alone(What(r), t)
    BY <1>3, <1>4 DEF Agrees
  <2> HIDE DEF t
  <2> QED
    BY <1>1, <1>4, <1>6, <1>7, <2>1, <2>2
<1>8. CASE Issue(r, mem[r].parts, mem[r].cost) /\ Over(r)
  <2>1. Grows /\ \A o \in Request \ {r} : tokens'[o] = tokens[o]
    BY <1>1, <1>8, GrowsByIssue DEF ConsentInv
  <2>2. Less(at[r], <<>>)
    BY DEF Less
  <2> QED
    BY <1>1, <1>2, <1>8, <2>1, <2>2, NothingKept, SilentMoves
<1>9. CASE s # None /\ verifyToken(s, mem[r].parts) /\ UNCHANGED guardVars /\ Goes(r, <<<<"spend", N(r)>>>> \o t)
  <2> DEFINE x == <<"spend", at[r][1][2]>>  p == <<x>> \o t
  <2>1. Puts(p, x, t)
    BY <1>1, <1>3, PlanOfSpend
  <2>2. x[1] = "spend"
    OBVIOUS
  <2>3. s \in Request /\ tokens[s] # NoToken /\ tokens[s].parts = mem[r].parts
    BY <1>9, SceneAssumption DEF verifyToken, TrailInv
  <2>4. Goes(r, p)
    BY <1>1, <1>9
  <2>5. What(r) \in Acl => Alone(What(r), t)
    BY <1>3, <1>4 DEF Agrees
  <2> HIDE DEF x, p, t, s
  <2>6. p[1] = x /\ \A j \in DOMAIN p : j # 1 => j - 1 \in DOMAIN t /\ p[j] = t[j - 1]
    BY <1>4, <2>1, PutBefore DEF Puts
  <2>7. Once(p)
    BY <1>4, <2>1, PutOnce
  <2>8. Owed(p)
    <3> DEFINE names == {"confirm", "spend"}
    <3>0. x[1] \in names
      BY <2>2
    <3> HIDE DEF names
    <3>1. \A j \in DOMAIN p : j # 1 => Before(p, j, names)
      BY <1>4, <2>1, <3>0, PutBefore
    <3>2. p[1][1] \notin Working
      BY <2>2, <2>6 DEF Working
    <3> QED
      BY <3>1, <3>2 DEF Owed, names
  <2>9. Looked(t) => Looked(p)
    <3> DEFINE names == {"look"}
    <3>1. \A j \in DOMAIN p : j # 1 /\ Before(t, j - 1, names) => Before(p, j, names)
      BY <1>4, <2>1, PutBefore
    <3> QED
      BY <2>2, <2>6, <3>1 DEF Looked
  <2>10. What(r) \in Acl => Alone(What(r), p)
    BY <2>2, <2>5, <2>6 DEF Alone
  <2> QED
    BY <1>6, <1>9, <2>3, <2>4, <2>7, <2>8, <2>9, <2>10
<1>10. CASE UNCHANGED guardVars /\ Turns(r, "dismiss")
  BY <1>1, <1>2, <1>10, Refused
<1> QED
  BY <1>7, <1>8, <1>9, <1>10 DEF Confirm

\* A token that is spent a second time had expired before.
LEMMA SpendsAgrees ==
    ASSUME TrailInv, ConsentInv, NEW r \in Request, Spends(r)
    PROVE  ConsentInv'
<1> DEFINE q == at[r]  t == Tail(at[r])  s == scene.shows[r]
<1>1. /\ at[r] # <<>> /\ at[r][1][1] = "spend"
      /\ Onward(r) = Goes(r, t) /\ Turns(r, "dismiss") = Goes(r, <<<<"dismiss", at[r][1][2]>>>>)
  BY AtHead DEF Spends
<1>2. UNCHANGED <<scene, sign, aclmode, wiped>>
  BY DEF Spends, signVars, world, history
<1>3. Plan(q) /\ q # <<>> /\ Once(q) /\ Handled(r) /\ 1 \in DOMAIN q /\ Agrees(r) /\ tokens[r] = NoToken
  BY <1>1, AtWork, Shape DEF ConsentInv, TokenShape, Agrees, TrailInv, PlanShape
<1>4. /\ t \in Seq(Step) /\ Once(t) /\ (\A j \in DOMAIN t : t[j][1] # "spend") /\ Decided(t)
      /\ (Looked(q) => Looked(t)) /\ \A w : Alone(w, q) => Alone(w, t)
  BY <1>1, <1>3, TailKeeps
<1>5. s # None /\ s \in Request /\ tokens[s] # NoToken /\ tokens[s].parts = mem[r].parts
  BY <1>1, <1>3 DEF Agrees, Shown
<1>6. r \notin wiped
  BY <1>1, <1>3 DEF Agrees, Consented, Decided, Asides
<1>7. CASE Redeem(s) /\ Onward(r) /\ mem' = [mem EXCEPT ![r] = [@ EXCEPT !.paid = s, !.late = Expired(s)]]
  <2> DEFINE v == [mem[r] EXCEPT !.paid = s, !.late = Expired(s)]
  <2>1. Grows /\ tokens' = tokens /\ clock' = clock
    BY <1>7, GrowsBySpending DEF ConsentInv
  <2>2. mem' = [mem EXCEPT ![r] = v] /\ DOMAIN mem = Request /\ DOMAIN mem[r] = DOMAIN Blank
    BY <1>7 DEF TrailInv, MemShape
  <2>3. /\ v.paid = s /\ v.late = Expired(s) /\ v.parts = mem[r].parts /\ v.asks = mem[r].asks
        /\ v.was = mem[r].was /\ v.expect = mem[r].expect
    BY <2>2 DEF Blank
  <2>4. at'[r] = t /\ \A o \in Request \ {r} : at'[o] = at[o]
    BY <1>1, <1>7 DEF Goes, TrailInv
  <2>5. s \in seen' /\ (s \notin seen \/ Expired(s))
    BY <1>7 DEF Redeem, Live
  <2>6. \A o \in seen : o \in seen' \/ Expired(o)
    BY <2>1 DEF Grows
  <2> HIDE DEF v, t, s
  <2>7. mem'[r] = v /\ \A o \in Request \ {r} : mem'[o] = mem[o]
    BY <2>2
  <2>8. \A o \in Request : What(o)' = What(o) /\ Handled(o)' = Handled(o)
    BY <1>2 DEF What, Handled
  <2>9. \A o \in Request \ {r} : Kept(o)
    BY <2>7 DEF Kept, Warned
  <2>10. SpentShape'
    <3>1. ASSUME NEW o \in Request, mem'[o].paid # None
          PROVE  mem'[o].paid \in Request /\ tokens'[mem'[o].paid] # NoToken
      <4>1. CASE o = r
        BY <1>5, <2>1, <2>3, <2>7, <4>1
      <4>2. CASE o # r
        BY <2>1, <2>7, <3>1, <4>2 DEF ConsentInv, SpentShape
      <4> QED
        BY <4>1, <4>2
    <3>2. ASSUME NEW o \in Request, mem'[o].paid # None
          PROVE  mem'[o].paid \in seen' \/ Expired(mem[o].paid)'
      <4>1. CASE o = r
        BY <2>3, <2>5, <2>7, <4>1
      <4>2. CASE o # r
        <5>1. mem[o].paid \in Request /\ (mem[o].paid \in seen \/ Expired(mem[o].paid)) /\ mem'[o].paid = mem[o].paid
          BY <2>7, <3>2, <4>2 DEF ConsentInv, SpentShape
        <5>2. Expired(mem[o].paid)' = Expired(mem[o].paid)
          BY <2>1, <5>1 DEF Expired
        <5> QED
          BY <2>6, <5>1, <5>2
      <4> QED
        BY <4>1, <4>2
    <3>3. ASSUME NEW o \in Request, o # r, mem'[o].paid = s PROVE mem'[r].late
      <4>1. mem[o].paid = s
        BY <2>7, <3>3
      <4>2. s \in seen \/ Expired(s)
        BY <1>5, <4>1 DEF ConsentInv, SpentShape
      <4> QED
        BY <2>3, <2>5, <2>7, <4>2
    <3>4. ASSUME NEW o \in Request, NEW u \in Request, o # u, mem'[o].paid = mem'[u].paid, mem'[o].paid # None
          PROVE  mem'[o].late \/ mem'[u].late
      <4>1. CASE o = r
        BY <2>3, <2>7, <3>3, <3>4, <4>1
      <4>2. CASE u = r
        BY <2>3, <2>7, <3>3, <3>4, <4>2
      <4>3. CASE o # r /\ u # r
        BY <2>7, <3>4, <4>3 DEF ConsentInv, SpentShape
      <4> QED
        BY <4>1, <4>2, <4>3
    <3>5. NoToken' = NoToken
      BY DEF NoToken
    <3> QED
      BY <3>1, <3>2, <3>4, <3>5 DEF SpentShape
  <2>11. Paid(r)'
    BY <1>5, <2>1, <2>3, <2>7 DEF Paid
  <2>12. Shown(r)'
    <3>1. t # <<>> => 1 \in DOMAIN t
      BY <1>4
    <3> QED
      BY <1>4, <2>4, <3>1 DEF Shown
  <2>13. Warned(r)' = Warned(r)
    BY <2>3, <2>7 DEF Warned
  <2>14. Agrees(r)'
    <3>1. /\ Once(at[r])' = Once(t) /\ Alone(What(r), at[r])' = Alone(What(r), t)
          /\ Looked(at[r])' = Looked(t) /\ Decided(at[r])' = Decided(t)
      BY <2>4, <2>8 DEF Once, Before, Alone, Looked, Decided
    <3>2. What(r) \in Acl => Warned(r) /\ Alone(What(r), t) /\ (Looked(t) \/ mem[r].asks)
      BY <1>3, <1>4 DEF Agrees
    <3> QED
      BY <1>2, <1>4, <1>6, <2>3, <2>7, <2>8, <2>11, <2>12, <2>13, <3>1, <3>2 DEF Agrees
  <2> QED
    BY <1>2, <1>3, <2>1, <2>4, <2>8, <2>9, <2>10, <2>14, ConsentMoves
<1>8. CASE Spent(s) /\ Turns(r, "dismiss") /\ UNCHANGED mem
  <2>1. Grows /\ tokens' = tokens
    BY <1>8, GrowsBySpending DEF ConsentInv
  <2>2. Less(at[r], <<<<"dismiss", at[r][1][2]>>>>)
    BY LessOfFailure
  <2> QED
    BY <1>1, <1>2, <1>3, <1>8, <2>1, <2>2, NothingKept, SilentMoves
<1> QED
  BY <1>7, <1>8 DEF Spends

LEMMA TurnsAwayAgrees ==
    ASSUME TrailInv, ConsentInv, NEW r \in Request, TurnsAway(r)
    PROVE  ConsentInv'
<1>1. at[r] # <<>> /\ at[r][1][1] = "dismiss" /\ Over(r) = Goes(r, <<>>)
  BY AtHead DEF TurnsAway
<1>2. "dismiss" \notin Asides
  BY DEF Asides
<1>3. CASE Asks(r, "denied")
  <2>1. UNCHANGED <<mem, wiped, aclmode, clock, tokens, seen>>
    BY <1>3 DEF Asks, world, guardVars
  <2> QED
    BY <1>1, <1>2, <2>1, TurnsAwayGoes, GoingsAgree
<1>4. CASE Over(r) /\ Issue(r, mem[r].parts, mem[r].cost) /\ UNCHANGED <<signVars, world, config, history, mem>>
  <2>1. UNCHANGED <<scene, sign, aclmode, wiped, mem>>
    BY <1>4 DEF signVars, world, history
  <2>2. Grows /\ \A q \in Request \ {r} : tokens'[q] = tokens[q]
    BY <1>1, <1>4, GrowsByIssue DEF ConsentInv
  <2>3. Less(at[r], <<>>)
    BY DEF Less
  <2> QED
    BY <1>1, <1>4, <2>1, <2>2, <2>3, NothingKept, SilentMoves
<1> QED
  BY <1>3, <1>4 DEF TurnsAway

\* An ACL goes only where the request was told so, and paid.
LEMMA WorksAgrees ==
    ASSUME TrailInv, ConsentInv, NEW r \in Request, Call(r) \/ Open(r)
    PROVE  ConsentInv'
<1>1. PICK x \in Working : At(r, x)
  BY DEF Call, Open, Working
<1>2. /\ at[r] # <<>> /\ at[r][1][1] \in Working /\ at[r][1][1] \notin Asides
      /\ Onward(r) = Goes(r, Tail(at[r])) /\ Turns(r, "result") = Goes(r, <<<<"result", at[r][1][2]>>>>)
  BY <1>1, AtHead DEF Working, Asides
<1>3. UNCHANGED <<mem, aclmode, clock, tokens, seen, scene, sign>>
  BY DEF Call, Open, guardVars, signVars
<1>4. PICK p : Goes(r, p) /\ Less(at[r], p)
  <2>1. Less(at[r], Tail(at[r])) /\ Less(at[r], <<<<"result", at[r][1][2]>>>>)
    BY <1>2, LessOfFailure DEF Less
  <2> QED
    BY <1>2, <2>1 DEF Call, Open
<1>5. \A q \in wiped' : q \in wiped \/ (q = r /\ Consented(r))
  <2>1. CASE wiped' = wiped
    BY <2>1
  <2>2. CASE wiped' # wiped
    <3>1. Works(r)
      BY <2>2 DEF Call, Open, NotDone
    <3>2. /\ What(r) \in Acl /\ acl = "acl" /\ mem[r].was = "discards" /\ wiped' = wiped \cup {r}
          /\ mem[r].expect \in {"anything", acl}
      BY <2>2, <3>1 DEF Works, Acl
    <3>3. Agrees(r) /\ Plan(at[r]) /\ 1 \in DOMAIN at[r] /\ Handled(r) /\ DOMAIN at[r] = 1 .. Len(at[r])
      BY <1>2, AtWork, Shape DEF ConsentInv, TrailInv, PlanShape
    <3>4. ~Owed(at[r])
      BY <1>2, <3>3 DEF Owed, Before
    <3>5. Decided(at[r]) /\ (mem[r].asks => Paid(r)) /\ Warned(r)
      BY <3>2, <3>3, <3>4 DEF Agrees
    <3>6. mem[r].asks /\ mem[r].parts[3] \in Destroys
      BY <3>2, <3>5 DEF Warned
    <3> QED
      BY <3>2, <3>3, <3>5, <3>6 DEF Consented
  <2> QED
    BY <2>1, <2>2
<1> QED
  BY <1>2, <1>3, <1>4, <1>5, NothingKept, QuietConsent

\* What a job recursing over a tree was told still holds when it starts.
LEMMA StartAgrees ==
    ASSUME TrailInv, ConsentInv, NEW r \in Request, Start(r)
    PROVE  ConsentInv'
<1>1. /\ at[r] # <<>> /\ at[r][1][1] = "start"
      /\ Onward(r) = Goes(r, Tail(at[r])) /\ Turns(r, "result") = Goes(r, <<<<"result", at[r][1][2]>>>>)
  BY AtHead DEF Start
<1>2. UNCHANGED <<guardVars, scene, sign, aclmode, wiped>>
  BY DEF Start, world, history, signVars
<1>3. UNCHANGED <<clock, tokens, seen>> /\ \A q \in wiped' : q \in wiped
  BY <1>2 DEF guardVars
<1>4. Less(at[r], Tail(at[r])) /\ Less(at[r], <<<<"result", at[r][1][2]>>>>)
  BY <1>1, LessOfFailure DEF Less, Asides
<1>5. DOMAIN mem = Request /\ DOMAIN mem[r] = DOMAIN Blank
  BY DEF TrailInv, MemShape
<1>6. PICK mode \in IF What(r) = "jobChmod" THEN Modes ELSE {aclmode} :
        \/ Turns(r, "result") /\ UNCHANGED mem
        \/ /\ guardRefuses(recheckGuard(r)) \/ ~recheckACLVerdict(r, mode)
           /\ Turns(r, "result") /\ Learns(r, "big", TRUE)
        \/ /\ ~guardRefuses(recheckGuard(r)) /\ recheckACLVerdict(r, mode)
           /\ Onward(r) /\ Learns(r, "was", aclmode)
  BY Zenon DEF Start
<1>7. CASE Turns(r, "result") /\ UNCHANGED mem
  BY <1>1, <1>2, <1>3, <1>4, <1>7, NothingKept, QuietConsent
<1>8. CASE Turns(r, "result") /\ Learns(r, "big", TRUE)
  <2> DEFINE v == [mem[r] EXCEPT !["big"] = TRUE]
  <2>1. mem' = [mem EXCEPT ![r] = v]
    BY <1>8 DEF Learns
  <2>2. /\ v.paid = mem[r].paid /\ v.late = mem[r].late /\ v.parts = mem[r].parts /\ v.asks = mem[r].asks
        /\ v.was = mem[r].was /\ v.expect = mem[r].expect
    BY <1>5 DEF Blank
  <2> HIDE DEF v
  <2>3. \A q \in Request : Kept(q)
    BY <1>2, <1>5, <2>1, <2>2 DEF Kept, Warned
  <2> QED
    BY <1>1, <1>2, <1>3, <1>4, <1>8, <2>3, QuietConsent
<1>9. CASE recheckACLVerdict(r, mode) /\ Onward(r) /\ Learns(r, "was", aclmode)
  <2> DEFINE v == [mem[r] EXCEPT !["was"] = aclmode]
  <2>1. mem' = [mem EXCEPT ![r] = v]
    BY <1>9 DEF Learns
  <2>2. /\ v.paid = mem[r].paid /\ v.late = mem[r].late /\ v.parts = mem[r].parts /\ v.asks = mem[r].asks
        /\ v.was = aclmode
    BY <1>5 DEF Blank
  <2> HIDE DEF v
  <2>3. ASSUME What(r) \in Acl, aclmode = "discards" PROVE mem[r].asks /\ mem[r].parts[3] \in Destroys
    <3>1. Agrees(r) /\ Plan(at[r]) /\ 1 \in DOMAIN at[r] /\ DOMAIN at[r] = 1 .. Len(at[r])
      BY <1>1, Shape DEF ConsentInv, TrailInv, PlanShape
    <3>2. What(r) = "jobChmod" /\ ~Looked(at[r])
      BY <1>1, <2>3, <3>1 DEF Agrees, Alone, Looked, Before
    <3>3. mem[r].asks
      BY <2>3, <3>1, <3>2 DEF Agrees
    <3>4. mode \in {"discards", "unknown"}
      BY <1>6, <2>3, <3>2 DEF Modes
    <3>5. mem[r].parts = tokenParts(r, mode)
      BY <1>9, <3>2 DEF recheckACLVerdict, aclVerdict
    <3>6. mem[r].parts[3] = mode
      BY <3>5 DEF tokenParts
    <3> QED
      BY <3>3, <3>4, <3>6 DEF Destroys
  <2>4. Kept(r)
    <3>1. mem'[r] = v
      BY <1>5, <2>1
    <3>2. What(r) \in Acl => Warned(r)'
      BY <2>2, <2>3, <3>1 DEF Warned
    <3> QED
      BY <2>2, <3>1, <3>2 DEF Kept
  <2>5. \A q \in Request \ {r} : Kept(q)
    BY <1>2, <1>5, <2>1 DEF Kept, Warned
  <2> QED
    BY <1>1, <1>2, <1>3, <1>4, <1>9, <2>4, <2>5, QuietConsent
<1> QED
  BY <1>6, <1>7, <1>8, <1>9

LEMMA HandlesAgrees ==
    ASSUME TrailInv, ConsentInv, NEW r \in Request, Handles(r)
    PROVE  ConsentInv'
<1>1. CASE Look(r) \/ Seal(r) \/ Confirm(r) \/ Spends(r) \/ TurnsAway(r) \/ Call(r) \/ Open(r) \/ Start(r)
  BY <1>1, LookAgrees, SealAgrees, ConfirmAgrees, SpendsAgrees, TurnsAwayAgrees, WorksAgrees, StartAgrees
<1>2. CASE Locks(r) \/ Intends(r) \/ Saves(r) \/ Failed(r) \/ Applies(r) \/ Reports(r) \/ Undoes(r)
  BY <1>2, SettingsAgree
<1>3. CASE \/ Clear(r) \/ Deny(r) \/ Record(r) \/ Result(r) \/ Each(r) \/ Strike(r) \/ Entry(r) \/ Note(r) \/ Sum(r)
           \/ Slot(r) \/ Bind(r) \/ Body(r) \/ Finalize(r) \/ Root(r) \/ Rooted(r) \/ Submit(r) \/ Sorry(r)
  BY <1>2, <1>3, HandlesGoes, QuietFrames, GoingsAgree
<1> QED
  BY <1>1, <1>2, <1>3, Zenon DEF Handles

-----------------------------------------------------------------------------
(* What a request is dispatched with, and the steps of anybody else.       *)

LEMMA OnceOfRising ==
    ASSUME NEW q, Script(q), NEW n, \A j \in DOMAIN q : q[j][1] \in Asides => q[j][2] = n
    PROVE  Once(q)
<1>1. Rises(q) /\ \A j \in DOMAIN q : q[j][1] # "spend"
  BY DEF Script, Plan
<1>2. ASSUME NEW j \in DOMAIN q, q[j][1] \in Asides, NEW i \in DOMAIN q, i < j, q[i][1] \in {"confirm", "spend"}
      PROVE  FALSE
  <2>1. q[i][2] = q[j][2] /\ q[i][1] = "confirm"
    BY <1>1, <1>2 DEF Asides
  <2>2. Rank(q[i][1]) < Rank(q[j][1])
    BY <1>1, <1>2, <2>1 DEF Rises
  <2>3. Rank("confirm") = 3 /\ Rank("look") = 1 /\ Rank("seal") = 1 /\ q[j][1] \in {"look", "seal", "confirm"}
    BY <1>1, <1>2, Ranks DEF Asides
  <2> QED
    BY <2>1, <2>2, <2>3
<1>3. \A j \in DOMAIN q : q[j][1] \in Asides => ~Before(q, j, {"confirm", "spend"})
  BY <1>2 DEF Before
<1> QED
  BY <1>1, <1>3 DEF Once

LEMMA OneNumber == \A h \in DOMAIN dispatch : \E n : LET q == dispatch[h].steps IN
    \A j \in DOMAIN q : q[j][1] \in Asides => q[j][2] = n
<1> DEFINE Of1(q) == \E names : q = Steps(names)
<1>1. \A h \in {"mkdir", "rename", "delete", "chmod", "chown", "upload", "settings"} : Of1(dispatch[h].steps)
  <2>1. \A h \in {"mkdir", "rename", "delete", "chmod", "chown"} :
            dispatch[h].steps = Steps(<<"look", "confirm", "record", "call", "result">>)
    BY DEF dispatch, mkdir, rename, deleteSingle, chmod, chown, Handler, Sync
  <2>2. Of1(dispatch["upload"].steps) /\ Of1(dispatch["settings"].steps)
    BY DEF dispatch, upload, postSettings, Handler
  <2> QED
    BY <2>1, <2>2
<1>2. \A h \in {"jobDelete", "jobTransfer", "jobChmod", "jobChown"} : Of1(dispatch[h].steps)
  <2>1. jobDelete(TRUE).steps = Job(<<"look", "confirm", "record">>)
    BY Permanent DEF jobDelete, Handler
  <2>2. /\ dispatch["jobDelete"].steps = jobDelete(TRUE).steps
        /\ dispatch["jobTransfer"].steps = Job(<<"look", "confirm", "record">>)
        /\ dispatch["jobChmod"].steps = Job(<<"look", "confirm", "record">>)
        /\ dispatch["jobChown"].steps = Job(<<"look", "confirm", "record">>)
    BY DEF dispatch, jobTransfer, jobChmod, jobChown, Handler
  <2> QED
    BY <2>1, <2>2, JobSteps
<1>3. \A h \in {"jobTrash", "restore", "empty"} : Of1(dispatch[h].steps)
  <2>1. dispatch["jobTrash"].steps = Job(<<"look", "confirm", "root", "record">>)
    BY ToTrash DEF dispatch, jobDelete, Handler
  <2>2. dispatch["restore"].steps = Job(<<"seal", "clear", "record">>)
        /\ dispatch["empty"].steps = Job(<<"seal", "confirm", "record">>)
    BY DEF dispatch, trashRestore, trashEmpty, Handler
  <2> QED
    BY <2>1, <2>2, TrashSteps, RestoreSteps, EmptySteps
<1>4. \A q : Of1(q) => \A j \in DOMAIN q : q[j][2] = 1
  BY DEF Steps
<1> HIDE DEF Of1
<1>5. CASE TRUE
  <2>1. \A h \in DOMAIN dispatch : h \in {"mkdir", "rename", "delete", "chmod", "chown", "upload", "settings"}
            \/ h \in {"jobDelete", "jobTransfer", "jobChmod", "jobChown"}
            \/ h \in {"jobTrash", "restore", "empty"} \/ h = "batch" \/ h = "plain"
    BY DEF dispatch
  <2>2. \A j \in DOMAIN dispatch["batch"].steps :
            dispatch["batch"].steps[j][1] \in Asides => dispatch["batch"].steps[j][2] = 0
    <3>1. dispatch["batch"].steps = deleteBatch.steps
      BY DEF dispatch
    <3> QED
      BY <3>1, BatchSteps DEF Asides
  <2>3. dispatch["plain"].steps = <<>>
    BY DEF dispatch, Handler
  <2>4. \A j \in DOMAIN dispatch["plain"].steps : FALSE
    BY <2>3
  <2> QED
    BY <1>1, <1>2, <1>3, <1>4, <2>1, <2>2, <2>4
<1> QED
  BY <1>5

LEMMA AclScripts == \A h \in Acl : LET q == dispatch[h].steps IN Alone(h, q) /\ Owed(q) /\ Looked(q)
<1> DEFINE s == Steps(<<"look", "confirm", "record", "call", "result">>)
           t == Steps(<<"look", "confirm", "record", "submit", "start", "run", "result">>)
<1>1. dispatch["chmod"].steps = s
  BY DEF dispatch, chmod, Handler, Sync
<1>2. dispatch["jobChmod"].steps = t
  BY JobSteps DEF dispatch, jobChmod, Handler
<1>3. /\ DOMAIN s = 1 .. 5 /\ s[1][1] = "look" /\ s[2][1] = "confirm"
      /\ \A j \in DOMAIN s : s[j][1] \notin {"each", "start"} /\ (s[j][1] \in Working => j > 2)
  BY DEF Steps, Working
<1>4. /\ DOMAIN t = 1 .. 7 /\ t[1][1] = "look" /\ t[2][1] = "confirm"
      /\ \A j \in DOMAIN t : t[j][1] # "each" /\ (t[j][1] \in Working \cup {"start"} => j > 2)
  BY DEF Steps, Working
<1> HIDE DEF s, t
<1>5. Alone("chmod", s) /\ Looked(s) /\ Alone("jobChmod", t)
  BY <1>3, <1>4 DEF Alone, Looked
<1>6. Owed(s)
  BY <1>3 DEF Owed, Before
<1>7. Owed(t) /\ Looked(t)
  BY <1>4 DEF Owed, Looked, Before
<1> QED
  BY <1>1, <1>2, <1>5, <1>6, <1>7 DEF Acl

LEMMA DispatchAgrees ==
    ASSUME SignInv, TrailInv, ConsentInv, NEW r \in Request, Dispatch(r)
    PROVE  ConsentInv'
<1>1. sign \in [Request -> SignState] /\ sign[r] \in {"in", "outside"}
  BY DEF SignInv, SignTypeOK, Dispatch
<1>2. ~Handled(r) /\ r \in Uses /\ Agrees(r) /\ tokens[r] = NoToken /\ r \notin wiped
  BY <1>1 DEF Handled, TrailInv, PlanShape, ConsentInv, TokenShape, Agrees, Consented
<1>3. UNCHANGED <<guardVars, scene, aclmode, mem, wiped>>
  BY DEF Dispatch, world, history
<1>4. PICK p \in {Of(r).steps, <<>>, <<<<"deny", 0>>>>} : Goes(r, p)
  BY DEF Dispatch, Over
<1>5. Once(p) /\ (\A j \in DOMAIN p : p[j][1] # "spend") /\ p \in Seq(Step)
      /\ (What(r) \in Acl => Alone(What(r), p) /\ Owed(p) /\ Looked(p))
  <2>1. CASE p = Of(r).steps
    <3>1. What(r) \in DOMAIN dispatch
      BY <1>2, SceneAssumption DEF TrailInv, Uses, What
    <3>2. Script(p)
      BY <2>1, <3>1, Handlers DEF Of, Fine
    <3>3. PICK n : \A j \in DOMAIN p : p[j][1] \in Asides => p[j][2] = n
      BY <2>1, <3>1, OneNumber DEF Of
    <3>4. Once(p)
      BY <3>2, <3>3, OnceOfRising
    <3>5. What(r) \in Acl => Alone(What(r), p) /\ Owed(p) /\ Looked(p)
      BY <2>1, AclScripts DEF Of
    <3> QED
      BY <3>2, <3>4, <3>5 DEF Script, Plan
  <2>2. CASE p = <<>>
    BY <2>2 DEF Once, Alone, Owed, Looked
  <2>3. CASE p = <<<<"deny", 0>>>>
    <3>1. DOMAIN p = {1} /\ p[1] = <<"deny", 0>> /\ p \in Seq(Step)
      BY <2>3 DEF Step, Name, Denying
    <3> QED
      BY <3>1 DEF Once, Alone, Owed, Looked, Working, Asides
  <2> QED
    BY <2>1, <2>2, <2>3
<1>6. at'[r] = p /\ \A o \in Request \ {r} : at'[o] = at[o]
  BY <1>4 DEF Goes, TrailInv
<1>7. Handled(r)' /\ \A o \in Request : Handled(o) => Handled(o)'
  BY <1>1 DEF Dispatch, To, Handled
<1>8. UNCHANGED <<clock, tokens, seen>>
  BY <1>3 DEF guardVars
<1>9. Grows
  BY <1>8, GrowsStill DEF ConsentInv
<1>10. SpentShape'
  BY <1>3, <1>9, SpentStays DEF ConsentInv
<1>11. \A o : Kept(o) /\ What(o)' = What(o)
  BY <1>3, NothingKept DEF What
<1>12. Agrees(r)'
  <2>1. p # <<>> => 1 \in DOMAIN p
    BY <1>5
  <2>2. Shown(r)'
    BY <1>5, <1>6, <2>1 DEF Shown
  <2>3. What(r) \in Acl => Warned(r)'
    BY <1>2, <1>11 DEF Agrees, Kept
  <2>4. /\ Once(at[r])' = Once(p) /\ Alone(What(r), at[r])' = Alone(What(r), p)
        /\ Owed(at[r])' = Owed(p) /\ Looked(at[r])' = Looked(p)
    BY <1>6, <1>11 DEF Once, Before, Alone, Owed, Looked
  <2> QED
    BY <1>2, <1>3, <1>5, <1>11, <2>2, <2>3, <2>4 DEF Agrees
<1> QED
  BY <1>2, <1>3, <1>6, <1>7, <1>8, <1>9, <1>10, <1>11, <1>12, ConsentMoves DEF NoToken

\* A step of nobody's handler, the clock's and the dataset's among them.
LEMMA OthersAgree ==
    ASSUME TrailInv, ConsentInv, Signs, clock' \in {clock, clock + 1}, aclmode' \in {"keeps", "discards"},
           UNCHANGED <<tokens, seen, scene, at, mem, wiped>>
    PROVE  ConsentInv'
<1>1. Grows
  BY DEF ConsentInv, TokenShape, Grows
<1>2. \A q \in Request : Handled(q) => Handled(q)'
  BY DEF Signs
<1>3. NoToken' = NoToken
  BY DEF NoToken
<1>4. TokenShape'
  BY <1>2, <1>3 DEF ConsentInv, TokenShape
<1>5. SpentShape'
  BY <1>1, SpentStays DEF ConsentInv
<1>6. ASSUME NEW q \in Request PROVE Agrees(q)'
  <2>1. Agrees(q) /\ Plan(at[q]) /\ Kept(q) /\ at'[q] = at[q] /\ (q \in wiped' => q \in wiped) /\ (Handled(q) => Handled(q)')
    BY <1>2, NothingKept DEF ConsentInv, TrailInv, PlanShape
  <2> QED
    BY <1>1, <2>1, AgreesStays
<1> QED
  BY <1>4, <1>5, <1>6 DEF ConsentInv

LEMMA ConsentKept ==
    ASSUME SignInv, TrailInv, ConsentInv, [Next]_vars
    PROVE  ConsentInv'
<1>1. ASSUME Signs, UNCHANGED <<clock, aclmode, tokens, seen, scene, at, mem, wiped>> PROVE ConsentInv'
  BY <1>1, OthersAgree DEF ConsentInv
<1>2. ASSUME NEW r \in Request, Authenticates(r), Elsewhere PROVE ConsentInv'
  <2>1. UNCHANGED <<clock, aclmode, tokens, seen, scene, at, mem, wiped>>
    BY <1>2 DEF Elsewhere, guardVars, webVars
  <2> QED
    BY <1>1, <1>2, <2>1, Authenticate
<1>3. ASSUME NEW r \in Request, Arrives(r) PROVE ConsentInv'
  <2>1. sign \in [Request -> SignState] /\ r \in Uses /\ sign[r] = "new"
    BY <1>3 DEF SignInv, SignTypeOK, Arrives
  <2>2. PICK st : To(r, st)
    BY <1>3 DEF Arrives, Lookup
  <2>3. Signs
    BY <2>1, <2>2 DEF Signs, To, Handled, TrailInv, PlanShape
  <2>4. UNCHANGED <<clock, aclmode, tokens, seen, scene, at, mem, wiped>>
    BY <1>3 DEF Arrives, guardVars, webVars
  <2> QED
    BY <1>1, <2>3, <2>4
<1>4. CASE Happens
  <2>1. UNCHANGED <<tokens, seen, scene, at, mem, wiped, sign>>
    BY <1>4 DEF Happens, history, guardVars, Tick, signVars, SignsOut, Removed, CacheExpires
  <2>2. clock' \in {clock, clock + 1} /\ aclmode' \in {"keeps", "discards"}
    BY <1>4 DEF Happens, guardVars, Tick, ConsentInv
  <2> QED
    BY <2>1, <2>2, SignStays, OthersAgree
<1>5. CASE (Answers /\ Elsewhere) \/ Logs \/ UNCHANGED vars
  <2>1. UNCHANGED <<clock, aclmode, tokens, seen, scene, at, mem, wiped, sign>>
    <3>1. CASE Answers /\ Elsewhere
      BY <3>1 DEF Answers, Elsewhere, guardVars, webVars
    <3>2. CASE Logs \/ UNCHANGED vars
      BY <3>2 DEF Logs, vars, guardVars, webVars, signVars
    <3> QED
      BY <1>5, <3>1, <3>2
  <2> QED
    BY <1>1, <2>1, SignStays
<1> QED
  BY <1>2, <1>3, <1>4, <1>5, DispatchAgrees, HandlesAgrees, Zenon DEF Next, Acts

LEMMA ConsentBegins == Init => ConsentInv
<1> SUFFICES ASSUME Init PROVE ConsentInv
  OBVIOUS
<1>1. scene \in Scenes /\ aclmode \in scene.aclmode /\ clock = 0 /\ tokens = [r \in Request |-> NoToken] /\ wiped = {}
      /\ at = [r \in Request |-> <<>>] /\ mem = [r \in Request |-> Blank]
  BY DEF Init, GuardInit
<1>2. aclmode \in {"keeps", "discards"}
  BY <1>1, SceneAssumption
<1>3. TokenShape
  BY <1>1 DEF TokenShape, NoToken
<1>4. \A r \in Request : mem[r].paid = None /\ mem[r].was = "unread"
  BY <1>1 DEF Blank
<1>5. SpentShape
  BY <1>4 DEF SpentShape
<1>6. Once(<<>>) /\ Decided(<<>>) /\ Owed(<<>>) /\ Looked(<<>>) /\ \A w : Alone(w, <<>>)
  BY DEF Once, Decided, Owed, Looked, Alone
<1>7. \A r \in Request : Agrees(r)
  <2> SUFFICES ASSUME NEW r \in Request PROVE Agrees(r)
    OBVIOUS
  <2>1. at[r] = <<>> /\ r \notin wiped
    BY <1>1
  <2>2. Shown(r) /\ Warned(r)
    BY <1>4, <2>1 DEF Shown, Warned
  <2> QED
    BY <1>6, <2>1, <2>2 DEF Agrees
<1> QED
  BY <1>1, <1>2, <1>3, <1>5, <1>7 DEF ConsentInv

(* A token pays for one request, and no ACL goes without a request that    *)
(* was told so and paid (verifyToken, Redeem, recheckACLVerdict).          *)
THEOREM ConsentIsGiven == Spec => []ConsentHolds
<1>1. Init => Inv /\ ConsentInv
  BY InvBegins, ConsentBegins
<1>2. Inv /\ ConsentInv /\ [Next]_vars => (Inv /\ ConsentInv)'
  BY InvKept, ConsentKept DEF Inv
<1>3. ConsentInv => ConsentHolds
  <2> SUFFICES ASSUME ConsentInv PROVE ConsentHolds
    OBVIOUS
  <2>1. \A q, r \in Request :
            q # r /\ mem[q].paid = mem[r].paid /\ mem[q].paid # None => mem[q].late \/ mem[r].late
    BY DEF ConsentInv, SpentShape
  <2>2. ASSUME NEW r \in wiped PROVE mem[r].paid # None /\ tokens[mem[r].paid].parts[3] \in Destroys
    <3>1. r \in Request /\ Agrees(r)
      BY <2>2 DEF ConsentInv
    <3>2. Consented(r)
      BY <2>2, <3>1 DEF Agrees
    <3> QED
      BY <3>2 DEF Consented, Paid
  <2> QED
    BY <2>1, <2>2 DEF ConsentHolds
<1> QED
  BY <1>1, <1>2, <1>3, PTL DEF Spec
=============================================================================
