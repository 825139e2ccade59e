---------------------------- MODULE FlexRunProofs ---------------------------
(***************************************************************************)
(* The flex run, for every set of connections, cron and manual runs and    *)
(* failure texts: it accounts for every connection, the health columns are *)
(* witnessed by the log and by the wizard's detections, a connection that  *)
(* waits for a new token keeps waiting, and every change of a row that was *)
(* not written by two at once is one event of the W4 state machine.        *)
(***************************************************************************)
EXTENDS FlexRun, FiniteSetTheorems, WellFoundedInduction, TLAPS

-----------------------------------------------------------------------------
(* The inductive invariant *)

Said(how) == IF how = "ok" THEN "ok" ELSE "failed"
CountIn(s, status) == Cardinality({i \in DOMAIN s : s[i].status = status})
\* The failures, or syncs, a log l and the detections of s speak of.
Tally(l, s, status) == CountIn(l, status) + s[status]
Working(r) == pc[r] \in {"loop", "attempt", "logged"}

Typed ==
  /\ row \in [Connections -> Row \cup {Absent}]
  /\ log \in [Connections -> Seq(LogEntry)]
  /\ lock \in Runs \cup {NoRun}
  /\ pc \in [Runs -> Stage] /\ number \in [Runs -> 0..MaxRuns] /\ started \in 0..MaxRuns
  /\ snap \in [Runs -> UNION {[S -> Row] : S \in SUBSET Connections}]
  /\ todo \in [Runs -> SUBSET Connections] /\ outcome \in [Runs -> Outcome]
  /\ results \in [Runs -> SUBSET Connections] /\ failures \in [Runs -> SUBSET Connections]
  /\ rotations \subseteq [id : Connections, loaded : Row]
  /\ detecting \in SUBSET Connections /\ held \in [Connections -> Row \cup {Absent}]
  /\ seen \in [Connections -> [{"ok", "failed"} -> Nat]] /\ refused \subseteq touched

\* Where each run stands, and that only the holder of the lock is at work.
Places ==
  \A r \in Runs :
    /\ todo[r] \subseteq DOMAIN snap[r]
    /\ results[r] \cup failures[r] = DOMAIN snap[r] \ todo[r] /\ results[r] \cap failures[r] = {}
    /\ pc[r] \in {"idle", "refused"} => DOMAIN snap[r] = {}
    /\ pc[r] \in {"attempt", "logged", "aborted"} => todo[r] # {}
    /\ pc[r] \in {"ended", "raised"} => todo[r] = {} /\ (pc[r] = "raised" <=> results[r] = {})
    /\ pc[r] = "logged" <=> outcome[r] # "none"
    /\ Working(r) => lock = r
    /\ pc[r] = "attempt" => Present(Least(todo[r]))

\* What a run has in its summary, or is about to have, is in the log.
Reported ==
  \A r \in Runs :
    /\ \A c \in results[r] : Present(c) => Logged(r, c, "ok")
    /\ \A c \in failures[r] : Present(c) => Logged(r, c, "failed")
    /\ LET c == Least(todo[r])
       IN  (pc[r] = "logged" /\ Present(c)) => Logged(r, c, Said(outcome[r]))

\* How far the row a run has loaded can be from the stored one.
Loaded ==
  \A r \in Runs : Working(r) =>
    /\ \A c \in todo[r] :
         /\ c \notin touched => row[c] = snap[r][c]
         /\ Present(c) => /\ snap[r][c].failures <= Tally(log[c], seen[c], "failed")
                          /\ (row[c].status = "reauth_required" /\ c \notin refused)
                               => snap[r][c].status = "reauth_required"
    /\ LET c == Least(todo[r])
       IN  (pc[r] = "logged" /\ outcome[r] # "ok") =>
             /\ snap[r][c].failures < MaxFailures
             /\ Present(c) => snap[r][c].failures < Tally(log[c], seen[c], "failed")

IInv == Typed /\ Places /\ Reported /\ Loaded /\ HealthIsWitnessed

-----------------------------------------------------------------------------
(* Sets and logs *)

\* The first of the ids that are left is one of them.
LEMMA LeastIn ==
  ASSUME NEW S \in SUBSET Nat, S # {}
  PROVE  Least(S) \in S /\ \A y \in S : Least(S) <= y
<1> DEFINE R == {ss \in Nat \X Nat : ss[1] < ss[2]}
<1>1. OpToRel(<, Nat) = R
  BY DEF OpToRel
<1>2. IsWellFoundedOn(R, Nat)
  BY <1>1, NatLessThanWellFounded
<1>3. PICK x \in S : \A y \in S : ~ (<<y, x>> \in R)
  BY <1>2, WFMin
<1>4. \A a, b \in Nat : <<a, b>> \in R <=> a < b
  OBVIOUS
<1> HIDE DEF R
<1>5. \A y \in S : x <= y
  <2>1. x \in Nat /\ \A y \in S : y \in Nat
    OBVIOUS
  <2>2. \A y \in S : ~ (y < x)
    BY ONLY <1>3, <1>4, <2>1, Zenon
  <2> QED
    BY <2>1, <2>2
<1> QED
  BY <1>5 DEF Least

\* Another row of a log counts once, under its own status.
LEMMA CountAppend ==
  ASSUME NEW s \in Seq(LogEntry), NEW e \in LogEntry, NEW status
  PROVE  /\ Append(s, e) \in Seq(LogEntry) /\ CountIn(s, status) \in Nat
         /\ CountIn(Append(s, e), status) = CountIn(s, status) + (IF e.status = status THEN 1 ELSE 0)
         /\ {Append(s, e)[i] : i \in DOMAIN Append(s, e)} = {s[i] : i \in DOMAIN s} \cup {e}
<1> DEFINE n == Len(s)
           t == Append(s, e)
           S == {i \in DOMAIN s : s[i].status = status}
           T == {i \in DOMAIN t : t[i].status = status}
<1>1. /\ n \in Nat /\ DOMAIN s = 1..n /\ t \in Seq(LogEntry) /\ DOMAIN t = 1..(n + 1)
      /\ t[n + 1] = e /\ \A i \in 1..n : t[i] = s[i]
  OBVIOUS
<1> HIDE DEF n, t
<1>2. T = IF e.status = status THEN S \cup {n + 1} ELSE S
  BY <1>1
<1>3. n + 1 \notin S
  BY <1>1
<1>4. IsFiniteSet(S)
  <2>1. IsFiniteSet(1..n)
    BY <1>1, FS_Interval
  <2>2. S \in SUBSET (1..n)
    BY <1>1
  <2> HIDE DEF S
  <2> QED
    BY <2>1, <2>2, FS_Subset
<1>5. Cardinality(T) = Cardinality(S) + (IF e.status = status THEN 1 ELSE 0) /\ Cardinality(S) \in Nat
  <2> HIDE DEF S, T
  <2>1. Cardinality(S) \in Nat
    BY <1>4, FS_CardinalityType
  <2>2. Cardinality(S \cup {n + 1}) = Cardinality(S) + 1
    BY <1>3, <1>4, FS_AddElement
  <2> QED
    BY <1>2, <2>1, <2>2
<1>6. {t[i] : i \in DOMAIN t} = {s[i] : i \in DOMAIN s} \cup {e}
  BY <1>1
<1> QED
  BY <1>1, <1>5, <1>6 DEF CountIn, t

\* A log row is one of those that count.
LEMMA CountPositive ==
  ASSUME NEW s \in Seq(LogEntry), NEW e \in {s[i] : i \in DOMAIN s}
  PROVE  CountIn(s, e.status) > 0
<1> DEFINE S == {i \in DOMAIN s : s[i].status = e.status}
<1>1. DOMAIN s = 1..Len(s) /\ Len(s) \in Nat
  OBVIOUS
<1>2. IsFiniteSet(S)
  <2>1. IsFiniteSet(1..Len(s))
    BY <1>1, FS_Interval
  <2>2. S \in SUBSET (1..Len(s))
    BY <1>1
  <2> HIDE DEF S
  <2> QED
    BY <2>1, <2>2, FS_Subset
<1>3. S # {}
  OBVIOUS
<1> HIDE DEF S
<1>4. Cardinality(S) \in Nat /\ Cardinality(S) # 0
  BY <1>2, <1>3, FS_CardinalityType, FS_EmptySet
<1> QED
  BY <1>4 DEF CountIn, S

-----------------------------------------------------------------------------
(* Rows *)

\* A flush leaves a row, each column of which is the one in memory or the stored one.
LEMMA FlushRow ==
  ASSUME NEW loaded \in Row, NEW memory \in Row, NEW stored \in Row
  PROVE  LET new == Flush(loaded, memory, stored)
         IN  /\ new \in Row
             /\ new.status = (IF memory.status # loaded.status THEN memory.status ELSE stored.status)
             /\ new.failures = (IF memory.failures # loaded.failures THEN memory.failures ELSE stored.failures)
             /\ new.lastSync = (IF memory.lastSync # loaded.lastSync THEN memory.lastSync ELSE stored.lastSync)
<1> DEFINE new == Flush(loaded, memory, stored)
           pick(col) == IF memory[col] # loaded[col] THEN memory[col] ELSE stored[col]
<1>1. DOMAIN stored = {"status", "reason", "failures", "lastSync"}
  BY DEF Row
<1>2. new = [col \in {"status", "reason", "failures", "lastSync"} |-> pick(col)]
  BY <1>1 DEF Flush
<1>3. new = [status |-> pick("status"), reason |-> pick("reason"), failures |-> pick("failures"),
             lastSync |-> pick("lastSync")]
  BY <1>2
<1>4. /\ pick("status") \in Status /\ pick("reason") \in Reasons \cup {NoReason}
      /\ pick("failures") \in Nat /\ pick("lastSync") \in SyncStatus
  BY DEF Row
<1>5. new \in Row
  BY <1>3, <1>4 DEF Row
<1> QED
  BY <1>2, <1>5

\* With nothing written in between, a flush stores the object in memory.
LEMMA FlushFresh ==
  ASSUME NEW loaded \in Row, NEW memory \in Row
  PROVE  Flush(loaded, memory, loaded) = memory
<1>1. /\ DOMAIN loaded = {"status", "reason", "failures", "lastSync"}
      /\ memory = [col \in {"status", "reason", "failures", "lastSync"} |-> memory[col]]
  BY DEF Row
<1>2. Flush(loaded, memory, loaded) = [col \in {"status", "reason", "failures", "lastSync"} |-> memory[col]]
  BY <1>1 DEF Flush
<1> QED
  BY <1>1, <1>2

\* What the end of an attempt makes of a row.
LEMMA MarkedRow ==
  ASSUME NEW c \in Row, NEW how \in Outcome \ {"none"}, NEW why \in Reasons
  PROVE  LET new == Marked(c, how, why)
         IN  /\ new \in Row /\ new.lastSync = Said(how)
             /\ new.failures = (IF how = "ok" THEN 0 ELSE c.failures + 1)
             /\ (how = "transient" /\ c.status = "reauth_required") => new.status = c.status
             /\ new.status = "reauth_required" => how = "auth" \/ c.status = "reauth_required"
<1> USE DEF Row, Status, SyncStatus, Unless, Said
<1>1. CASE how = "ok"
  BY <1>1 DEF Marked, MarkSyncOk
<1>2. CASE how = "auth"
  BY <1>2 DEF Marked, MarkAuthFailed
<1>3. CASE how = "transient"
  <2>1. Marked(c, how, why) = MarkSyncFailed(c, why)
    BY <1>3 DEF Marked
  <2> QED
    BY <1>3, <2>1 DEF MarkSyncFailed
<1> QED
  BY <1>1, <1>2, <1>3 DEF Outcome

\* The functions users reach keep a row a row, count no failure and ask for no token.
LEMMA UserRow ==
  ASSUME NEW c \in Row, NEW enabled \in BOOLEAN
  PROVE  /\ NewRow \in Row /\ NewRow.failures = 0 /\ NewRow.lastSync = "none"
         /\ NewRow.status # "reauth_required"
         /\ SetEnabled(c, enabled) \in Row /\ SetEnabled(c, enabled).failures <= c.failures
         /\ SetEnabled(c, enabled).lastSync = c.lastSync
         /\ SetEnabled(c, enabled).status # "reauth_required"
         /\ MarkRotated(c) \in Row /\ MarkRotated(c).failures = 0
         /\ MarkRotated(c).lastSync = c.lastSync /\ MarkRotated(c).status # "reauth_required"
<1> USE DEF Row, Status, SyncStatus
<1>1. /\ NewRow \in Row /\ NewRow.failures = 0 /\ NewRow.lastSync = "none"
      /\ NewRow.status # "reauth_required"
  BY DEF NewRow
<1>2. /\ SetEnabled(c, enabled) \in Row /\ SetEnabled(c, enabled).failures <= c.failures
      /\ SetEnabled(c, enabled).lastSync = c.lastSync
      /\ SetEnabled(c, enabled).status # "reauth_required"
  <2>1. CASE enabled
    <3>1. SetEnabled(c, enabled) = [status |-> "active", reason |-> NoReason, failures |-> 0,
                                    lastSync |-> c.lastSync]
      BY <2>1 DEF SetEnabled
    <3>2. c.failures \in Nat /\ c.lastSync \in SyncStatus
      OBVIOUS
    <3> QED
      BY <3>1, <3>2
  <2>2. CASE ~enabled
    BY <2>2 DEF SetEnabled
  <2> QED
    BY <2>1, <2>2
<1>3. /\ MarkRotated(c) \in Row /\ MarkRotated(c).failures = 0
      /\ MarkRotated(c).lastSync = c.lastSync /\ MarkRotated(c).status # "reauth_required"
  BY DEF MarkRotated, Unless
<1> QED
  BY <1>1, <1>2, <1>3

-----------------------------------------------------------------------------
(* What the steps share *)

LEMMA Counts == \A c, status : /\ Count(c, status) = CountIn(log[c], status)
                               /\ Witnesses(c, status) = Tally(log[c], seen[c], status)
BY DEF Count, CountIn, Witnesses, Tally

LEMMA CurrentIs == \A r : Current(r) = Least(todo[r])
BY DEF Current, Least

LEMMA CountNat ==
  ASSUME Typed
  PROVE  \A c \in Connections : \A status : CountIn(log[c], status) \in Nat
<1>1. [run |-> 0, status |-> "ok"] \in LogEntry
  BY RunAssumption DEF LogEntry
<1> QED
  BY <1>1, CountAppend DEF Typed

\* The current connection of a run that has any left.
LEMMA LeastOfTodo ==
  ASSUME Typed, NEW r \in Runs, todo[r] # {}
  PROVE  Least(todo[r]) \in todo[r] /\ Least(todo[r]) \in Connections
<1>1. todo[r] \in SUBSET Nat /\ todo[r] \subseteq Connections
  BY RunAssumption DEF Typed
<1> QED
  BY <1>1, LeastIn

LEMMA Init_IInv == Init => IInv
<1> SUFFICES ASSUME Init PROVE IInv
  OBVIOUS
<1>1. NewRow \in Row /\ NewRow.failures = 0 /\ NewRow.lastSync = "none"
  BY DEF NewRow, Row, Status, SyncStatus
<1>2. Typed
  <2>1. row \in [Connections -> Row \cup {Absent}]
    BY <1>1 DEF Init
  <2>2. log \in [Connections -> Seq(LogEntry)]
    BY DEF Init
  <2>3. <<>> \in UNION {[S -> Row] : S \in SUBSET Connections}
    <3>1. <<>> \in [{} -> Row]
      OBVIOUS
    <3> QED
      BY <3>1
  <2>4. snap \in [Runs -> UNION {[S -> Row] : S \in SUBSET Connections}]
    BY <2>3 DEF Init
  <2>5. /\ detecting \in SUBSET Connections /\ held \in [Connections -> Row \cup {Absent}]
        /\ seen \in [Connections -> [{"ok", "failed"} -> Nat]]
    BY DEF Init, NoneHeld
  <2>6. 0 \in 0..MaxRuns
    BY RunAssumption
  <2> QED
    BY <2>1, <2>2, <2>4, <2>5, <2>6 DEF Init, Typed, Stage, Outcome
<1>3. Places
  BY DEF Init, Places, Working
<1>4. Reported /\ Loaded
  BY DEF Init, Reported, Loaded, Working
<1>5. HealthIsWitnessed
  <2> SUFFICES ASSUME NEW c \in Connections, Present(c)
               PROVE  /\ row[c].failures <= Witnesses(c, "failed")
                      /\ row[c].lastSync # "none" => Witnesses(c, row[c].lastSync) > 0
    BY DEF HealthIsWitnessed
  <2>1. row[c] = NewRow
    BY DEF Init, Present
  <2>2. log[c] = <<>> /\ seen[c]["failed"] = 0
    BY DEF Init
  <2>3. Witnesses(c, "failed") = 0
    BY <2>2, FS_EmptySet DEF Witnesses, Count
  <2> QED
    BY <1>1, <2>1, <2>3
<1> QED
  BY <1>2, <1>3, <1>4, <1>5 DEF IInv

LEMMA SameHealth ==
  ASSUME HealthIsWitnessed, UNCHANGED <<row, log, seen>>
  PROVE  HealthIsWitnessed'
BY DEF HealthIsWitnessed, Present, Count, Witnesses

\* A run goes from stage to stage and writes nothing.
LEMMA Keep_IInv ==
  ASSUME IInv, NEW r \in Runs, NEW stage \in Stage \ {"logged"},
         pc' = [pc EXCEPT ![r] = stage], outcome' = [outcome EXCEPT ![r] = "none"],
         UNCHANGED <<row, log, number, snap, todo, results, failures, rotations, touched, wizardVars>>,
         started' \in 0..MaxRuns, lock' \in {lock, NoRun}, lock' # lock => lock = r,
         stage \in {"loop", "attempt"} => Working(r) /\ lock' = lock,
         stage \in {"idle", "refused"} => pc[r] = "idle",
         stage \in {"attempt", "aborted"} => todo[r] # {},
         stage = "attempt" => Present(Least(todo[r])),
         stage \in {"ended", "raised"} => todo[r] = {} /\ (stage = "raised" <=> results[r] = {})
  PROVE  IInv'
<1> USE DEF IInv, wizardVars
<1>0. /\ pc' \in [Runs -> Stage] /\ outcome' \in [Runs -> Outcome]
      /\ pc'[r] = stage /\ outcome'[r] = "none"
      /\ \A q \in Runs \ {r} : pc'[q] = pc[q] /\ outcome'[q] = outcome[q]
  BY DEF Typed, Outcome
<1>1. Typed'
  BY <1>0 DEF Typed
<1>2. \A q \in Runs \ {r} : Working(q) => lock' = q
  BY DEF Places
<1>3. Places'
  <2> SUFFICES ASSUME NEW q \in Runs
               PROVE  /\ todo[q] \subseteq DOMAIN snap[q]
                      /\ results[q] \cup failures[q] = DOMAIN snap[q] \ todo[q]
                      /\ results[q] \cap failures[q] = {}
                      /\ pc'[q] \in {"idle", "refused"} => DOMAIN snap[q] = {}
                      /\ pc'[q] \in {"attempt", "logged", "aborted"} => todo[q] # {}
                      /\ pc'[q] \in {"ended", "raised"} => todo[q] = {} /\ (pc'[q] = "raised" <=> results[q] = {})
                      /\ pc'[q] = "logged" <=> outcome'[q] # "none"
                      /\ pc'[q] \in {"loop", "attempt", "logged"} => lock' = q
                      /\ pc'[q] = "attempt" => Present(Least(todo[q]))
    BY DEF Places, Working, Present
  <2>1. CASE q = r
    BY <1>0, <2>1 DEF Places, Working
  <2>2. CASE q # r
    BY <1>0, <1>2, <2>2 DEF Places, Working
  <2> QED
    BY <2>1, <2>2
<1>4. Reported'
  <2>1. \A q, c, status : Logged(q, c, status)' = Logged(q, c, status) /\ Present(c)' = Present(c)
    BY DEF Logged, Present
  <2> QED
    BY <1>0, <2>1 DEF Reported
<1>5. Loaded'
  BY <1>0 DEF Loaded, Working, Present
<1> QED
  BY <1>1, <1>3, <1>4, <1>5, SameHealth

\* A run that is over is forgotten.
LEMMA Reset_IInv ==
  ASSUME IInv, NEW r \in Runs, Finished(r), Reset(r), lock' \in {lock, NoRun}, lock' # lock => lock = r
  PROVE  IInv'
<1> USE DEF IInv, wizardVars
<1>0. /\ UNCHANGED <<row, log, outcome, started, rotations, touched, wizardVars>> /\ outcome[r] = "none"
      /\ pc'[r] = "idle" /\ number'[r] = 0 /\ snap'[r] = <<>> /\ todo'[r] = {}
      /\ results'[r] = {} /\ failures'[r] = {}
      /\ \A q \in Runs \ {r} :
           /\ pc'[q] = pc[q] /\ number'[q] = number[q] /\ snap'[q] = snap[q] /\ todo'[q] = todo[q]
           /\ results'[q] = results[q] /\ failures'[q] = failures[q]
  BY DEF Typed, Places, Finished, Reset, userVars
<1>1. Typed'
  <2>1. <<>> \in UNION {[S -> Row] : S \in SUBSET Connections}
    <3>1. <<>> \in [{} -> Row]
      OBVIOUS
    <3> QED
      BY <3>1
  <2>2. snap' \in [Runs -> UNION {[S -> Row] : S \in SUBSET Connections}]
    BY <2>1 DEF Typed, Reset
  <2>3. number' \in [Runs -> 0..MaxRuns]
    BY RunAssumption DEF Typed, Reset
  <2>4. pc' \in [Runs -> Stage] /\ todo' \in [Runs -> SUBSET Connections]
        /\ results' \in [Runs -> SUBSET Connections] /\ failures' \in [Runs -> SUBSET Connections]
    BY DEF Typed, Reset, Stage
  <2> QED
    BY <1>0, <2>2, <2>3, <2>4 DEF Typed
<1>2. \A q \in Runs \ {r} : Working(q) => lock' = q
  BY DEF Places
<1>3. Places'
  <2> SUFFICES ASSUME NEW q \in Runs
               PROVE  /\ todo'[q] \subseteq DOMAIN snap'[q]
                      /\ results'[q] \cup failures'[q] = DOMAIN snap'[q] \ todo'[q]
                      /\ results'[q] \cap failures'[q] = {}
                      /\ pc'[q] \in {"idle", "refused"} => DOMAIN snap'[q] = {}
                      /\ pc'[q] \in {"attempt", "logged", "aborted"} => todo'[q] # {}
                      /\ pc'[q] \in {"ended", "raised"} => todo'[q] = {} /\ (pc'[q] = "raised" <=> results'[q] = {})
                      /\ pc'[q] = "logged" <=> outcome'[q] # "none"
                      /\ pc'[q] \in {"loop", "attempt", "logged"} => lock' = q
                      /\ pc'[q] = "attempt" => row'[Least(todo'[q])] # Absent
    BY DEF Places, Working, Present
  <2>1. CASE q = r
    BY <1>0, <2>1
  <2>2. CASE q # r
    BY <1>0, <1>2, <2>2 DEF Places, Working, Present
  <2> QED
    BY <2>1, <2>2
<1>4. Reported'
  BY <1>0 DEF Reported, Present, Logged
<1>5. Loaded'
  BY <1>0 DEF Loaded, Working, Present
<1> QED
  BY <1>0, <1>1, <1>3, <1>4, <1>5, SameHealth

-----------------------------------------------------------------------------
(* The steps of a run *)

LEMMA Start_IInv ==
  ASSUME IInv, NEW r \in Runs, Start(r)
  PROVE  IInv'
<1> USE DEF IInv, wizardVars
<1> DEFINE selected == Selected
           loaded == [c \in selected |-> row[c]]
<1>0. /\ pc[r] = "idle" /\ started < MaxRuns /\ lock = NoRun
      /\ UNCHANGED <<row, log, outcome, rotations, detecting, held, seen>>
      /\ touched' = {} /\ refused' = {} /\ started' = started + 1
      /\ number' = [number EXCEPT ![r] = started + 1] /\ snap' = [snap EXCEPT ![r] = loaded]
      /\ todo' = [todo EXCEPT ![r] = selected]
      /\ results' = [results EXCEPT ![r] = {}] /\ failures' = [failures EXCEPT ![r] = {}]
      /\ \/ selected = {} /\ pc' = [pc EXCEPT ![r] = "raised"] /\ UNCHANGED lock
         \/ selected # {} /\ pc' = [pc EXCEPT ![r] = "loop"] /\ lock' = r
  BY DEF Start, Load, userVars
<1>1. /\ selected \subseteq Connections /\ DOMAIN loaded = selected
      /\ \A c \in selected : loaded[c] = row[c] /\ row[c] \in Row
      /\ loaded \in UNION {[S -> Row] : S \in SUBSET Connections}
  <2>1. \A c \in selected : row[c] \in Row
    BY DEF Typed, Present, Selected
  <2>2. selected \in SUBSET Connections /\ loaded \in [selected -> Row]
    BY <2>1 DEF Selected
  <2> QED
    BY <2>1, <2>2
<1> HIDE DEF selected, loaded
<1>2. Typed'
  <2>1. started' \in 0..MaxRuns
    BY <1>0, RunAssumption DEF Typed
  <2> QED
    BY <1>0, <1>1, <2>1 DEF Typed, Stage
<1>3. \A q \in Runs : ~Working(q)
  BY <1>0, RunAssumption DEF Places, Runs
<1>4. /\ pc'[r] \in {"raised", "loop"} /\ todo'[r] = selected /\ snap'[r] = loaded
      /\ results'[r] = {} /\ failures'[r] = {} /\ outcome'[r] = "none"
      /\ pc'[r] = "loop" => lock' = r
      /\ pc'[r] = "raised" => selected = {}
      /\ \A q \in Runs \ {r} :
           /\ pc'[q] = pc[q] /\ number'[q] = number[q] /\ snap'[q] = snap[q] /\ todo'[q] = todo[q]
           /\ results'[q] = results[q] /\ failures'[q] = failures[q]
  BY <1>0 DEF Typed, Places
<1>5. Places'
  <2> SUFFICES ASSUME NEW q \in Runs
               PROVE  /\ todo'[q] \subseteq DOMAIN snap'[q]
                      /\ results'[q] \cup failures'[q] = DOMAIN snap'[q] \ todo'[q]
                      /\ results'[q] \cap failures'[q] = {}
                      /\ pc'[q] \in {"idle", "refused"} => DOMAIN snap'[q] = {}
                      /\ pc'[q] \in {"attempt", "logged", "aborted"} => todo'[q] # {}
                      /\ pc'[q] \in {"ended", "raised"} => todo'[q] = {} /\ (pc'[q] = "raised" <=> results'[q] = {})
                      /\ pc'[q] = "logged" <=> outcome'[q] # "none"
                      /\ pc'[q] \in {"loop", "attempt", "logged"} => lock' = q
                      /\ pc'[q] = "attempt" => row'[Least(todo'[q])] # Absent
    BY DEF Places, Working, Present
  <2>1. CASE q = r
    BY <1>1, <1>4, <2>1
  <2>2. CASE q # r
    BY <1>0, <1>3, <1>4, <2>2 DEF Places, Working
  <2> QED
    BY <2>1, <2>2
<1>6. Reported'
  <2>1. \A q \in Runs \ {r} : \A c, status : Logged(q, c, status)' = Logged(q, c, status)
    BY <1>0, <1>4 DEF Logged
  <2>2. \A c : Present(c)' = Present(c)
    BY <1>0 DEF Present
  <2> QED
    BY <1>0, <1>4, <2>1, <2>2 DEF Reported
<1>7. Loaded'
  <2> SUFFICES ASSUME NEW q \in Runs, pc'[q] \in {"loop", "attempt", "logged"}
               PROVE  /\ \A c \in todo'[q] :
                           /\ row'[c] = snap'[q][c]
                           /\ row'[c] # Absent =>
                                /\ snap'[q][c].failures <= Tally(log'[c], seen'[c], "failed")
                                /\ row'[c].status = "reauth_required" => snap'[q][c].status = "reauth_required"
                      /\ pc'[q] # "logged"
    BY DEF Loaded, Working, Present
  <2>1. q = r
    BY <1>3, <1>4 DEF Working
  <2>2. \A c \in selected : row[c].failures <= Tally(log[c], seen[c], "failed")
    BY <1>1, Counts, RunAssumption DEF HealthIsWitnessed, Present
  <2> QED
    BY <1>0, <1>1, <1>4, <2>1, <2>2
<1> QED
  BY <1>0, <1>2, <1>5, <1>6, <1>7, SameHealth

LEMMA Finish_IInv ==
  ASSUME IInv, NEW r \in Runs, Finish(r)
  PROVE  IInv'
<1> USE DEF IInv, wizardVars
<1>a. PICK c : c = Least(todo[r])
  OBVIOUS
<1>1. PICK how \in Outcome \ {"none"} :
        /\ how = "ok" \/ snap[r][c].failures < MaxFailures
        /\ outcome' = [outcome EXCEPT ![r] = how]
        /\ log' = [log EXCEPT ![c] = Append(@, [run |-> number[r], status |-> Said(how)])]
  BY <1>a, CurrentIs DEF Finish, Said
<1>2. /\ pc[r] = "attempt" /\ pc' = [pc EXCEPT ![r] = "logged"]
      /\ UNCHANGED <<row, lock, number, snap, todo, results, failures, started, rotations, touched, wizardVars>>
  BY DEF Finish, userVars
<1>b. PICK e : e = [run |-> number[r], status |-> Said(how)]
  OBVIOUS
<1>3. c \in todo[r] /\ c \in Connections /\ Present(c)
  BY <1>a, <1>2, LeastOfTodo DEF Places
<1>4. e \in LogEntry /\ e.status = Said(how) /\ log[c] \in Seq(LogEntry)
  BY <1>b, <1>3 DEF Typed, LogEntry, Said
<1>5. /\ log' \in [Connections -> Seq(LogEntry)] /\ log'[c] = Append(log[c], e)
      /\ \A d \in Connections \ {c} : log'[d] = log[d]
  <2>1. Append(log[c], e) \in Seq(LogEntry)
    BY <1>4, CountAppend
  <2> QED
    BY <1>b, <1>1, <1>3, <2>1 DEF Typed
<1>6. /\ pc'[r] = "logged" /\ outcome'[r] = how
      /\ \A q \in Runs \ {r} : pc'[q] = pc[q] /\ outcome'[q] = outcome[q]
  BY <1>1, <1>2 DEF Typed
<1>7. Typed'
  BY <1>1, <1>2, <1>5 DEF Typed, Stage
<1>8. /\ \A d \in Connections : \A status :
           /\ CountIn(log[d], status) \in Nat /\ CountIn(log'[d], status) \in Nat
           /\ CountIn(log[d], status) <= CountIn(log'[d], status)
      /\ CountIn(log'[c], Said(how)) = CountIn(log[c], Said(how)) + 1
      /\ {log'[c][i] : i \in DOMAIN log'[c]} = {log[c][i] : i \in DOMAIN log[c]} \cup {e}
  <2>1. \A status : /\ CountIn(log[c], status) \in Nat
                    /\ CountIn(log'[c], status) = CountIn(log[c], status) + (IF Said(how) = status THEN 1 ELSE 0)
    BY <1>4, <1>5, CountAppend
  <2>2. \A d \in Connections : \A status : CountIn(log[d], status) \in Nat
    BY <1>4, CountAppend DEF Typed
  <2>3. {log'[c][i] : i \in DOMAIN log'[c]} = {log[c][i] : i \in DOMAIN log[c]} \cup {e}
    <3>1. {Append(log[c], e)[i] : i \in DOMAIN Append(log[c], e)} = {log[c][i] : i \in DOMAIN log[c]} \cup {e}
      BY <1>4, CountAppend
    <3>2. log'[c] = Append(log[c], e)
      BY <1>5
    <3> QED
      BY <3>1, <3>2
  <2>4. \A status : CountIn(log'[c], status) \in Nat /\ CountIn(log[c], status) <= CountIn(log'[c], status)
    BY <2>1
  <2>5. CountIn(log'[c], Said(how)) = CountIn(log[c], Said(how)) + 1
    BY <2>1
  <2>6. \A d \in Connections : \A status :
           /\ CountIn(log[d], status) \in Nat /\ CountIn(log'[d], status) \in Nat
           /\ CountIn(log[d], status) <= CountIn(log'[d], status)
    <3> TAKE d \in Connections
    <3> TAKE status
    <3>1. CASE d = c
      BY <2>2, <2>4, <3>1
    <3>2. CASE d # c
      <4>1. log'[d] = log[d]
        BY <1>5, <3>2
      <4>2. CountIn(log[d], status) \in Nat
        BY <2>2
      <4> QED
        BY <4>1, <4>2
    <3> QED
      BY <3>1, <3>2
  <2> QED
    BY <2>3, <2>5, <2>6
<1>13. /\ \A d \in Connections : \A status \in {"ok", "failed"} :
            /\ Tally(log[d], seen[d], status) \in Nat /\ Tally(log'[d], seen[d], status) \in Nat
            /\ Tally(log[d], seen[d], status) <= Tally(log'[d], seen[d], status)
       /\ Tally(log'[c], seen[c], Said(how)) = Tally(log[c], seen[c], Said(how)) + 1
  <2>1. \A d \in Connections : \A status \in {"ok", "failed"} : seen[d][status] \in Nat
    BY DEF Typed
  <2> QED
    BY <1>3, <1>8, <2>1 DEF Tally, Said
<1>9. Places'
  BY <1>a, <1>1, <1>2, <1>3, <1>6 DEF Places, Working, Present
<1>10. Reported'
  <2>1. \A q \in Runs, d \in Connections : \A status : Logged(q, d, status) => Logged(q, d, status)'
    <3> SUFFICES ASSUME NEW q \in Runs, NEW d \in Connections, NEW status, Logged(q, d, status)
                 PROVE  Logged(q, d, status)'
      OBVIOUS
    <3>1. {log[d][i] : i \in DOMAIN log[d]} \subseteq {log'[d][i] : i \in DOMAIN log'[d]}
      <4>1. CASE d = c
        BY <1>8, <4>1
      <4>2. CASE d # c
        <5>1. log'[d] = log[d]
          BY <1>5, <4>2
        <5> QED
          BY <5>1
      <4> QED
        BY <4>1, <4>2
    <3> QED
      BY <1>2, <3>1 DEF Logged
  <2>2. Logged(r, c, Said(how))'
    BY <1>b, <1>2, <1>8 DEF Logged
  <2>3. \A d : Present(d)' = Present(d)
    BY <1>2 DEF Present
  <2>4. results' = results /\ failures' = failures /\ todo' = todo
    BY <1>2
  <2>5. \A q \in Runs : /\ results[q] \subseteq Connections /\ failures[q] \subseteq Connections
                        /\ pc[q] = "logged" => Least(todo[q]) \in Connections
    BY LeastOfTodo DEF Typed, Places
  <2>6. ASSUME NEW q \in Runs
        PROVE  /\ \A d \in results[q] : Present(d)' => Logged(q, d, "ok")'
               /\ \A d \in failures[q] : Present(d)' => Logged(q, d, "failed")'
    BY <2>1, <2>3, <2>5 DEF Reported
  <2>7. ASSUME NEW q \in Runs, pc'[q] = "logged", Present(Least(todo[q]))'
        PROVE  Logged(q, Least(todo[q]), Said(outcome[q]))'
    <3>1. CASE q = r
      BY <1>a, <1>6, <2>2, <2>4, <3>1
    <3>2. CASE q # r
      BY <1>6, <2>1, <2>3, <2>4, <2>5, <2>7, <3>2 DEF Reported
    <3> QED
      BY <3>1, <3>2
  <2> QED
    BY <2>4, <2>6, <2>7 DEF Reported
<1>11. Loaded'
  <2> SUFFICES ASSUME NEW q \in Runs, pc'[q] \in {"loop", "attempt", "logged"}
               PROVE  /\ \A d \in todo[q] :
                           /\ d \notin touched => row[d] = snap[q][d]
                           /\ Present(d) =>
                                /\ snap[q][d].failures <= Tally(log'[d], seen[d], "failed")
                                /\ (row[d].status = "reauth_required" /\ d \notin refused) => snap[q][d].status = "reauth_required"
                      /\ LET d == Least(todo[q])
                         IN  (pc'[q] = "logged" /\ outcome'[q] # "ok") =>
                               /\ snap[q][d].failures < MaxFailures
                               /\ Present(d) => snap[q][d].failures < Tally(log'[d], seen[d], "failed")
    BY <1>2 DEF Loaded, Working, Present
  <2>1. q = r /\ Working(r)
    BY <1>2, <1>6, RunAssumption DEF Places, Working
  <2>2. \A d \in todo[r] : snap[r][d] \in Row /\ d \in Connections
    BY DEF Typed, Places
  <2>3. \A d \in todo[r] : snap[r][d].failures \in Nat
    BY <2>2 DEF Row
  <2>4. \A d \in todo[r] : Present(d) => snap[r][d].failures <= Tally(log'[d], seen[d], "failed")
    BY <1>13, <2>1, <2>2, <2>3 DEF Loaded
  <2>5. how # "ok" => snap[r][c].failures < Tally(log'[c], seen[c], "failed")
    <3>1. snap[r][c].failures <= Tally(log[c], seen[c], "failed")
      BY <1>3, <2>1 DEF Loaded
    <3> QED
      BY <1>3, <1>13, <2>3, <3>1 DEF Said
  <2> QED
    BY <1>a, <1>1, <1>6, <2>1, <2>4, <2>5 DEF Loaded
<1>12. HealthIsWitnessed'
  <2> SUFFICES ASSUME NEW d \in Connections, Present(d)
               PROVE  /\ row[d].failures <= Tally(log'[d], seen[d], "failed")
                      /\ row[d].lastSync # "none" => Tally(log'[d], seen[d], row[d].lastSync) > 0
    BY <1>2 DEF HealthIsWitnessed, Present, Witnesses, Count, Tally, CountIn
  <2>1. row[d].failures \in Nat /\ row[d].lastSync \in {"none", "ok", "failed"}
    BY DEF Typed, Present, Row, SyncStatus
  <2>2. /\ row[d].failures <= Tally(log[d], seen[d], "failed")
        /\ row[d].lastSync # "none" => Tally(log[d], seen[d], row[d].lastSync) > 0
    BY Counts DEF HealthIsWitnessed
  <2> QED
    BY <1>13, <2>1, <2>2
<1> QED
  BY <1>7, <1>9, <1>10, <1>11, <1>12

\* What the record of an outcome stores: a row its log still witnesses, which waits for a
\* token if it did and the attempt failed for another reason; and, if nobody wrote it since
\* it was loaded, what the W4 function makes of it.
LEMMA RecordRow ==
  ASSUME IInv, NEW r \in Runs, NEW c, c = Least(todo[r]), pc[r] = "logged", Present(c),
         NEW why \in Reasons
  PROVE  LET memory == Marked(snap[r][c], outcome[r], why)
             new == Flush(snap[r][c], memory, row[c])
         IN  /\ c \in todo[r] /\ c \in Connections /\ new \in Row
             /\ new.failures <= Witnesses(c, "failed")
             /\ new.lastSync # "none" => Witnesses(c, new.lastSync) > 0
             /\ (outcome[r] = "transient" /\ row[c].status = "reauth_required" /\ c \notin refused)
                  => new.status = "reauth_required"
             /\ c \notin touched => row[c] = snap[r][c] /\ new = Marked(row[c], outcome[r], why)
<1> USE DEF IInv
<1> DEFINE loaded == snap[r][c]
           memory == Marked(loaded, outcome[r], why)
           new == Flush(loaded, memory, row[c])
<1>1. c \in todo[r] /\ c \in Connections /\ Working(r)
  BY LeastOfTodo DEF Places, Working
<1>2. loaded \in Row /\ row[c] \in Row /\ outcome[r] \in Outcome \ {"none"} /\ log[c] \in Seq(LogEntry)
  BY <1>1 DEF Typed, Places, Present
<1>3. /\ loaded.failures \in Nat /\ row[c].failures \in Nat
      /\ Witnesses(c, "failed") \in Nat
  <2>1. CountIn(log[c], "failed") \in Nat
    <3>1. [run |-> 0, status |-> "ok"] \in LogEntry
      BY RunAssumption DEF LogEntry
    <3> QED
      BY <1>2, <3>1, CountAppend
  <2>2. seen[c]["failed"] \in Nat
    BY <1>1 DEF Typed
  <2> QED
    BY <1>2, <2>1, <2>2, Counts DEF Row, Tally
<1>4. /\ memory \in Row /\ memory.lastSync = Said(outcome[r])
      /\ memory.failures = (IF outcome[r] = "ok" THEN 0 ELSE loaded.failures + 1)
      /\ (outcome[r] = "transient" /\ loaded.status = "reauth_required") => memory.status = loaded.status
  BY <1>2, MarkedRow
<1> HIDE DEF loaded, memory
<1>5. /\ new \in Row
      /\ new.status = (IF memory.status # loaded.status THEN memory.status ELSE row[c].status)
      /\ new.failures = (IF memory.failures # loaded.failures THEN memory.failures ELSE row[c].failures)
      /\ new.lastSync = (IF memory.lastSync # loaded.lastSync THEN memory.lastSync ELSE row[c].lastSync)
  BY <1>2, <1>4, FlushRow
<1>6. /\ row[c].failures <= Witnesses(c, "failed")
      /\ row[c].lastSync # "none" => Witnesses(c, row[c].lastSync) > 0
  BY <1>1 DEF HealthIsWitnessed
<1>7. outcome[r] # "ok" => loaded.failures < Witnesses(c, "failed")
  BY Counts, <1>1 DEF Loaded, loaded
<1>8. new.failures <= Witnesses(c, "failed")
  BY <1>3, <1>4, <1>5, <1>6, <1>7
<1>9. new.lastSync # "none" => Witnesses(c, new.lastSync) > 0
  <2>1. Logged(r, c, Said(outcome[r]))
    BY <1>1 DEF Reported
  <2>2. Witnesses(c, Said(outcome[r])) > 0
    <3>1. [run |-> number[r], status |-> Said(outcome[r])] \in {log[c][i] : i \in DOMAIN log[c]}
      BY <2>1 DEF Logged
    <3>2. CountIn(log[c], Said(outcome[r])) > 0 /\ CountIn(log[c], Said(outcome[r])) \in Nat
      <4>1. [run |-> 0, status |-> "ok"] \in LogEntry
        BY RunAssumption DEF LogEntry
      <4>2. CountIn(log[c], Said(outcome[r])) \in Nat
        BY <1>2, <4>1, CountAppend
      <4> QED
        BY <1>2, <3>1, <4>2, CountPositive
    <3>3. seen[c][Said(outcome[r])] \in Nat
      BY <1>1 DEF Typed, Said
    <3> QED
      BY <3>2, <3>3, Counts DEF Tally
  <2> QED
    BY <1>4, <1>5, <1>6, <2>2
<1>10. (row[c].status = "reauth_required" /\ c \notin refused) => loaded.status = "reauth_required"
  BY <1>1 DEF Loaded, loaded
<1>11. c \notin touched => row[c] = loaded
  BY <1>1 DEF Loaded, loaded
<1>12. c \notin touched => new = memory
  BY <1>2, <1>4, <1>11, FlushFresh
<1> QED
  BY <1>1, <1>4, <1>5, <1>8, <1>9, <1>10, <1>11, <1>12 DEF loaded, memory

LEMMA Record_IInv ==
  ASSUME IInv, NEW r \in Runs, Record(r)
  PROVE  IInv'
<1> USE DEF IInv, wizardVars
<1>1. PICK c : c = Least(todo[r])
  OBVIOUS
<1>2. pc[r] = "logged" /\ Present(c) /\ Current(r) = c
  BY <1>1, CurrentIs DEF Record
<1>3. PICK why \in Reasons :
        row' = [row EXCEPT ![c] = Flush(snap[r][c], Marked(snap[r][c], outcome[r], why), row[c])]
  BY <1>2 DEF Record, Flushed
<1>4. PICK new : new = Flush(snap[r][c], Marked(snap[r][c], outcome[r], why), row[c])
  OBVIOUS
<1>5. /\ c \in todo[r] /\ c \in Connections /\ new \in Row
      /\ new.failures <= Witnesses(c, "failed")
      /\ new.lastSync # "none" => Witnesses(c, new.lastSync) > 0
  BY <1>1, <1>2, <1>4, RecordRow
<1>6. /\ row' \in [Connections -> Row \cup {Absent}] /\ row'[c] = new
      /\ \A d \in Connections \ {c} : row'[d] = row[d]
      /\ \A d \in Connections : row'[d] # Absent <=> row[d] # Absent
  BY <1>2, <1>3, <1>4, <1>5, RunAssumption DEF Typed, Present
<1>7. /\ UNCHANGED <<log, lock, number, snap, started, rotations, touched, wizardVars>>
      /\ pc' = [pc EXCEPT ![r] = "loop"] /\ outcome' = [outcome EXCEPT ![r] = "none"]
      /\ todo' = [todo EXCEPT ![r] = @ \ {c}]
      /\ \/ /\ outcome[r] = "ok" /\ results' = [results EXCEPT ![r] = @ \cup {c}]
            /\ failures' = failures
         \/ /\ outcome[r] # "ok" /\ results' = results
            /\ failures' = [failures EXCEPT ![r] = @ \cup {c}]
  BY <1>2 DEF Record, userVars, Typed
<1>8. /\ pc'[r] = "loop" /\ outcome'[r] = "none" /\ todo'[r] = todo[r] \ {c}
      /\ results'[r] = IF outcome[r] = "ok" THEN results[r] \cup {c} ELSE results[r]
      /\ failures'[r] = IF outcome[r] = "ok" THEN failures[r] ELSE failures[r] \cup {c}
      /\ \A q \in Runs \ {r} :
           /\ pc'[q] = pc[q] /\ outcome'[q] = outcome[q] /\ todo'[q] = todo[q]
           /\ results'[q] = results[q] /\ failures'[q] = failures[q]
  BY <1>7 DEF Typed
<1>9. Typed'
  <2>1. results' \in [Runs -> SUBSET Connections] /\ failures' \in [Runs -> SUBSET Connections]
    <3>1. ASSUME NEW f \in [Runs -> SUBSET Connections]
          PROVE  [f EXCEPT ![r] = @ \cup {c}] \in [Runs -> SUBSET Connections]
      BY <1>5
    <3>2. results \in [Runs -> SUBSET Connections] /\ failures \in [Runs -> SUBSET Connections]
      BY DEF Typed
    <3> QED
      BY <1>7, <3>1, <3>2
  <2>2. todo' \in [Runs -> SUBSET Connections]
    BY <1>7 DEF Typed
  <2>3. pc' \in [Runs -> Stage] /\ outcome' \in [Runs -> Outcome]
    BY <1>7 DEF Typed, Stage, Outcome
  <2> QED
    BY <1>6, <1>7, <2>1, <2>2, <2>3 DEF Typed
<1>10. Places'
  <2> SUFFICES ASSUME NEW q \in Runs
               PROVE  /\ todo'[q] \subseteq DOMAIN snap'[q]
                      /\ results'[q] \cup failures'[q] = DOMAIN snap'[q] \ todo'[q]
                      /\ results'[q] \cap failures'[q] = {}
                      /\ pc'[q] \in {"idle", "refused"} => DOMAIN snap'[q] = {}
                      /\ pc'[q] \in {"attempt", "logged", "aborted"} => todo'[q] # {}
                      /\ pc'[q] \in {"ended", "raised"} => todo'[q] = {} /\ (pc'[q] = "raised" <=> results'[q] = {})
                      /\ pc'[q] = "logged" <=> outcome'[q] # "none"
                      /\ pc'[q] \in {"loop", "attempt", "logged"} => lock' = q
                      /\ pc'[q] = "attempt" => row'[Least(todo'[q])] # Absent
    BY DEF Places, Working, Present
  <2>1. CASE q = r
    <3>1. /\ todo[r] \subseteq DOMAIN snap[r] /\ results[r] \cup failures[r] = DOMAIN snap[r] \ todo[r]
          /\ results[r] \cap failures[r] = {} /\ lock = r
      BY <1>2 DEF Places, Working
    <3> QED
      BY <1>5, <1>7, <1>8, <2>1, <3>1
  <2>2. CASE q # r
    <3>1. pc[q] # "attempt"
      BY <1>2, <2>2 DEF Places, Working
    <3> QED
      BY <1>7, <1>8, <2>2, <3>1 DEF Places, Working
  <2> QED
    BY <2>1, <2>2
<1>11. Reported'
  <2>1. /\ \A q, d, status : Logged(q, d, status)' = Logged(q, d, status)
        /\ \A d \in Connections : Present(d)' = Present(d)
    BY <1>6, <1>7 DEF Logged, Present
  <2>2. \A q \in Runs \ {r} : pc'[q] # "logged"
    BY <1>2, <1>8 DEF Places, Working
  <2>3. Logged(r, c, Said(outcome[r]))
    BY <1>1, <1>2 DEF Reported
  <2>4. ASSUME NEW q \in Runs
        PROVE  /\ \A d \in results'[q] : Present(d) => Logged(q, d, "ok")
               /\ \A d \in failures'[q] : Present(d) => Logged(q, d, "failed")
    <3>1. CASE q = r
      BY <1>8, <2>3, <3>1 DEF Reported, Said
    <3>2. CASE q # r
      BY <1>8, <3>2 DEF Reported
    <3> QED
      BY <3>1, <3>2
  <2>5. \A q \in Runs : results'[q] \subseteq Connections /\ failures'[q] \subseteq Connections /\ pc'[q] # "logged"
    BY <1>8, <1>9, <2>2 DEF Typed
  <2> QED
    BY <2>1, <2>4, <2>5 DEF Reported
<1>12. Loaded'
  <2> SUFFICES ASSUME NEW q \in Runs, pc'[q] \in {"loop", "attempt", "logged"}
               PROVE  /\ \A d \in todo'[q] :
                           /\ d \notin touched => row'[d] = snap[q][d]
                           /\ row'[d] # Absent =>
                                /\ snap[q][d].failures <= Tally(log[d], seen[d], "failed")
                                /\ (row'[d].status = "reauth_required" /\ d \notin refused) => snap[q][d].status = "reauth_required"
                      /\ pc'[q] # "logged"
    BY <1>7 DEF Loaded, Working, Present
  <2>1. q = r /\ Working(r)
    BY <1>2, <1>8 DEF Places, Working
  <2>2. \A d \in todo[r] \ {c} : row'[d] = row[d]
    BY <1>6 DEF Typed
  <2> QED
    BY <1>8, <2>1, <2>2 DEF Loaded, Present
<1>13. HealthIsWitnessed'
  <2>1. \A d, status : Witnesses(d, status)' = Witnesses(d, status)
    BY <1>7 DEF Count, Witnesses
  <2>2. ASSUME NEW d \in Connections, row'[d] # Absent
        PROVE  /\ row'[d].failures <= Witnesses(d, "failed")
               /\ row'[d].lastSync # "none" => Witnesses(d, row'[d].lastSync) > 0
    <3>1. CASE d = c
      BY <1>5, <1>6, <3>1
    <3>2. CASE d # c
      BY <1>6, <2>2, <3>2 DEF HealthIsWitnessed, Present
    <3> QED
      BY <3>1, <3>2
  <2> QED
    BY <2>1, <2>2 DEF HealthIsWitnessed, Present
<1> QED
  BY <1>9, <1>10, <1>11, <1>12, <1>13

LEMMA Forget_IInv ==
  ASSUME IInv, Forget, log' \in [Connections -> Seq(LogEntry)],
         \A c \in Connections : \A status : Count(c, status) <= Count(c, status)' /\ Count(c, status) \in Nat
                                              /\ Count(c, status)' \in Nat
  PROVE  IInv'
<1> USE DEF IInv, Forget
<1>1. Typed'
  <2>1. <<>> \in UNION {[S -> Row] : S \in SUBSET Connections}
    <3>1. <<>> \in [{} -> Row]
      OBVIOUS
    <3> QED
      BY <3>1
  <2>2. /\ snap' \in [Runs -> UNION {[S -> Row] : S \in SUBSET Connections}]
        /\ number' \in [Runs -> 0..MaxRuns]
    <3>1. snap' = [r \in Runs |-> <<>>] /\ number' = [r \in Runs |-> 0] /\ 0 \in 0..MaxRuns
      BY RunAssumption
    <3> QED
      BY ONLY <2>1, <3>1
  <2>3. pc' \in [Runs -> Stage] /\ outcome' \in [Runs -> Outcome]
    BY DEF Stage, Outcome
  <2>4. /\ todo' \in [Runs -> SUBSET Connections] /\ results' \in [Runs -> SUBSET Connections]
        /\ failures' \in [Runs -> SUBSET Connections]
    OBVIOUS
  <2>7. /\ detecting' \in SUBSET Connections /\ held' \in [Connections -> Row \cup {Absent}]
        /\ seen' \in [Connections -> [{"ok", "failed"} -> Nat]]
    BY DEF Typed, NoneHeld
  <2>5. rotations' \subseteq [id : Connections, loaded : Row] /\ lock' \in Runs \cup {NoRun}
    OBVIOUS
  <2>6. row' \in [Connections -> Row \cup {Absent}] /\ started' \in 0..MaxRuns
    BY DEF Typed
  <2> QED
    BY <2>2, <2>3, <2>4, <2>5, <2>6, <2>7 DEF Typed
<1>2. Places' /\ Reported' /\ Loaded'
  BY DEF Places, Reported, Loaded, Working
<1>3. HealthIsWitnessed'
  <2> SUFFICES ASSUME NEW c \in Connections, Present(c)
               PROVE  /\ row[c].failures <= Witnesses(c, "failed")'
                      /\ row[c].lastSync # "none" => \A status : status = row[c].lastSync => Witnesses(c, status)' > 0
    BY DEF HealthIsWitnessed, Present
  <2>1. row[c].failures \in Nat /\ row[c].lastSync \in {"none", "ok", "failed"}
    BY DEF Typed, Present, Row, SyncStatus
  <2>2. /\ row[c].failures <= Witnesses(c, "failed")
        /\ row[c].lastSync # "none" => Witnesses(c, row[c].lastSync) > 0
    BY DEF HealthIsWitnessed
  <2>3. \A status \in {"ok", "failed"} :
          /\ Witnesses(c, status) <= Witnesses(c, status)' /\ Witnesses(c, status) \in Nat
          /\ Witnesses(c, status)' \in Nat
    <3>1. \A status \in {"ok", "failed"} : seen[c][status] \in Nat
      BY DEF Typed
    <3> QED
      <4> SUFFICES ASSUME NEW status \in {"ok", "failed"}
                   PROVE  /\ Witnesses(c, status) <= Witnesses(c, status)' /\ Witnesses(c, status) \in Nat
                          /\ Witnesses(c, status)' \in Nat
        OBVIOUS
      <4>1. seen[c][status] \in Nat /\ seen' = seen
        BY <3>1
      <4>2. Count(c, status) \in Nat /\ Count(c, status)' \in Nat /\ Count(c, status) <= Count(c, status)'
        OBVIOUS
      <4> QED
        BY ONLY <4>1, <4>2 DEF Witnesses
  <2> QED
    BY <2>1, <2>2, <2>3
<1> QED
  BY <1>1, <1>2, <1>3

LEMMA Crash_IInv ==
  ASSUME IInv, Crash
  PROVE  IInv'
<1>1. [run |-> 0, status |-> "ok"] \in LogEntry
  BY RunAssumption DEF LogEntry
<1>2. \A c \in Connections : \A status : CountIn(log[c], status) \in Nat
  BY <1>1, CountAppend DEF IInv, Typed
<1>3. \A c, status : Count(c, status)' = Count(c, status)
  BY DEF Crash, Count
<1>4. \A c \in Connections : \A status : Count(c, status) <= Count(c, status)' /\ Count(c, status) \in Nat
                                           /\ Count(c, status)' \in Nat
  BY <1>2, <1>3, Counts
<1> QED
  BY <1>4, Forget_IInv DEF Crash, IInv, Typed

LEMMA Cancel_IInv ==
  ASSUME IInv, NEW r \in Runs, Cancel(r)
  PROVE  IInv'
<1>1. PICK c : c = Least(todo[r])
  OBVIOUS
<1>2. PICK e : e = [run |-> number[r], status |-> "running"]
  OBVIOUS
<1>3. c \in Connections /\ log[c] \in Seq(LogEntry) /\ e \in LogEntry
  <2>1. c \in Connections
    BY <1>1, LeastOfTodo DEF Cancel, IInv, Places
  <2> QED
    BY <1>2, <2>1 DEF IInv, Typed, LogEntry
<1>4. log' = [log EXCEPT ![c] = Append(@, e)]
  BY <1>1, <1>2, CurrentIs DEF Cancel
<1>5. /\ log' \in [Connections -> Seq(LogEntry)] /\ log'[c] = Append(log[c], e)
      /\ \A d \in Connections \ {c} : log'[d] = log[d]
  <2>1. Append(log[c], e) \in Seq(LogEntry)
    BY <1>3, CountAppend
  <2> QED
    BY <1>3, <1>4, <2>1 DEF IInv, Typed
<1>6. ASSUME NEW d \in Connections, NEW status
      PROVE  /\ Count(d, status) <= Count(d, status)'
             /\ Count(d, status) \in Nat /\ Count(d, status)' \in Nat
  <2>1. CountIn(log[d], status) \in Nat
    BY <1>3, CountAppend DEF IInv, Typed
  <2>2. CountIn(log'[d], status) \in Nat /\ CountIn(log[d], status) <= CountIn(log'[d], status)
    <3>1. CASE d = c
      <4>1. CountIn(Append(log[c], e), status) = CountIn(log[c], status) + (IF e.status = status THEN 1 ELSE 0)
        BY <1>3, CountAppend
      <4>2. log'[d] = Append(log[c], e) /\ log[d] = log[c]
        BY <1>5, <3>1
      <4>3. CountIn(log'[d], status) = CountIn(log[d], status) + (IF e.status = status THEN 1 ELSE 0)
        BY ONLY <4>1, <4>2, Zenon
      <4> QED
        BY ONLY <2>1, <4>3
    <3>2. CASE d # c
      <4>1. log'[d] = log[d]
        BY <1>5, <3>2
      <4> QED
        BY <2>1, <4>1
    <3> QED
      BY <3>1, <3>2
  <2>3. Count(d, status) = CountIn(log[d], status) /\ Count(d, status)' = CountIn(log'[d], status)
    BY DEF Count, CountIn
  <2> QED
    BY <2>1, <2>2, <2>3
<1> QED
  BY <1>5, <1>6, Forget_IInv DEF Cancel

-----------------------------------------------------------------------------
(* The steps of users *)

\* A row is written outside a run: a new one, or one whose health is witnessed and that
\* waits for a token only if the old one did or a detection found it refused.
LEMMA Write_IInv ==
  ASSUME IInv, NEW c \in Connections, NEW new \in Row, UserWrites(c, new),
         rotations' \subseteq rotations,
         detecting' \in SUBSET Connections, held' \in [Connections -> Row \cup {Absent}],
         seen' \in [Connections -> [{"ok", "failed"} -> Nat]],
         \A d \in Connections : \A status \in {"ok", "failed"} : seen[d][status] <= seen'[d][status],
         refused \subseteq refused', refused' \subseteq touched',
         \/ /\ Present(c) /\ new.failures <= Tally(log[c], seen'[c], "failed")
            /\ new.lastSync # "none" => Tally(log[c], seen'[c], new.lastSync) > 0
            /\ new.status = "reauth_required" => row[c].status = "reauth_required" \/ c \in refused'
         \/ /\ ~Present(c) /\ new = NewRow /\ \A r \in Runs : c \notin DOMAIN snap[r]
  PROVE  IInv'
<1> USE DEF IInv
<1>1. /\ UNCHANGED <<log, lock, pc, number, snap, todo, outcome, results, failures, started>>
      /\ touched' = touched \cup {c} /\ row' = [row EXCEPT ![c] = new]
  BY DEF UserWrites, runVars
<1>2. /\ row' \in [Connections -> Row \cup {Absent}] /\ row'[c] = new /\ new # Absent
      /\ \A d \in Connections \ {c} : row'[d] = row[d]
  BY <1>1, RunAssumption DEF Typed
<1>3. Typed'
  BY <1>1, <1>2 DEF Typed
<1>4. \A r \in Runs : /\ todo[r] \subseteq Connections /\ results[r] \subseteq DOMAIN snap[r]
                      /\ failures[r] \subseteq DOMAIN snap[r] /\ todo[r] \subseteq DOMAIN snap[r]
                      /\ DOMAIN snap[r] \subseteq Connections
                      /\ pc[r] \in {"attempt", "logged"} => Least(todo[r]) \in todo[r]
  BY LeastOfTodo DEF Typed, Places
<1>5. \A r \in Runs : \A d \in DOMAIN snap[r] : row'[d] # Absent <=> row[d] # Absent
  BY <1>2, <1>4 DEF Present
<1>6. Places'
  BY <1>1, <1>4, <1>5 DEF Places, Working, Present
<1>7. Reported'
  <2>1. \A r, d, status : Logged(r, d, status)' = Logged(r, d, status)
    BY <1>1 DEF Logged
  <2> QED
    BY <1>1, <1>4, <1>5, <2>1 DEF Reported, Present
<1>8. ASSUME NEW d \in Connections, NEW status \in {"ok", "failed"}
      PROVE  /\ Tally(log[d], seen[d], status) \in Nat /\ Tally(log[d], seen'[d], status) \in Nat
             /\ Tally(log[d], seen[d], status) <= Tally(log[d], seen'[d], status)
  <2>2. CountIn(log[d], status) \in Nat
    BY CountNat
  <2>3. seen[d][status] \in Nat /\ seen'[d][status] \in Nat /\ seen[d][status] <= seen'[d][status]
    BY DEF Typed
  <2> QED
    BY <2>2, <2>3 DEF Tally
<1>9. Loaded'
  <2> SUFFICES ASSUME NEW r \in Runs, Working(r)
               PROVE  /\ \A d \in todo[r] :
                           /\ d \notin touched' => row'[d] = snap[r][d]
                           /\ row'[d] # Absent =>
                                /\ snap[r][d].failures <= Tally(log[d], seen'[d], "failed")
                                /\ (row'[d].status = "reauth_required" /\ d \notin refused')
                                     => snap[r][d].status = "reauth_required"
                      /\ LET d == Least(todo[r])
                         IN  (pc[r] = "logged" /\ outcome[r] # "ok") =>
                               /\ snap[r][d].failures < MaxFailures
                               /\ row'[d] # Absent => snap[r][d].failures < Tally(log[d], seen'[d], "failed")
    BY <1>1 DEF Loaded, Working, Present
  <2>1. \A d \in todo[r] : d \in Connections /\ snap[r][d].failures \in Nat
    <3>1. \A d \in todo[r] : d \in Connections /\ d \in DOMAIN snap[r]
      BY <1>4
    <3>2. \A d \in DOMAIN snap[r] : snap[r][d] \in Row
      BY DEF Typed
    <3> QED
      BY <3>1, <3>2 DEF Row
  <2>2. ASSUME NEW d \in todo[r]
        PROVE  /\ d \notin touched' => row'[d] = snap[r][d]
               /\ row'[d] # Absent =>
                    /\ snap[r][d].failures <= Tally(log[d], seen'[d], "failed")
                    /\ (row'[d].status = "reauth_required" /\ d \notin refused')
                         => snap[r][d].status = "reauth_required"
    <3>1. d \notin touched' => row'[d] = snap[r][d]
      BY <1>1, <1>2, <2>1 DEF Loaded
    <3>2. row'[d] # Absent => snap[r][d].failures <= Tally(log[d], seen'[d], "failed")
      <4>1. row'[d] # Absent => snap[r][d].failures <= Tally(log[d], seen[d], "failed")
        BY <1>4, <1>5 DEF Loaded, Present
      <4> QED
        BY <1>8, <2>1, <4>1
    <3>3. (row'[d] # Absent /\ row'[d].status = "reauth_required" /\ d \notin refused')
            => snap[r][d].status = "reauth_required"
      <4>1. (row[d] # Absent /\ row[d].status = "reauth_required" /\ d \notin refused)
              => snap[r][d].status = "reauth_required"
        BY DEF Loaded, Present
      <4>2. d = c => Present(c)
        BY <1>4 DEF Present
      <4> QED
        BY <1>2, <2>1, <4>1, <4>2 DEF Present
    <3> QED
      BY <3>1, <3>2, <3>3
  <2>3. ASSUME NEW d, d = Least(todo[r]), pc[r] = "logged", outcome[r] # "ok"
        PROVE  /\ snap[r][d].failures < MaxFailures
               /\ row'[d] # Absent => snap[r][d].failures < Tally(log[d], seen'[d], "failed")
    <3>1. /\ d \in todo[r] /\ snap[r][d].failures < MaxFailures
          /\ row'[d] # Absent => snap[r][d].failures < Tally(log[d], seen[d], "failed")
      BY <1>4, <1>5, <2>3 DEF Loaded, Present
    <3> QED
      BY <1>8, <2>1, <3>1
  <2> QED
    BY <2>2, <2>3
<1>10. HealthIsWitnessed'
  <2>1. \A d, status : Witnesses(d, status)' = Tally(log[d], seen'[d], status)
    BY <1>1 DEF Witnesses, Count, Tally, CountIn
  <2>2. ASSUME NEW d \in Connections, row'[d] # Absent
        PROVE  /\ row'[d].failures <= Tally(log[d], seen'[d], "failed")
               /\ row'[d].lastSync # "none" => Tally(log[d], seen'[d], row'[d].lastSync) > 0
    <3>1. CASE d = c
      BY <1>2, <1>8, <3>1 DEF NewRow
    <3>2. CASE d # c
      <4>1. row'[d] = row[d] /\ Present(d)
        BY <1>2, <2>2, <3>2 DEF Present
      <4>2. row[d].failures \in Nat /\ row[d].lastSync \in {"none", "ok", "failed"}
        BY <4>1 DEF Typed, Present, Row, SyncStatus
      <4>3. /\ row[d].failures <= Tally(log[d], seen[d], "failed")
            /\ row[d].lastSync # "none" => Tally(log[d], seen[d], row[d].lastSync) > 0
        BY <4>1, Counts DEF HealthIsWitnessed
      <4> QED
        BY <1>8, <4>1, <4>2, <4>3
    <3> QED
      BY <3>1, <3>2
  <2> QED
    BY <2>1, <2>2 DEF HealthIsWitnessed, Present
<1> QED
  BY <1>3, <1>6, <1>7, <1>9, <1>10

\* A user writes a row: a new one, or one that counts no more failures than the one it
\* replaces and does not begin to wait for a token.
LEMMA UserWrite_IInv ==
  ASSUME IInv, NEW c \in Connections, NEW new \in Row, UserWrites(c, new),
         rotations' \subseteq rotations, UNCHANGED wizardVars,
         \/ /\ Present(c) /\ new.failures <= row[c].failures /\ new.lastSync = row[c].lastSync
            /\ new.status = "reauth_required" => row[c].status = "reauth_required"
         \/ /\ ~Present(c) /\ new = NewRow /\ \A r \in Runs : c \notin DOMAIN snap[r]
  PROVE  IInv'
<1>1. /\ detecting' \in SUBSET Connections /\ held' \in [Connections -> Row \cup {Absent}]
      /\ seen' = seen /\ refused' = refused
      /\ seen' \in [Connections -> [{"ok", "failed"} -> Nat]]
      /\ \A d \in Connections : \A status \in {"ok", "failed"} : seen[d][status] <= seen'[d][status]
      /\ refused' \subseteq touched'
  BY DEF IInv, Typed, wizardVars, UserWrites
<1>2. Present(c) => /\ row[c].failures <= Tally(log[c], seen[c], "failed")
                    /\ row[c].lastSync # "none" => Tally(log[c], seen[c], row[c].lastSync) > 0
  BY Counts DEF IInv, HealthIsWitnessed
<1>3. Present(c) => /\ new.failures <= Tally(log[c], seen'[c], "failed")
                    /\ new.lastSync # "none" => Tally(log[c], seen'[c], new.lastSync) > 0
                    /\ new.status = "reauth_required" => row[c].status = "reauth_required"
  <2>1. Tally(log[c], seen[c], "failed") \in Nat
    BY CountNat DEF IInv, Typed, Tally
  <2>2. Present(c) => row[c].failures \in Nat /\ new.failures \in Nat
    BY DEF IInv, Typed, Present, Row
  <2> QED
    BY <1>1, <1>2, <2>1, <2>2
<1> QED
  BY <1>1, <1>3, Write_IInv

LEMMA Delete_IInv ==
  ASSUME IInv, NEW c \in Connections, Delete(c)
  PROVE  IInv'
<1> USE DEF IInv
<1>1. /\ UNCHANGED <<lock, pc, number, snap, todo, outcome, results, failures, started, rotations, detecting, held,
                     refused>>
      /\ touched' = touched \cup {c} /\ row' = [row EXCEPT ![c] = Absent]
      /\ log' = [log EXCEPT ![c] = <<>>]
      /\ seen' = [seen EXCEPT ![c] = [status \in {"ok", "failed"} |-> 0]]
      /\ \A r \in Runs : ~(pc[r] = "attempt" /\ Least(todo[r]) = c)
  BY CurrentIs DEF Delete, runVars
<1>2. /\ row' \in [Connections -> Row \cup {Absent}] /\ row'[c] = Absent
      /\ log' \in [Connections -> Seq(LogEntry)]
      /\ seen' \in [Connections -> [{"ok", "failed"} -> Nat]]
      /\ \A d \in Connections \ {c} : row'[d] = row[d] /\ log'[d] = log[d] /\ seen'[d] = seen[d]
  <2>1. <<>> \in Seq(LogEntry)
    OBVIOUS
  <2> QED
    BY <1>1, <2>1 DEF Typed
<1>3. Typed'
  BY <1>1, <1>2 DEF Typed
<1>4. \A r \in Runs : /\ todo[r] \subseteq Connections /\ results[r] \subseteq Connections
                      /\ failures[r] \subseteq Connections
                      /\ pc[r] \in {"attempt", "logged"} => Least(todo[r]) \in Connections
  BY LeastOfTodo DEF Typed, Places
<1>5. Places'
  BY <1>1, <1>2, <1>4 DEF Places, Working, Present
<1>6. Reported'
  <2>1. \A r \in Runs, d \in Connections \ {c} : \A status : Logged(r, d, status)' = Logged(r, d, status)
    BY <1>1, <1>2 DEF Logged
  <2>2. \A d \in Connections : Present(d)' => d # c /\ Present(d)
    BY <1>2 DEF Present
  <2> QED
    BY <1>1, <1>4, <2>1, <2>2 DEF Reported
<1>7. Loaded'
  BY <1>1, <1>2, <1>4 DEF Loaded, Working, Present
<1>8. HealthIsWitnessed'
  <2>1. \A d \in Connections \ {c} : \A status : Witnesses(d, status)' = Witnesses(d, status)
    BY <1>2 DEF Witnesses, Count
  <2>2. ASSUME NEW d \in Connections, row'[d] # Absent
        PROVE  /\ row'[d].failures <= Witnesses(d, "failed")'
               /\ row'[d].lastSync # "none" => \A status : status = row'[d].lastSync => Witnesses(d, status)' > 0
    <3>1. d # c /\ row'[d] = row[d] /\ Present(d)
      BY <1>2, <2>2 DEF Present
    <3>2. \A status : Witnesses(d, status)' = Witnesses(d, status)
      BY <2>1, <3>1
    <3>3. /\ row[d].failures <= Witnesses(d, "failed")
          /\ row[d].lastSync # "none" => Witnesses(d, row[d].lastSync) > 0
      BY <3>1 DEF HealthIsWitnessed
    <3> QED
      BY <3>1, <3>2, <3>3
  <2> QED
    BY <2>2 DEF HealthIsWitnessed, Present
<1> QED
  BY <1>3, <1>5, <1>6, <1>7, <1>8

LEMMA RotateDone_IInv ==
  ASSUME IInv, NEW t \in rotations, RotateDone(t)
  PROVE  IInv'
<1> DEFINE c == t.id
           new == Flush(t.loaded, MarkRotated(t.loaded), row[c])
<1>1. c \in Connections /\ t.loaded \in Row /\ Present(c) /\ row[c] \in Row
  BY DEF RotateDone, IInv, Typed, Present
<1>2. /\ MarkRotated(t.loaded) \in Row /\ MarkRotated(t.loaded).failures = 0
      /\ MarkRotated(t.loaded).lastSync = t.loaded.lastSync
      /\ MarkRotated(t.loaded).status # "reauth_required"
  BY <1>1, UserRow
<1>3. /\ new \in Row
      /\ new.status \in {MarkRotated(t.loaded).status, row[c].status}
      /\ new.failures \in {0, row[c].failures} /\ new.lastSync = row[c].lastSync
  BY <1>1, <1>2, FlushRow
<1>4. row[c].failures \in Nat
  BY <1>1 DEF Row
<1>5. /\ new.failures <= row[c].failures
      /\ new.status = "reauth_required" => row[c].status = "reauth_required"
  BY <1>2, <1>3, <1>4
<1>6. UserWrites(c, new) /\ rotations' \subseteq rotations /\ UNCHANGED wizardVars
  BY DEF RotateDone
<1> HIDE DEF c, new
<1> QED
  BY <1>1, <1>3, <1>5, <1>6, UserWrite_IInv

\* Requests in flight are all that changes.
LEMMA Rotations_IInv ==
  ASSUME IInv, UNCHANGED <<row, log, lock, runVars, touched, refused, seen>>,
         rotations' \subseteq [id : Connections, loaded : Row],
         detecting' \in SUBSET Connections, held' \in [Connections -> Row \cup {Absent}]
  PROVE  IInv'
<1> USE DEF IInv
<1>1. Typed' /\ Places'
  BY DEF Typed, Places, Working, Present, runVars
<1>2. Reported'
  BY DEF Reported, Present, Logged, runVars
<1>3. Loaded'
  BY DEF Loaded, Working, Present, runVars
<1> QED
  BY <1>1, <1>2, <1>3, SameHealth

LEMMA UserStep_IInv ==
  ASSUME IInv, UserStep
  PROVE  IInv'
<1>1. ASSUME NEW c \in Connections, Create(c) PROVE IInv'
  <2>1. NewRow \in Row
    BY DEF NewRow, Row, Status, SyncStatus
  <2> QED
    BY <1>1, <2>1, UserWrite_IInv DEF Create
<1>2. ASSUME NEW c \in Connections, NEW enabled \in BOOLEAN, Present(c),
             UserWrites(c, SetEnabled(row[c], enabled)), UNCHANGED <<rotations, wizardVars>>
      PROVE  IInv'
  <2>1. row[c] \in Row
    BY <1>2 DEF IInv, Typed, Present
  <2>2. /\ SetEnabled(row[c], enabled) \in Row /\ SetEnabled(row[c], enabled).failures <= row[c].failures
        /\ SetEnabled(row[c], enabled).lastSync = row[c].lastSync
        /\ SetEnabled(row[c], enabled).status # "reauth_required"
    BY <2>1, UserRow
  <2> QED
    BY <1>2, <2>2, UserWrite_IInv
<1>3. ASSUME NEW c \in Connections, Disable(c) \/ Enable(c) PROVE IInv'
  BY <1>2, <1>3 DEF Disable, Enable
<1>4. ASSUME NEW c \in Connections, RotateAsk(c) PROVE IInv'
  <2>1. /\ rotations' \subseteq [id : Connections, loaded : Row]
        /\ detecting' \in SUBSET Connections /\ held' \in [Connections -> Row \cup {Absent}]
    BY <1>4 DEF RotateAsk, IInv, Typed, Present, wizardVars
  <2> QED
    BY <1>4, <2>1, Rotations_IInv DEF RotateAsk, wizardVars
<1>5. ASSUME NEW t \in rotations, RotateFail(t) PROVE IInv'
  <2>1. /\ rotations' \subseteq [id : Connections, loaded : Row]
        /\ detecting' \in SUBSET Connections /\ held' \in [Connections -> Row \cup {Absent}]
    BY <1>5 DEF RotateFail, IInv, Typed, wizardVars
  <2> QED
    BY <1>5, <2>1, Rotations_IInv DEF RotateFail, wizardVars
<1> QED
  BY <1>1, <1>3, <1>4, <1>5, Delete_IInv, RotateDone_IInv DEF UserStep

-----------------------------------------------------------------------------
(* The steps of the wizard *)

\* A detection's own write: at most one failure more, and a sync status that is the
\* detection's or the stored one.
LEMMA Detected_IInv ==
  ASSUME IInv, NEW c \in Connections, NEW new \in Row, NEW status \in {"ok", "failed"},
         Present(c), UserWrites(c, new), Counted(c, status), UNCHANGED rotations,
         detecting' \in SUBSET Connections, held' \in [Connections -> Row \cup {Absent}],
         refused \subseteq refused', refused' \subseteq refused \cup {c},
         new.failures <= row[c].failures + (IF status = "failed" THEN 1 ELSE 0),
         new.lastSync \in {status, row[c].lastSync},
         new.status = "reauth_required" => row[c].status = "reauth_required" \/ c \in refused'
  PROVE  IInv'
<1>1. /\ seen' \in [Connections -> [{"ok", "failed"} -> Nat]]
      /\ seen'[c][status] = seen[c][status] + 1
      /\ \A d \in Connections : \A other \in {"ok", "failed"} : seen[d][other] <= seen'[d][other]
  <2>1. seen \in [Connections -> [{"ok", "failed"} -> Nat]]
    BY DEF IInv, Typed
  <2>2. seen' = [seen EXCEPT ![c][status] = @ + 1]
    BY DEF Counted
  <2> QED
    BY <2>1, <2>2
<1>2. refused' \subseteq touched'
  BY DEF IInv, Typed, UserWrites
<1>3. \A other \in {"ok", "failed"} :
        /\ Tally(log[c], seen[c], other) \in Nat /\ Tally(log[c], seen'[c], other) \in Nat
        /\ Tally(log[c], seen[c], other) <= Tally(log[c], seen'[c], other)
        /\ other = status => Tally(log[c], seen'[c], other) = Tally(log[c], seen[c], other) + 1
  <2>1. \A other \in {"ok", "failed"} :
          /\ CountIn(log[c], other) \in Nat /\ seen[c][other] \in Nat /\ seen'[c][other] \in Nat
          /\ seen[c][other] <= seen'[c][other]
    <3>1. Typed /\ seen \in [Connections -> [{"ok", "failed"} -> Nat]]
      BY DEF IInv, Typed
    <3>2. \A other \in {"ok", "failed"} : CountIn(log[c], other) \in Nat
      BY <3>1, CountNat
    <3> QED
      BY <1>1, <3>1, <3>2
  <2> QED
    BY <1>1, <2>1 DEF Tally
<1>4. /\ row[c].failures \in Nat /\ new.failures \in Nat /\ row[c].lastSync \in {"none", "ok", "failed"}
      /\ row[c].failures <= Tally(log[c], seen[c], "failed")
      /\ row[c].lastSync # "none" => Tally(log[c], seen[c], row[c].lastSync) > 0
  BY Counts DEF IInv, HealthIsWitnessed, Typed, Present, Row, SyncStatus
<1>5. new.failures <= Tally(log[c], seen'[c], "failed")
  BY <1>3, <1>4
<1>6. new.lastSync # "none" => Tally(log[c], seen'[c], new.lastSync) > 0
  BY <1>3, <1>4
<1> QED
  BY <1>1, <1>2, <1>5, <1>6, Write_IInv

\* The row a detection is at, and what it holds when it goes on.
LEMMA AtDetection ==
  ASSUME IInv, detecting # {}, NEW c, c = Least(detecting), Present(c)
  PROVE  /\ c \in Connections /\ row[c] \in Row
         /\ \A new \in Row, kept \in [Connections -> Row \cup {Absent}] :
              (UserWrites(c, new) /\ GoOn(kept)) =>
                detecting' \in SUBSET Connections /\ held' \in [Connections -> Row \cup {Absent}]
<1>1. detecting \in SUBSET Nat /\ detecting \subseteq Connections /\ row \in [Connections -> Row \cup {Absent}]
  BY RunAssumption DEF IInv, Typed
<1>2. c \in Connections
  BY <1>1, LeastIn
<1>3. ASSUME NEW new \in Row, NEW kept \in [Connections -> Row \cup {Absent}], UserWrites(c, new), GoOn(kept)
      PROVE  detecting' \in SUBSET Connections /\ held' \in [Connections -> Row \cup {Absent}]
  <2>1. row' \in [Connections -> Row \cup {Absent}]
    BY <1>1, <1>3 DEF UserWrites
  <2> QED
    BY <1>1, <1>3, <2>1 DEF GoOn
<1> QED
  BY <1>1, <1>2, <1>3 DEF Present

LEMMA DetectOk_IInv ==
  ASSUME IInv, DetectOk
  PROVE  IInv'
<1>1. PICK c : c = Least(detecting)
  OBVIOUS
<1>2. detecting # {} /\ Present(c) /\ held[c] # Absent /\ c \in Connections /\ row[c] \in Row
  BY <1>1, AtDetection DEF DetectOk
<1>3. held[c] \in Row /\ held \in [Connections -> Row \cup {Absent}]
  BY <1>2 DEF IInv, Typed
<1>4. PICK memory : memory = MarkSyncOk(held[c])
  OBVIOUS
<1>5. memory \in Row /\ memory.failures = 0 /\ memory.lastSync = "ok" /\ memory.status # "reauth_required"
  BY <1>3, <1>4 DEF MarkSyncOk, Unless, Row, Status, SyncStatus
<1>6. PICK new : new = Flush(held[c], memory, row[c])
  OBVIOUS
<1>7. /\ new \in Row
      /\ new.status \in {memory.status, row[c].status}
      /\ new.failures \in {0, row[c].failures}
      /\ new.lastSync \in {"ok", row[c].lastSync}
  BY <1>2, <1>3, <1>5, <1>6, FlushRow
<1>8. UserWrites(c, new) /\ GoOn(held) /\ Counted(c, "ok") /\ UNCHANGED <<rotations, refused>>
  BY <1>1, <1>4, <1>6 DEF DetectOk
<1>9. detecting' \in SUBSET Connections /\ held' \in [Connections -> Row \cup {Absent}]
  BY <1>1, <1>2, <1>3, <1>7, <1>8, AtDetection
<1>10. row[c].failures \in Nat
  BY <1>2 DEF Row
<1> QED
  BY <1>2, <1>5, <1>7, <1>8, <1>9, <1>10, Detected_IInv

LEMMA DetectFailed_IInv ==
  ASSUME IInv, DetectFailed
  PROVE  IInv'
<1>1. PICK c : c = Least(detecting)
  OBVIOUS
<1>2. detecting # {} /\ Present(c) /\ c \in Connections /\ row[c] \in Row
  BY <1>1, AtDetection DEF DetectFailed
<1>3. PICK how \in {"auth", "transient"}, why \in Reasons :
        /\ UserWrites(c, Marked(row[c], how, why))
        /\ refused' = IF how = "auth" THEN refused \cup {c} ELSE refused
  BY <1>1 DEF DetectFailed
<1>4. PICK new : new = Marked(row[c], how, why)
  OBVIOUS
<1>5. /\ new \in Row /\ new.lastSync = "failed" /\ new.failures = row[c].failures + 1
      /\ new.status = "reauth_required" => how = "auth" \/ row[c].status = "reauth_required"
  BY <1>2, <1>3, <1>4, MarkedRow DEF Outcome, Said
<1>6. GoOn(NoneHeld) /\ Counted(c, "failed") /\ UNCHANGED rotations
  BY <1>1 DEF DetectFailed
<1>7. detecting' \in SUBSET Connections /\ held' \in [Connections -> Row \cup {Absent}]
  <2>1. NoneHeld \in [Connections -> Row \cup {Absent}]
    BY DEF NoneHeld
  <2> QED
    BY <1>1, <1>2, <1>3, <1>4, <1>5, <1>6, <2>1, AtDetection
<1>8. row[c].failures \in Nat /\ new.failures <= row[c].failures + 1
  BY <1>2, <1>5 DEF Row
<1>9. /\ refused \subseteq refused' /\ refused' \subseteq refused \cup {c}
      /\ new.status = "reauth_required" => row[c].status = "reauth_required" \/ c \in refused'
  BY <1>3, <1>5
<1> QED
  BY <1>2, <1>3, <1>4, <1>5, <1>6, <1>7, <1>8, <1>9, Detected_IInv

LEMMA WizardStep_IInv ==
  ASSUME IInv, WizardStep
  PROVE  IInv'
<1>1. CASE Step1Save
  <2>1. PICK c \in Connections : Present(c) /\ UserWrites(c, MarkRotated(row[c]))
                                 /\ UNCHANGED <<rotations, wizardVars>>
    BY <1>1 DEF Step1Save
  <2>2. row[c] \in Row
    BY <2>1 DEF IInv, Typed, Present
  <2>3. PICK new : new = MarkRotated(row[c])
    OBVIOUS
  <2>4. /\ new \in Row /\ new.failures = 0 /\ new.lastSync = row[c].lastSync
        /\ new.status # "reauth_required"
    BY <2>2, <2>3, UserRow
  <2>5. row[c].failures \in Nat
    BY <2>2 DEF Row
  <2>6. UserWrites(c, new) /\ rotations' \subseteq rotations /\ UNCHANGED wizardVars
    BY <2>1, <2>3
  <2>7. new.failures <= row[c].failures
    BY <2>4, <2>5
  <2> QED
    BY <2>1, <2>4, <2>6, <2>7, UserWrite_IInv
<1>2. CASE DetectBegin
  <2>1. /\ UNCHANGED <<row, log, lock, runVars, rotations, touched, refused, seen>>
        /\ detecting' = Selected
        /\ held' = [c \in Connections |-> IF c \in Selected THEN row[c] ELSE Absent]
    BY <1>2 DEF DetectBegin
  <2>2. /\ rotations' \subseteq [id : Connections, loaded : Row]
        /\ detecting' \in SUBSET Connections /\ held' \in [Connections -> Row \cup {Absent}]
    BY <2>1 DEF IInv, Typed, Selected
  <2> QED
    BY <2>1, <2>2, Rotations_IInv
<1>3. CASE DetectGone
  <2>1. /\ UNCHANGED <<row, log, lock, runVars, rotations, touched, refused, seen>>
        /\ detecting' = {} /\ held' = NoneHeld
    BY <1>3 DEF DetectGone
  <2>2. /\ rotations' \subseteq [id : Connections, loaded : Row]
        /\ detecting' \in SUBSET Connections /\ held' \in [Connections -> Row \cup {Absent}]
    BY <2>1 DEF IInv, Typed, NoneHeld
  <2> QED
    BY <2>1, <2>2, Rotations_IInv
<1> QED
  BY <1>1, <1>2, <1>3, DetectOk_IInv, DetectFailed_IInv DEF WizardStep

LEMMA RunStep_IInv ==
  ASSUME IInv, NEW r \in Runs, RunStep(r) \/ RecycleConnection(r)
  PROVE  IInv'
<1> USE DEF userVars
<1>0. /\ pc[r] \in Stage /\ outcome[r] \in Outcome /\ started \in 0..MaxRuns
      /\ (pc[r] # "logged" /\ outcome' = outcome) => outcome' = [outcome EXCEPT ![r] = "none"]
  BY DEF IInv, Typed, Places
<1>1. CASE Refuse(r)
  <2>1. started' \in 0..MaxRuns /\ outcome' = [outcome EXCEPT ![r] = "none"]
    BY <1>0, <1>1, RunAssumption DEF Refuse
  <2> QED
    BY <1>1, <2>1, Keep_IInv DEF Refuse, Stage
<1>2. CASE Attempt(r)
  <2>1. /\ pc[r] = "loop" /\ todo[r] # {} /\ Present(Least(todo[r])) /\ pc' = [pc EXCEPT ![r] = "attempt"]
        /\ outcome' = [outcome EXCEPT ![r] = "none"] /\ started' \in 0..MaxRuns
        /\ UNCHANGED <<row, log, lock, number, snap, todo, results, failures, rotations, touched, wizardVars>>
    BY <1>0, <1>2, CurrentIs DEF Attempt
  <2>2. "attempt" \in Stage \ {"logged"} /\ Working(r)
    BY <2>1 DEF Stage, Working
  <2> QED
    BY <2>1, <2>2, Keep_IInv
<1>3. CASE Abort(r)
  <2>1. /\ (pc[r] = "loop" /\ todo[r] # {}) \/ pc[r] = "logged"
        /\ pc' = [pc EXCEPT ![r] = "aborted"]
        /\ outcome' = [outcome EXCEPT ![r] = "none"] /\ started' \in 0..MaxRuns
        /\ UNCHANGED <<row, log, lock, number, snap, todo, results, failures, rotations, touched, wizardVars>>
    BY <1>0, <1>3 DEF Abort
  <2>2. "aborted" \in Stage \ {"logged"} /\ todo[r] # {}
    BY <2>1 DEF Stage, IInv, Places
  <2> QED
    BY <2>1, <2>2, Keep_IInv
<1>4. CASE Exit(r)
  <2>1. PICK stage : stage = (IF results[r] = {} THEN "raised" ELSE "ended")
    OBVIOUS
  <2>2. /\ pc[r] = "loop" /\ todo[r] = {} /\ lock' = NoRun /\ pc' = [pc EXCEPT ![r] = stage]
        /\ outcome' = [outcome EXCEPT ![r] = "none"] /\ started' \in 0..MaxRuns
        /\ UNCHANGED <<row, log, number, snap, todo, results, failures, rotations, touched, wizardVars>>
    BY <1>0, <1>4, <2>1 DEF Exit
  <2>3. stage \in Stage \ {"logged"} /\ stage \in {"raised", "ended"} /\ (stage = "raised" <=> results[r] = {})
    BY <2>1 DEF Stage
  <2>4. lock = r
    BY <2>2 DEF IInv, Places, Working
  <2> QED
    BY <2>2, <2>3, <2>4, Keep_IInv
<1>5. CASE DisposeEngine(r) \/ ManualDone(r) \/ RecycleConnection(r)
  <2>1. Finished(r) /\ Reset(r) /\ lock' \in {lock, NoRun} /\ (lock' # lock => lock = r)
    BY <1>5 DEF DisposeEngine, ManualDone, RecycleConnection, Finished
  <2> QED
    BY <2>1, Reset_IInv
<1> QED
  BY <1>1, <1>2, <1>3, <1>4, <1>5, Start_IInv, Finish_IInv, Record_IInv DEF RunStep

LEMMA Next_IInv == IInv /\ [Next]_vars => IInv'
<1> SUFFICES ASSUME IInv, [Next]_vars PROVE IInv'
  OBVIOUS
<1>1. CASE UNCHANGED vars
  <2>1. /\ UNCHANGED <<row, log, lock, runVars, touched, refused, seen>>
        /\ rotations' \subseteq [id : Connections, loaded : Row]
        /\ detecting' \in SUBSET Connections /\ held' \in [Connections -> Row \cup {Absent}]
    BY <1>1 DEF vars, userVars, wizardVars, IInv, Typed
  <2> QED
    BY <2>1, Rotations_IInv
<1> QED
  BY <1>1, RunStep_IInv, Cancel_IInv, Crash_IInv, UserStep_IInv, WizardStep_IInv DEF Next

LEMMA Invariance == Spec => []IInv
BY Init_IInv, Next_IInv, PTL DEF Spec

-----------------------------------------------------------------------------
(* Who writes a row *)

\* A row changes because somebody outside a run wrote it, or because the run that is at
\* it records the outcome of its attempt.
LEMMA WhoWrites ==
  ASSUME IInv, [Next]_vars, NEW c \in Connections, row'[c] # row[c]
  PROVE  \/ Create(c) \/ Disable(c) \/ Enable(c) \/ Delete(c)
         \/ \E t \in rotations : RotateDone(t) /\ c = t.id
         \/ \E r \in Runs : Record(r) /\ c = Least(todo[r])
         \/ Step1Save /\ Present(c) /\ UserWrites(c, MarkRotated(row[c]))
         \/ (DetectOk \/ DetectFailed) /\ c = Least(detecting)
<1>0. row \in [Connections -> Row \cup {Absent}]
  BY DEF IInv, Typed
<1>1. ASSUME NEW d, NEW new, UserWrites(d, new) PROVE c = d
  BY <1>0, <1>1 DEF UserWrites
<1>2. ASSUME NEW d \in Connections, Create(d) \/ Disable(d) \/ Enable(d) PROVE c = d
  BY <1>1, <1>2 DEF Create, Disable, Enable
<1>3. ASSUME NEW d \in Connections, Delete(d) PROVE c = d
  BY <1>0, <1>3 DEF Delete
<1>4. ASSUME NEW t \in rotations, RotateDone(t) PROVE c = t.id
  BY <1>1, <1>4 DEF RotateDone
<1>5. ~ UNCHANGED row
  OBVIOUS
<1>6. ASSUME UserStep
      PROVE  \/ Create(c) \/ Disable(c) \/ Enable(c) \/ Delete(c)
             \/ \E t \in rotations : RotateDone(t) /\ c = t.id
  BY <1>2, <1>3, <1>4, <1>5, <1>6 DEF UserStep, RotateAsk, RotateFail
<1>7. ASSUME NEW r \in Runs, Record(r) PROVE c = Least(todo[r])
  BY <1>0, <1>7, CurrentIs DEF Record, Flushed
<1>8. ASSUME NEW r \in Runs, RunStep(r) \/ RecycleConnection(r) \/ Cancel(r) PROVE Record(r)
  BY <1>5, <1>8 DEF RunStep, Start, Load, Refuse, Attempt, Finish, Abort, Exit, DisposeEngine, ManualDone,
                    RecycleConnection, Cancel, Forget, Reset
<1>9. ~ (Crash \/ UNCHANGED vars)
  BY <1>5 DEF Crash, Forget, vars
<1>10. ASSUME WizardStep
       PROVE  \/ Step1Save /\ Present(c) /\ UserWrites(c, MarkRotated(row[c]))
              \/ (DetectOk \/ DetectFailed) /\ c = Least(detecting)
  <2>1. CASE Step1Save
    <3>1. PICK d \in Connections : Present(d) /\ UserWrites(d, MarkRotated(row[d]))
      BY <2>1 DEF Step1Save
    <3> QED
      BY <1>1, <2>1, <3>1
  <2>2. CASE DetectOk
    BY <1>1, <2>2 DEF DetectOk
  <2>3. CASE DetectFailed
    BY <1>1, <2>3 DEF DetectFailed
  <2>4. ~ (DetectBegin \/ DetectGone)
    BY <1>5 DEF DetectBegin, DetectGone
  <2> QED
    BY <1>10, <2>1, <2>2, <2>3, <2>4 DEF WizardStep
<1> QED
  BY <1>6, <1>7, <1>8, <1>9, <1>10 DEF Next

\* Only its record takes a run from logged back to the loop.
LEMMA BackInLoop ==
  ASSUME IInv, [Next]_vars, NEW r \in Runs, pc[r] = "logged", pc'[r] = "loop"
  PROVE  Record(r)
<1>0. pc \in [Runs -> Stage] /\ \A q \in Runs : Working(q) => lock = q
  BY DEF IInv, Typed, Places
<1>1. lock = r /\ lock # NoRun
  BY <1>0, RunAssumption DEF Working, Runs
<1>2. ~ (UserStep \/ WizardStep \/ UNCHANGED vars)
  <2>1. (UserStep \/ WizardStep \/ UNCHANGED vars) => UNCHANGED pc
    BY DEF UserStep, Create, Disable, Enable, Delete, RotateAsk, RotateDone, RotateFail, UserWrites, runVars, vars,
           WizardStep, Step1Save, DetectBegin, DetectOk, DetectFailed, DetectGone
  <2> QED
    BY <2>1
<1>3. ~ Crash /\ \A q \in Runs : ~ Cancel(q)
  BY DEF Crash, Cancel, Forget
<1>4. ASSUME NEW q \in Runs, RunStep(q) \/ RecycleConnection(q) PROVE Record(r)
  <2>1. CASE Start(q) \/ Refuse(q)
    BY <1>0, <1>1, <2>1 DEF Start, Refuse
  <2>2. CASE Attempt(q) \/ Finish(q) \/ Abort(q) \/ Exit(q)
    BY <1>0, <2>2 DEF Attempt, Finish, Abort, Exit
  <2>3. CASE DisposeEngine(q) \/ ManualDone(q) \/ RecycleConnection(q)
    BY <1>0, <2>3 DEF DisposeEngine, ManualDone, RecycleConnection, Reset
  <2>4. CASE Record(q)
    <3>1. pc' = [pc EXCEPT ![q] = "loop"]
      BY <2>4 DEF Record
    <3> QED
      BY <1>0, <2>4, <3>1
  <2> QED
    BY <1>4, <2>1, <2>2, <2>3, <2>4 DEF RunStep
<1> QED
  BY <1>2, <1>3, <1>4 DEF Next

-----------------------------------------------------------------------------
(* The theorems *)

\* Rows, log, lock, loaded copies and what each run has left keep their value sets: the
\* states of flex/job.py::run and api/connections.py.
THEOREM TypeCorrect == Spec => []TypeOK
<1>1. IInv => TypeOK
  <2> SUFFICES ASSUME IInv PROVE TypeOK
    OBVIOUS
  <2>1. \A c \in Connections : \A i \in DOMAIN log[c] : log[c][i] \in LogEntry
    BY DEF IInv, Typed
  <2>2. \A r \in Runs : DOMAIN snap[r] \subseteq Connections /\ todo[r] \subseteq DOMAIN snap[r]
    BY DEF IInv, Typed, Places
  <2>3. \A r \in Runs : \A c \in DOMAIN snap[r] : snap[r][c] \in Row
    BY DEF IInv, Typed
  <2>4. \A t \in rotations : t \in [id : Connections, loaded : Row]
    BY DEF IInv, Typed
  <2> QED
    BY <2>1, <2>2, <2>3, <2>4 DEF IInv, Typed, TypeOK
<1> QED
  BY <1>1, Invariance, PTL

\* Every failure a row counts, and its last sync, has a log row, as ingest_log_entry
\* commits in its finally before connection_state marks the connection, or is that of a
\* detection of the wizard (setup.py::step2_detect), which writes no log.
THEOREM HealthWitnessed == Spec => []HealthIsWitnessed
<1>1. IInv => HealthIsWitnessed
  BY DEF IInv
<1> QED
  BY <1>1, Invariance, PTL

\* A run that ends has tried each connection it loaded and reports each once, as the log
\* does; only a deletion stops it before: the loop of run and its try.
THEOREM AllAccountedFor == Spec => []RunAccountsForAll
<1>1. IInv => RunAccountsForAll
  <2> SUFFICES ASSUME IInv, NEW r \in Runs
               PROVE  /\ pc[r] \in {"ended", "raised"} =>
                           /\ results[r] \cup failures[r] = DOMAIN snap[r]
                           /\ results[r] \cap failures[r] = {}
                           /\ \A c \in results[r] : Present(c) => Logged(r, c, "ok")
                           /\ \A c \in failures[r] : Present(c) => Logged(r, c, "failed")
                           /\ pc[r] = "raised" <=> results[r] = {}
                      /\ pc[r] = "aborted" =>
                           /\ todo[r] # {}
                           /\ results[r] \cup failures[r] = DOMAIN snap[r] \ todo[r]
    BY DEF RunAccountsForAll
  <2>1. /\ \A c \in results[r] : Present(c) => Logged(r, c, "ok")
        /\ \A c \in failures[r] : Present(c) => Logged(r, c, "failed")
    BY DEF IInv, Reported
  <2>2. /\ results[r] \cup failures[r] = DOMAIN snap[r] \ todo[r] /\ results[r] \cap failures[r] = {}
        /\ pc[r] = "aborted" => todo[r] # {}
        /\ pc[r] \in {"ended", "raised"} => todo[r] = {} /\ (pc[r] = "raised" <=> results[r] = {})
    BY DEF IInv, Places
  <2> QED
    BY <2>1, <2>2
<1> QED
  BY <1>1, Invariance, PTL

\* What the end of an attempt or of a detection makes of a row is a sync event.
LEMMA MarkedIsSync ==
  ASSUME NEW c \in Connections, Present(c), NEW how \in {"ok", "auth", "transient"}, NEW why \in Reasons,
         row' = [row EXCEPT ![c] = Marked(row[c], how, why)],
         how # "ok" => row[c].failures < MaxFailures
  PROVE  W4!SyncEvent(c)
<1>1. W4!Present(c)
  BY DEF Present, W4!Present
<1>2. CASE how = "ok"
  <2>1. row' = [row EXCEPT ![c] = W4!MarkSyncOk(row[c])]
    BY <1>2 DEF Marked, MarkSyncOk, W4!MarkSyncOk, Unless, W4!Unless
  <2> QED
    BY <1>1, <2>1 DEF W4!SyncEvent, W4!SyncOk, W4!Set
<1>3. CASE how = "auth"
  <2>1. row' = [row EXCEPT ![c] = W4!MarkAuthFailed(row[c], why)]
    BY <1>3 DEF Marked, MarkAuthFailed, W4!MarkAuthFailed, Unless, W4!Unless
  <2> QED
    BY <1>1, <1>3, <2>1 DEF W4!SyncEvent, W4!AuthFailed, W4!Set
<1>4. CASE how = "transient"
  <2>1. row' = [row EXCEPT ![c] = W4!MarkSyncFailed(row[c], why)]
    BY <1>4 DEF Marked, MarkSyncFailed, W4!MarkSyncFailed
  <2> QED
    BY <1>1, <1>4, <2>1 DEF W4!SyncEvent, W4!SyncFailed, W4!Set
<1> QED
  BY <1>2, <1>3, <1>4

\* The requests that read and write a row at once are the state machine's user events.
LEMMA WrittenAtOnce ==
  ASSUME NEW c \in Connections,
         \/ Create(c) \/ Disable(c) \/ Enable(c) \/ Delete(c)
         \/ Present(c) /\ UserWrites(c, MarkRotated(row[c]))
  PROVE  W4!UserEvent(c)
<1> USE DEF Present, W4!Present, W4!Set, W4!UserEvent
<1>1. CASE Create(c)
  BY <1>1 DEF Create, UserWrites, W4!Create, NewRow, W4!NewRow
<1>2. CASE Disable(c)
  BY <1>2 DEF Disable, UserWrites, W4!Disable, SetEnabled, W4!SetEnabled
<1>3. CASE Enable(c)
  BY <1>3 DEF Enable, UserWrites, W4!Enable, SetEnabled, W4!SetEnabled
<1>4. CASE Delete(c)
  BY <1>4 DEF Delete, W4!Delete
<1>5. CASE Present(c) /\ UserWrites(c, MarkRotated(row[c]))
  BY <1>5 DEF UserWrites, W4!Rotate, MarkRotated, W4!MarkRotated, Unless, W4!Unless
<1> QED
  BY <1>1, <1>2, <1>3, <1>4, <1>5

\* Every change of a row is one atomic event of ConnectionState, whether a run, a rotation
\* or a detection waited minutes between its SELECT and its UPDATE (flex/job.py::run,
\* connections.py::rotate_token, setup.py::step2_detect), unless the row was written by
\* somebody else meanwhile; for a run, that is a request and never another run.
THEOREM Implementation == Spec => ImplementsW4
<1>1. ASSUME IInv, [Next]_vars, NEW c \in Connections, row'[c] # row[c],
             NEW r \in Runs, Record(r), c = Least(todo[r]), c \notin touched
      PROVE  W4!SyncEvent(c)
  <2>2. pc[r] = "logged" /\ Present(c) /\ Current(r) = c
    BY <1>1, CurrentIs DEF Record
  <2>3. PICK why \in Reasons :
          row' = [row EXCEPT ![c] = Flush(snap[r][c], Marked(snap[r][c], outcome[r], why), row[c])]
    BY <1>1, <2>2 DEF Record, Flushed
  <2>4. /\ row[c] = snap[r][c]
        /\ Flush(snap[r][c], Marked(snap[r][c], outcome[r], why), row[c]) = Marked(row[c], outcome[r], why)
    BY <1>1, <2>2, RecordRow
  <2>5. row' = [row EXCEPT ![c] = Marked(row[c], outcome[r], why)]
    BY <2>3, <2>4
  <2>6. outcome[r] \in {"ok", "auth", "transient"} /\ (outcome[r] # "ok" => row[c].failures < MaxFailures)
    <3>1. Working(r) /\ outcome[r] \in Outcome \ {"none"}
      BY <1>1, <2>2 DEF Working, IInv, Typed, Places
    <3>2. outcome[r] # "ok" => snap[r][c].failures < MaxFailures
      BY <1>1, <2>2, <3>1 DEF IInv, Loaded
    <3> QED
      BY <2>4, <3>1, <3>2 DEF Outcome
  <2> QED
    BY <2>2, <2>5, <2>6, MarkedIsSync
<1>2. ASSUME IInv, NEW c \in Connections, NEW t \in rotations, RotateDone(t), c = t.id, t.loaded = row[c]
      PROVE  W4!UserEvent(c)
  <2>1. row[c] \in Row /\ Present(c)
    BY <1>2 DEF RotateDone, IInv, Typed, Present
  <2>2. MarkRotated(row[c]) \in Row
    BY <2>1, UserRow
  <2>3. UserWrites(c, MarkRotated(row[c]))
    BY <1>2, <2>1, <2>2, FlushFresh DEF RotateDone
  <2> QED
    BY <2>1, <2>3, WrittenAtOnce
<1>3. ASSUME IInv, NEW c \in Connections, DetectOk, c = Least(detecting), held[c] = row[c]
      PROVE  W4!SyncEvent(c)
  <2>1. row[c] \in Row /\ Present(c)
    BY <1>3 DEF DetectOk, IInv, Typed, Present
  <2>2. MarkSyncOk(row[c]) \in Row
    BY <2>1 DEF MarkSyncOk, Unless, Row, Status, SyncStatus
  <2>3. row' = [row EXCEPT ![c] = MarkSyncOk(row[c])]
    BY <1>3, <2>1, <2>2, FlushFresh DEF DetectOk, UserWrites
  <2> QED
    BY <2>1, <2>3 DEF W4!SyncEvent, W4!SyncOk, W4!Set, W4!Present, Present, MarkSyncOk, W4!MarkSyncOk, Unless,
                      W4!Unless
<1>4. ASSUME IInv, NEW c \in Connections, DetectFailed, c = Least(detecting)
      PROVE  W4!SyncEvent(c)
  <2>1. PICK how \in {"auth", "transient"}, why \in Reasons :
          row' = [row EXCEPT ![c] = Marked(row[c], how, why)]
    BY <1>4 DEF DetectFailed, UserWrites
  <2>2. Present(c) /\ row[c].failures < MaxFailures
    BY <1>4 DEF DetectFailed
  <2> QED
    BY <2>1, <2>2, MarkedIsSync
<1>5. ASSUME IInv, [Next]_vars, NEW c \in Connections, row'[c] # row[c]
      PROVE  \/ W4!UserEvent(c) \/ W4!SyncEvent(c)
             \/ \E r \in Runs : Record(r) /\ c \in touched
             \/ \E t \in rotations : RotateDone(t) /\ t.loaded # row[c]
             \/ DetectOk /\ held[c] # row[c]
  <2>1. CASE \E r \in Runs : Record(r) /\ c = Least(todo[r])
    BY <1>1, <1>5, <2>1
  <2>2. CASE \E t \in rotations : RotateDone(t) /\ c = t.id
    BY <1>2, <1>5, <2>2
  <2>3. CASE (DetectOk \/ DetectFailed) /\ c = Least(detecting)
    BY <1>3, <1>4, <1>5, <2>3
  <2>4. CASE \/ Create(c) \/ Disable(c) \/ Enable(c) \/ Delete(c)
             \/ Present(c) /\ UserWrites(c, MarkRotated(row[c]))
    BY <2>4, WrittenAtOnce
  <2> QED
    BY <1>5, <2>1, <2>2, <2>3, <2>4, WhoWrites
<1>6. IInv /\ [Next]_vars =>
        \A c \in Connections : row'[c] # row[c] =>
          \/ W4!UserEvent(c) \/ W4!SyncEvent(c)
          \/ \E r \in Runs : Record(r) /\ c \in touched
          \/ \E t \in rotations : RotateDone(t) /\ t.loaded # row[c]
          \/ DetectOk /\ held[c] # row[c]
  BY <1>5
<1> QED
  BY <1>6, Invariance, PTL DEF ImplementsW4, Spec

\* A run that ends in a transient failure leaves a connection that waits for a new token
\* waiting, whatever requests wrote meanwhile (rule W4 of connection_state.py), except
\* where a detection of the wizard had found its token refused since the run loaded it:
\* the premise excludes that one, in which job.py's flush does overwrite the status.
THEOREM ReauthKept == Spec => ReauthSurvivesTransient
<1>1. ASSUME IInv, [Next]_vars, NEW r \in Runs, NEW c \in Connections,
             pc[r] = "logged", outcome[r] = "transient", pc'[r] = "loop", c = Current(r),
             row[c].status = "reauth_required", c \notin refused
      PROVE  row'[c].status = "reauth_required"
  <2>1. Record(r) /\ c = Least(todo[r])
    BY <1>1, BackInLoop, CurrentIs
  <2>2. Present(c)
    BY <1>1, <2>1 DEF Record
  <2>3. PICK why \in Reasons :
          row' = [row EXCEPT ![c] = Flush(snap[r][c], Marked(snap[r][c], outcome[r], why), row[c])]
    BY <1>1, <2>1 DEF Record, Flushed
  <2>4. Flush(snap[r][c], Marked(snap[r][c], outcome[r], why), row[c]).status = "reauth_required"
    BY <1>1, <2>1, <2>2, RecordRow
  <2>5. row \in [Connections -> Row \cup {Absent}]
    BY <1>1 DEF IInv, Typed
  <2> QED
    BY <2>3, <2>4, <2>5
<1>2. IInv /\ [Next]_vars =>
        \A r \in Runs, c \in Connections :
          (/\ pc[r] = "logged" /\ outcome[r] = "transient" /\ pc'[r] = "loop" /\ c = Current(r)
           /\ row[c].status = "reauth_required" /\ c \notin refused)
            => row'[c].status = "reauth_required"
  BY <1>1
<1> QED
  BY <1>2, Invariance, PTL DEF ReauthSurvivesTransient, Spec
=============================================================================
