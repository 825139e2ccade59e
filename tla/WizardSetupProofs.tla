-------------------------- MODULE WizardSetupProofs -------------------------
(***************************************************************************)
(* The setup wizard, for every set of requests, statements and accounts,   *)
(* and any number of uploads, connections and requests: whatever is        *)
(* imported shows configured accounts only, and a commit that met nothing  *)
(* else has taken in all it was asked for.                                 *)
(***************************************************************************)
EXTENDS WizardSetup, FiniteSetTheorems, WellFoundedInduction, TLAPS

-----------------------------------------------------------------------------
(* The inductive invariant *)

Stage == {"idle", "creating", "detecting", "stashing", "draining"}
Tx == [ins : SUBSET Docs, del : SUBSET Docs]

Typed ==
  /\ conns \in Seq(Health) /\ Len(conns) <= MaxConnections
  /\ imports \in [Docs -> Import \cup {Absent}]
  /\ open \subseteq Accounts \ Shadow
  /\ step3Xmls \in BOOLEAN /\ completed \in BOOLEAN
  /\ stash \in [TempIds -> SUBSET (Docs \ Bad)] /\ uploads \in 0..MaxUploads
  /\ pc \in [Requests -> Stage]
  /\ DOMAIN todo = Requests /\ todo = [r \in Requests |-> todo[r]]
  /\ DOMAIN found = Requests /\ found = [r \in Requests |-> found[r]]
  /\ asked \in [Requests -> SUBSET (Docs \ Bad)]
  /\ tx \in [Requests -> Tx]
  /\ alone \subseteq Requests

\* A temp_id has one statement at most, and none before it is given out.
Staged ==
  \A i \in TempIds :
    /\ \A d, e \in stash[i] : d = e
    /\ i > uploads => stash[i] = {}

\* A request leaves nothing behind, and has inserted what it was asked for and no more.
Tidy ==
  \A r \in Requests :
    /\ pc[r] = "idle" => todo[r] = <<>> /\ found[r] = {} /\ asked[r] = {} /\ tx[r] = NoTx
    /\ pc[r] # "draining" => tx[r] = NoTx
    /\ tx[r].ins \subseteq asked[r]

\* An upload that is to be stashed is one statement.
Stashing == \A r \in Requests : pc[r] = "stashing" => \A d, e \in asked[r] : d = e

\* The uploads a commit has still to drain held, when it validated them, nothing but what
\* it answers for; its accounts were configured then, and stay so.
Draining ==
  \A r \in Requests : pc[r] = "draining" =>
    /\ todo[r] \in Seq(Nat)
    /\ \A k \in DOMAIN todo[r] : todo[r][k] \in 1..uploads /\ stash[todo[r][k]] \subseteq asked[r]
    /\ \A d \in asked[r] : NonShadow(d) \subseteq open

\* Transaction t makes, or leaves, an import of the statement, or one of its year took its
\* place.
Settled(d, t) ==
  \/ Known(d, t)
  \/ d \notin SealedDocs /\ \E e \in t.ins : YearOf[e] = YearOf[d]

\* What nobody has disturbed: each statement is in the stash still, or settled.
Undisturbed ==
  /\ \A r, q \in alone : r = q
  /\ \A r \in alone :
       /\ \A q \in Requests : q # r => pc[q] = "idle"
       /\ pc[r] = "draining" =>
            \A d \in asked[r] : Settled(d, tx[r]) \/ \E k \in DOMAIN todo[r] : d \in stash[todo[r][k]]

IInv == Typed /\ Staged /\ Tidy /\ Stashing /\ Draining /\ Undisturbed

-----------------------------------------------------------------------------
(* Connections and transactions *)

\* The wizard changes the health of one connection, or adds one.
LEMMA OneHealth ==
  ASSUME conns \in Seq(Health), NEW i, NEW new, i \in DOMAIN conns => new \in Health
  PROVE  /\ [conns EXCEPT ![i] = new] \in Seq(Health)
         /\ Len([conns EXCEPT ![i] = new]) = Len(conns)
<1>1. CASE i \in DOMAIN conns
  BY <1>1
<1>2. CASE i \notin DOMAIN conns
  <2>1. [conns EXCEPT ![i] = new] = conns
    BY <1>2
  <2> QED
    BY <2>1
<1> QED
  BY <1>1, <1>2

\* persist inserts one statement at most, deletes rolling imports of its year, and leaves
\* its statement known.
LEMMA PersistTx ==
  ASSUME Typed, NEW d \in Docs, NEW source, NEW t \in Tx
  PROVE  /\ Persist(d, source, t) \in Tx
         /\ Persist(d, source, t).ins \subseteq t.ins \cup {d}
         /\ Known(d, Persist(d, source, t))
<1>1. Evicted(d, source, t) \subseteq Docs /\ d \notin Evicted(d, source, t)
  BY DEF Evicted
<1> QED
  BY <1>1 DEF Persist, Tx, Known

\* What was settled before persist is settled after it.
LEMMA PersistSettles ==
  ASSUME Typed, NEW d \in Docs, NEW source, NEW t \in Tx, NEW e \in Docs, Settled(e, t)
  PROVE  Settled(e, Persist(d, source, t))
<1> DEFINE u == Persist(d, source, t)
           out == Evicted(d, source, t)
<1>1. CASE Known(d, t)
  BY <1>1 DEF Persist
<1>2. CASE ~Known(d, t)
  <2>1. u.ins = (t.ins \ out) \cup {d} /\ u.del = t.del \cup out
    BY <1>2 DEF Persist
  <2>2. \A x \in out : x \notin SealedDocs /\ YearOf[x] = YearOf[d]
    BY DEF Evicted
  <2> SUFFICES Settled(e, u)
    OBVIOUS
  <2> HIDE DEF u, out
  <2>3. CASE e \in out
    BY <2>1, <2>2, <2>3 DEF Settled
  <2>4. CASE e \notin out /\ Known(e, t)
    BY <2>1, <2>4 DEF Known, Settled
  <2>5. CASE e \notin SealedDocs /\ \E x \in t.ins : YearOf[x] = YearOf[e]
    <3>1. PICK x \in t.ins : YearOf[x] = YearOf[e]
      BY <2>5
    <3> QED
      BY <2>1, <2>2, <2>5, <3>1 DEF Settled
  <2> QED
    BY <2>3, <2>4, <2>5 DEF Settled
<1> QED
  BY <1>1, <1>2

\* A commit makes imports of what it inserted and unmakes what it deleted.
LEMMA CommittedImports ==
  ASSUME Typed, NEW source \in {"manual_upload", "web_service"}, NEW t \in Tx
  PROVE  Committed(source, t) \in [Docs -> Import \cup {Absent}]
BY DEF Committed, Typed, Import, Tx

-----------------------------------------------------------------------------
(* Steps of a kind *)

\* What happens in one step changes no request, may only take away from the stash, and is
\* met by whatever is under way.
LEMMA EventKeeps ==
  ASSUME IInv, Event,
         conns' \in Seq(Health), Len(conns') <= MaxConnections,
         imports' \in [Docs -> Import \cup {Absent}],
         open \subseteq open', open' \subseteq Accounts \ Shadow,
         step3Xmls' \in BOOLEAN, completed' \in BOOLEAN,
         uploads' = uploads, stash' \in [TempIds -> SUBSET (Docs \ Bad)],
         \A i \in TempIds : stash'[i] \subseteq stash[i]
  PROVE  IInv'
<1> USE DEF Event, locals
<1>1. Typed'
  BY DEF IInv, Typed
<1>2. Staged' /\ Tidy' /\ Stashing'
  BY DEF IInv, Staged, Tidy, Stashing
<1>3. Draining'
  <2> SUFFICES ASSUME NEW r \in Requests, pc'[r] = "draining"
               PROVE  /\ todo'[r] \in Seq(Nat)
                      /\ \A k \in DOMAIN todo'[r] :
                           todo'[r][k] \in 1..uploads' /\ stash'[todo'[r][k]] \subseteq asked'[r]
                      /\ \A d \in asked'[r] : NonShadow(d) \subseteq open'
    BY DEF Draining
  <2>1. \A k \in DOMAIN todo[r] : todo[r][k] \in TempIds
    <3>1. pc[r] = "draining" /\ uploads \in 0..MaxUploads
      BY DEF IInv, Typed
    <3>2. \A k \in DOMAIN todo[r] : todo[r][k] \in 1..uploads
      BY <3>1 DEF IInv, Draining
    <3> QED
      BY <3>1, <3>2, WizardAssumption DEF TempIds
  <2> QED
    BY <2>1 DEF IInv, Draining
<1>4. Undisturbed'
  BY DEF Undisturbed
<1> QED
  BY <1>1, <1>2, <1>3, <1>4 DEF IInv

\* What a request may begin a stage with: uploads that are left to drain, statements to
\* answer for.
Fit(stage, ids, A) ==
  /\ stage \in Stage \ {"idle"}
  /\ stage = "stashing" => \A d, e \in A : d = e
  /\ stage = "draining" =>
       /\ ids \in Seq(Nat)
       /\ \A k \in DOMAIN ids : ids[k] \in 1..uploads /\ stash[ids[k]] \subseteq A
       /\ \A d \in A : NonShadow(d) \subseteq open /\ \E k \in DOMAIN ids : d \in stash[ids[k]]

\* A request that begins is alone if nobody is at work, and what it goes by holds now.
LEMMA BeginKeeps ==
  ASSUME IInv, NEW r \in Requests, NEW stage, Begin(r, stage),
         UNCHANGED <<tables, memory, found, tx>>,
         NEW ids, NEW A \in SUBSET (Docs \ Bad), Fit(stage, ids, A),
         todo' = [todo EXCEPT ![r] = ids], asked' = [asked EXCEPT ![r] = A]
  PROVE  IInv'
<1> USE DEF Begin, Goto, tables, memory, Fit
<1>1. /\ pc[r] = "idle" /\ pc' = [pc EXCEPT ![r] = stage] /\ stage \in Stage /\ stage # "idle"
      /\ pc \in [Requests -> Stage] /\ asked \in [Requests -> SUBSET (Docs \ Bad)]
      /\ DOMAIN todo = Requests
  BY DEF IInv, Typed
<1>2. Typed'
  <2>1. DOMAIN todo' = Requests /\ todo' = [q \in Requests |-> todo'[q]]
    BY <1>1
  <2>2. pc' \in [Requests -> Stage] /\ asked' \in [Requests -> SUBSET (Docs \ Bad)]
    BY <1>1
  <2>3. alone' \subseteq Requests
    BY <1>1
  <2> QED
    BY <2>1, <2>2, <2>3 DEF IInv, Typed
<1>3. Staged' /\ Stashing'
  BY <1>1 DEF IInv, Staged, Stashing
<1>4. Tidy'
  BY <1>1 DEF IInv, Tidy, NoTx
<1>5. Draining'
  BY <1>1 DEF IInv, Draining, NonShadow
<1>6. Undisturbed'
  <2>1. CASE \E q \in Requests : pc[q] # "idle"
    BY <2>1 DEF Undisturbed
  <2>2. CASE \A q \in Requests : pc[q] = "idle"
    <3>1. alone' = {r} /\ \A q \in Requests : q # r => pc'[q] = "idle"
      BY <1>1, <2>2
    <3>2. pc'[r] = "draining" => \A d \in asked'[r] : \E k \in DOMAIN todo'[r] : d \in stash'[todo'[r][k]]
      BY <1>1
    <3> QED
      BY <3>1, <3>2 DEF Undisturbed
  <2> QED
    BY <2>1, <2>2
<1> QED
  BY <1>2, <1>3, <1>4, <1>5, <1>6 DEF IInv

\* A request that ends leaves nothing behind; if it was alone, nobody else is at work.
LEMMA EndKeeps ==
  ASSUME IInv, NEW r \in Requests, pc[r] # "idle", End(r),
         conns' \in Seq(Health), Len(conns') <= MaxConnections,
         imports' \in [Docs -> Import \cup {Absent}],
         UNCHANGED <<open, completed>>, step3Xmls' \in BOOLEAN,
         uploads' \in uploads..MaxUploads, stash' \in [TempIds -> SUBSET (Docs \ Bad)],
         Staged', \A i \in 1..uploads : stash'[i] \subseteq stash[i]
  PROVE  IInv'
<1> USE DEF End, Goto
<1>1. /\ pc' = [pc EXCEPT ![r] = "idle"] /\ pc \in [Requests -> Stage]
      /\ DOMAIN todo = Requests /\ DOMAIN found = Requests
      /\ asked \in [Requests -> SUBSET (Docs \ Bad)] /\ tx \in [Requests -> Tx] /\ uploads \in 0..MaxUploads
  BY DEF IInv, Typed
<1>2. Typed'
  <2>1. tx' \in [Requests -> Tx]
    BY <1>1 DEF NoTx, Tx
  <2>2. uploads' \in 0..MaxUploads
    BY <1>1, WizardAssumption
  <2>3. pc' \in [Requests -> Stage]
    BY <1>1 DEF Stage
  <2> QED
    BY <1>1, <2>1, <2>2, <2>3 DEF IInv, Typed
<1>3. Tidy' /\ Stashing'
  BY <1>1 DEF IInv, Tidy, Stashing, NoTx
<1>4. Draining'
  <2> SUFFICES ASSUME NEW q \in Requests, pc'[q] = "draining"
               PROVE  /\ todo'[q] \in Seq(Nat)
                      /\ \A k \in DOMAIN todo'[q] :
                           todo'[q][k] \in 1..uploads' /\ stash'[todo'[q][k]] \subseteq asked'[q]
                      /\ \A d \in asked'[q] : NonShadow(d) \subseteq open'
    BY DEF Draining
  <2>1. q # r /\ pc[q] = "draining" /\ todo'[q] = todo[q] /\ asked'[q] = asked[q]
    BY <1>1
  <2>2. /\ todo[q] \in Seq(Nat)
        /\ \A k \in DOMAIN todo[q] : todo[q][k] \in 1..uploads /\ stash[todo[q][k]] \subseteq asked[q]
        /\ \A d \in asked[q] : NonShadow(d) \subseteq open
    BY <2>1 DEF IInv, Draining
  <2> QED
    <3>1. uploads \in Nat /\ uploads' \in Nat /\ uploads <= uploads'
      BY <1>1, WizardAssumption
    <3>2. ASSUME NEW k \in DOMAIN todo[q]
          PROVE  todo[q][k] \in 1..uploads' /\ stash'[todo[q][k]] \subseteq asked[q]
      <4>1. todo[q][k] \in 1..uploads /\ stash[todo[q][k]] \subseteq asked[q]
        BY <2>2
      <4>2. stash'[todo[q][k]] \subseteq stash[todo[q][k]]
        BY <4>1
      <4>3. todo[q][k] \in 1..uploads'
        BY <3>1, <4>1
      <4> QED
        BY <4>1, <4>2, <4>3
    <3> QED
      BY <2>1, <2>2, <3>2
<1>5. Undisturbed'
  <2>1. ASSUME NEW q \in alone PROVE q = r
    BY <2>1 DEF IInv, Undisturbed
  <2> QED
    BY <1>1, <2>1 DEF IInv, Undisturbed
<1> QED
  BY <1>2, <1>3, <1>4, <1>5 DEF IInv

-----------------------------------------------------------------------------
(* The wizard's steps *)

LEMMA InvInit == Init => IInv
<1> SUFFICES ASSUME Init PROVE IInv
  OBVIOUS
<1> USE DEF Init
<1>1. Typed
  <2>1. conns \in Seq(Health) /\ Len(conns) <= MaxConnections
    BY WizardAssumption
  <2>2. imports \in [Docs -> Import \cup {Absent}] /\ pc \in [Requests -> Stage] /\ tx \in [Requests -> Tx]
    BY DEF Stage, Tx, NoTx
  <2>3. stash \in [TempIds -> SUBSET (Docs \ Bad)] /\ uploads \in 0..MaxUploads
    BY WizardAssumption
  <2>4. asked \in [Requests -> SUBSET (Docs \ Bad)]
    OBVIOUS
  <2>5. /\ DOMAIN todo = Requests /\ todo = [r \in Requests |-> todo[r]]
        /\ DOMAIN found = Requests /\ found = [r \in Requests |-> found[r]]
    OBVIOUS
  <2> QED
    BY <2>1, <2>2, <2>3, <2>4, <2>5 DEF Typed
<1>2. Staged /\ Tidy /\ Stashing /\ Draining /\ Undisturbed
  BY DEF Staged, Tidy, Stashing, Draining, Undisturbed, NoTx
<1> QED
  BY <1>1, <1>2 DEF IInv

LEMMA Step1LookKeeps == ASSUME IInv, NEW r \in Requests, Step1Look(r) PROVE IInv'
<1>1. CASE conns = <<>>
  <2>1. asked[r] \in SUBSET (Docs \ Bad)
    BY DEF IInv, Typed
  <2>2. todo = [todo EXCEPT ![r] = todo[r]] /\ asked = [asked EXCEPT ![r] = asked[r]]
    BY DEF IInv, Typed
  <2>3. Begin(r, "creating") /\ UNCHANGED <<tables, memory, found, tx>> /\ UNCHANGED <<todo, asked>>
    BY <1>1 DEF Step1Look
  <2>4. Fit("creating", todo[r], asked[r])
    BY <1>1 DEF Fit, Stage
  <2> QED
    BY <2>1, <2>2, <2>3, <2>4, BeginKeeps
<1>2. CASE conns # <<>>
  <2>1. /\ conns \in Seq(Health) /\ Rotate(1) /\ Event
        /\ UNCHANGED <<imports, open, step3Xmls, completed, memory>>
    BY <1>2 DEF Step1Look, IInv, Typed
  <2>2. PICK health : /\ health = IF conns[1] = "disabled" THEN conns[1] ELSE "active"
                      /\ conns' = [conns EXCEPT ![1] = health]
    BY <2>1 DEF Rotate
  <2>3. conns' \in Seq(Health) /\ Len(conns') = Len(conns)
    BY <2>1, <2>2, OneHealth DEF Health
  <2> QED
    BY <2>1, <2>3, EventKeeps DEF IInv, Typed, memory
<1> QED
  BY <1>1, <1>2

LEMMA Step1CreateKeeps == ASSUME IInv, NEW r \in Requests, Step1Create(r) PROVE IInv'
<1>1. conns' \in Seq(Health) /\ Len(conns') <= MaxConnections
  <2>1. conns \in Seq(Health) /\ conns' = Append(conns, "active") /\ Len(conns) < MaxConnections
    BY DEF Step1Create, IInv, Typed
  <2> QED
    BY <2>1, WizardAssumption DEF Health
<1>2. pc[r] # "idle" /\ End(r) /\ UNCHANGED <<imports, open, step3Xmls, completed, stash, uploads>>
  BY DEF Step1Create, memory
<1>3. Staged'
  BY <1>2 DEF IInv, Staged
<1> QED
  BY <1>1, <1>2, <1>3, EndKeeps, WizardAssumption DEF IInv, Typed, TempIds

LEMMA DetectBeginKeeps == ASSUME IInv, NEW r \in Requests, DetectBegin(r) PROVE IInv'
<1>1. PICK ids : /\ Begin(r, "detecting") /\ todo' = [todo EXCEPT ![r] = ids]
                 /\ UNCHANGED <<tables, memory, found, asked, tx>>
  BY DEF DetectBegin
<1>2. asked[r] \in SUBSET (Docs \ Bad) /\ asked = [asked EXCEPT ![r] = asked[r]]
  BY DEF IInv, Typed
<1>3. Fit("detecting", ids, asked[r])
  BY DEF Fit, Stage
<1> QED
  BY <1>1, <1>2, <1>3, BeginKeeps

LEMMA DetectAnswerKeeps == ASSUME IInv, NEW r \in Requests, DetectAnswer(r) PROVE IInv'
<1>1. pc[r] # "idle" /\ End(r) /\ UNCHANGED <<conns, imports, open, step3Xmls, completed, stash, uploads>>
  BY DEF DetectAnswer, tables, memory
<1>2. Staged'
  BY <1>1 DEF IInv, Staged
<1> QED
  BY <1>1, <1>2, EndKeeps, WizardAssumption DEF IInv, Typed, TempIds

LEMMA UploadLookKeeps ==
  ASSUME IInv, NEW r \in Requests, NEW d \in Docs, UploadLook(r, d) PROVE IInv'
<1>1. /\ Begin(r, "stashing") /\ asked' = [asked EXCEPT ![r] = {d}] /\ d \notin Bad
      /\ UNCHANGED <<tables, memory, todo, found, tx>>
  BY DEF UploadLook
<1>2. todo = [todo EXCEPT ![r] = todo[r]]
  BY DEF IInv, Typed
<1>3. Fit("stashing", todo[r], {d}) /\ {d} \in SUBSET (Docs \ Bad)
  BY <1>1 DEF Fit, Stage
<1> QED
  BY <1>1, <1>2, <1>3, BeginKeeps

LEMMA UploadPutKeeps == ASSUME IInv, NEW r \in Requests, UploadPut(r) PROVE IInv'
<1>1. /\ pc[r] = "stashing" /\ End(r) /\ uploads < MaxUploads /\ uploads' = uploads + 1
      /\ stash' = [stash EXCEPT ![uploads + 1] = asked[r]]
      /\ UNCHANGED <<conns, imports, open, step3Xmls, completed>>
  BY DEF UploadPut, tables
<1>2. /\ uploads \in 0..MaxUploads /\ stash \in [TempIds -> SUBSET (Docs \ Bad)]
      /\ asked[r] \in SUBSET (Docs \ Bad) /\ \A d, e \in asked[r] : d = e
  BY <1>1 DEF IInv, Typed, Stashing
<1>3. uploads + 1 \in TempIds /\ uploads' \in uploads..MaxUploads
  BY <1>1, <1>2, WizardAssumption DEF TempIds
<1>4. stash' \in [TempIds -> SUBSET (Docs \ Bad)] /\ \A i \in 1..uploads : stash'[i] \subseteq stash[i]
  BY <1>1, <1>2, <1>3, WizardAssumption DEF TempIds
<1>5. Staged'
  BY <1>1, <1>2, <1>3, WizardAssumption DEF IInv, Staged, TempIds
<1> QED
  BY <1>1, <1>3, <1>4, <1>5, EndKeeps DEF IInv, Typed

LEMMA CommitCheckKeeps ==
  ASSUME IInv, NEW r \in Requests, NEW ids \in Orders, CommitCheck(r, ids) PROVE IInv'
<1> DEFINE A == UNION {stash[ids[k]] : k \in DOMAIN ids}
<1>1. /\ Begin(r, "draining") /\ todo' = [todo EXCEPT ![r] = ids] /\ asked' = [asked EXCEPT ![r] = A]
      /\ UNCHANGED <<tables, memory, found, tx>>
      /\ \A k \in DOMAIN ids : \A d \in stash[ids[k]] : NonShadow(d) \subseteq open
  BY DEF CommitCheck
<1>2. PICK n \in 0..2 : ids \in [1..n -> 1..uploads]
  BY DEF Orders
<1>3. uploads \in 0..MaxUploads /\ stash \in [TempIds -> SUBSET (Docs \ Bad)]
  BY DEF IInv, Typed
<1>4. \A k \in DOMAIN ids : ids[k] \in 1..uploads /\ ids[k] \in TempIds
  BY <1>2, <1>3, WizardAssumption DEF TempIds
<1>5. ids \in Seq(Nat)
  <2>1. n \in Nat /\ ids \in [1..n -> Nat]
    BY <1>2, <1>3, WizardAssumption
  <2> QED
    BY <2>1
<1>6. A \in SUBSET (Docs \ Bad)
  BY <1>3, <1>4
<1>7. Fit("draining", ids, A)
  BY <1>1, <1>4, <1>5 DEF Fit, Stage
<1> QED
  <2> HIDE DEF A
  <2> QED
    BY <1>1, <1>6, <1>7, BeginKeeps

LEMMA CommitDoneKeeps == ASSUME IInv, NEW r \in Requests, CommitDone(r) PROVE IInv'
<1>1. /\ pc[r] # "idle" /\ End(r) /\ UNCHANGED <<conns, open, completed, stash, uploads>>
      /\ imports' = Committed("manual_upload", tx[r]) /\ step3Xmls' = TRUE
  BY DEF CommitDone, memory
<1>2. Staged'
  BY <1>1 DEF IInv, Staged
<1>3. imports' \in [Docs -> Import \cup {Absent}]
  <2>1. tx[r] \in Tx /\ Typed
    BY DEF IInv, Typed
  <2> QED
    BY <1>1, <2>1, CommittedImports
<1> QED
  BY <1>1, <1>2, <1>3, EndKeeps, WizardAssumption DEF IInv, Typed, TempIds

LEMMA CommitFailsKeeps == ASSUME IInv, NEW r \in Requests, CommitFails(r) PROVE IInv'
<1>1. /\ pc[r] # "idle" /\ End(r) /\ UNCHANGED <<conns, imports, open, step3Xmls, completed, uploads>>
      /\ stash' = [stash EXCEPT ![Head(todo[r])] = {}]
  BY DEF CommitFails, tables
<1>2. stash' \in [TempIds -> SUBSET (Docs \ Bad)] /\ \A i \in TempIds : stash'[i] \subseteq stash[i]
  BY <1>1 DEF IInv, Typed
<1>3. Staged'
  BY <1>1, <1>2 DEF IInv, Staged
<1>4. /\ uploads \in 0..MaxUploads /\ conns \in Seq(Health) /\ Len(conns) <= MaxConnections
      /\ imports \in [Docs -> Import \cup {Absent}] /\ step3Xmls \in BOOLEAN
  BY DEF IInv, Typed
<1>5. uploads' \in uploads..MaxUploads /\ \A i \in 1..uploads : i \in TempIds
  BY <1>1, <1>4, WizardAssumption DEF TempIds
<1> QED
  BY <1>1, <1>2, <1>3, <1>4, <1>5, EndKeeps

\* A detection goes on with the next connection.
LEMMA DetectKeeps ==
  ASSUME IInv, NEW r \in Requests, Detecting(r),
         UNCHANGED <<open, step3Xmls, completed, stash, uploads, pc, asked, tx, alone>>,
         conns' \in Seq(Health), Len(conns') <= MaxConnections,
         imports' \in [Docs -> Import \cup {Absent}],
         NEW rest, todo' = [todo EXCEPT ![r] = rest],
         NEW seen, found' = [found EXCEPT ![r] = seen]
  PROVE  IInv'
<1>1. /\ pc[r] = "detecting" /\ DOMAIN todo = Requests /\ DOMAIN found = Requests
      /\ tx[r] \in Tx /\ tx = [tx EXCEPT ![r] = tx[r]]
  BY DEF Detecting, IInv, Typed
<1>2. Typed'
  <2>1. DOMAIN todo' = Requests /\ todo' = [q \in Requests |-> todo'[q]]
    BY <1>1
  <2>2. DOMAIN found' = Requests /\ found' = [q \in Requests |-> found'[q]]
    BY <1>1
  <2> QED
    BY <2>1, <2>2 DEF IInv, Typed
<1>3. Staged' /\ Tidy' /\ Stashing'
  BY <1>1 DEF IInv, Staged, Tidy, Stashing
<1>4. Draining'
  <2>1. \A q \in Requests : pc'[q] = "draining" => q # r /\ pc[q] = "draining" /\ todo'[q] = todo[q]
    BY <1>1
  <2> QED
    BY <2>1 DEF IInv, Draining, NonShadow
<1>5. Undisturbed'
  <2>1. \A q \in alone : q = r
    BY <1>1 DEF IInv, Undisturbed
  <2> QED
    BY <1>1, <2>1 DEF IInv, Undisturbed
<1> QED
  BY <1>2, <1>3, <1>4, <1>5 DEF IInv

LEMMA DetectOkKeeps == ASSUME IInv, NEW r \in Requests, DetectOk(r) PROVE IInv'
<1> DEFINE c == Head(todo[r])
           t == Persist(StatementOf[c], "web_service", NoTx)
<1>1. /\ Detecting(r) /\ imports' = Committed("web_service", t)
      /\ \E health \in {"active", conns[c]} : conns' = [conns EXCEPT ![c] = health]
      /\ UNCHANGED <<open, step3Xmls, completed, stash, uploads, pc, asked, tx, alone>>
  BY DEF DetectOk, memory
<1>2. PICK rest, seen : todo' = [todo EXCEPT ![r] = rest] /\ found' = [found EXCEPT ![r] = seen]
  BY DEF DetectOk
<1>3. Typed /\ conns \in Seq(Health) /\ Len(conns) <= MaxConnections /\ imports \in [Docs -> Import \cup {Absent}]
  BY DEF IInv, Typed
<1>4. conns' \in Seq(Health) /\ Len(conns') = Len(conns)
  <2> HIDE DEF c
  <2>1. PICK health \in {"active", conns[c]} : conns' = [conns EXCEPT ![c] = health]
    BY <1>1
  <2>2. c \in DOMAIN conns => health \in Health
    BY <1>3, <2>1 DEF Health
  <2> QED
    BY <1>3, <2>1, <2>2, OneHealth
<1>5. imports' \in [Docs -> Import \cup {Absent}]
  <2> HIDE DEF c
  <2>1. \A d \in Docs : imports'[d] \in Import \cup {Absent}
    BY <1>1, <1>3 DEF Committed, Import
  <2>2. DOMAIN imports' = Docs /\ imports' = [d \in Docs |-> imports'[d]]
    BY <1>1 DEF Committed
  <2> QED
    BY <2>1, <2>2
<1> QED
  BY <1>1, <1>2, <1>3, <1>4, <1>5, DetectKeeps

LEMMA DetectFailedKeeps == ASSUME IInv, NEW r \in Requests, DetectFailed(r) PROVE IInv'
<1> DEFINE c == Head(todo[r])
<1>1. /\ Detecting(r)
      /\ \E health \in {conns[c], "failing"} : conns' = [conns EXCEPT ![c] = health]
      /\ UNCHANGED <<imports, open, step3Xmls, completed, stash, uploads, pc, asked, tx, alone>>
  BY DEF DetectFailed, memory
<1>2. PICK rest, seen : todo' = [todo EXCEPT ![r] = rest] /\ found' = [found EXCEPT ![r] = seen]
  <2>1. found' = [found EXCEPT ![r] = found[r]]
    BY DEF DetectFailed, IInv, Typed
  <2> QED
    BY <2>1 DEF DetectFailed
<1>3. conns \in Seq(Health) /\ Len(conns) <= MaxConnections /\ imports \in [Docs -> Import \cup {Absent}]
  BY DEF IInv, Typed
<1>4. conns' \in Seq(Health) /\ Len(conns') = Len(conns)
  <2> HIDE DEF c
  <2>1. PICK health \in {conns[c], "failing"} : conns' = [conns EXCEPT ![c] = health]
    BY <1>1
  <2>2. c \in DOMAIN conns => health \in Health
    BY <1>3, <2>1 DEF Health
  <2> QED
    BY <1>3, <2>1, <2>2, OneHealth
<1> QED
  BY <1>1, <1>2, <1>3, <1>4, DetectKeeps

\* What a commit has to drain after its next upload.
LEMMA TailOf ==
  ASSUME NEW s \in Seq(Nat), s # <<>>
  PROVE  /\ Tail(s) \in Seq(Nat)
         /\ \A k \in DOMAIN Tail(s) : k + 1 \in DOMAIN s /\ Tail(s)[k] = s[k + 1]
         /\ \A k \in DOMAIN s : k # 1 => k - 1 \in DOMAIN Tail(s) /\ Tail(s)[k - 1] = s[k]
         /\ Head(s) = s[1] /\ 1 \in DOMAIN s
<1>1. Len(s) \in Nat \ {0} /\ DOMAIN s = 1..Len(s)
  OBVIOUS
<1>2. /\ Tail(s) \in Seq(Nat) /\ DOMAIN Tail(s) = 1..(Len(s) - 1)
      /\ \A k \in 1..(Len(s) - 1) : Tail(s)[k] = s[k + 1]
  BY <1>1
<1>3. \A k \in DOMAIN Tail(s) : k + 1 \in DOMAIN s
  BY <1>1, <1>2
<1>4. ASSUME NEW k \in DOMAIN s, k # 1 PROVE k - 1 \in DOMAIN Tail(s) /\ Tail(s)[k - 1] = s[k]
  <2>1. k - 1 \in 1..(Len(s) - 1) /\ (k - 1) + 1 = k
    BY <1>1, <1>4
  <2> QED
    BY <1>2, <2>1
<1>5. Head(s) = s[1] /\ 1 \in DOMAIN s
  BY <1>1
<1> QED
  BY <1>2, <1>3, <1>4, <1>5

LEMMA CommitSkipKeeps == ASSUME IInv, NEW r \in Requests, CommitSkip(r) PROVE IInv'
<1>1. /\ pc[r] = "draining" /\ todo[r] # <<>> /\ stash[Head(todo[r])] = {}
      /\ todo' = [todo EXCEPT ![r] = Tail(todo[r])] /\ DOMAIN todo = Requests
      /\ UNCHANGED <<tables, memory, pc, found, asked, tx, alone>>
  BY DEF CommitSkip, IInv, Typed
<1> USE DEF tables, memory
<1>2. todo[r] \in Seq(Nat)
  BY <1>1 DEF IInv, Draining
<1>3. /\ Tail(todo[r]) \in Seq(Nat)
      /\ \A k \in DOMAIN Tail(todo[r]) : k + 1 \in DOMAIN todo[r] /\ Tail(todo[r])[k] = todo[r][k + 1]
      /\ \A k \in DOMAIN todo[r] : k # 1 => k - 1 \in DOMAIN Tail(todo[r]) /\ Tail(todo[r])[k - 1] = todo[r][k]
      /\ Head(todo[r]) = todo[r][1]
  BY <1>1, <1>2, TailOf
<1>4. Typed'
  BY <1>1 DEF IInv, Typed
<1>5. Staged' /\ Tidy' /\ Stashing'
  BY <1>1 DEF IInv, Staged, Tidy, Stashing
<1>6. Draining'
  BY <1>1, <1>3 DEF IInv, Draining, NonShadow
<1>7. Undisturbed'
  <2>1. ASSUME NEW d \in asked[r], NEW k \in DOMAIN todo[r], d \in stash[todo[r][k]]
        PROVE  \E j \in DOMAIN todo'[r] : d \in stash'[todo'[r][j]]
    BY <1>1, <1>3, <2>1
  <2>2. ASSUME NEW d, Settled(d, tx[r]) PROVE Settled(d, tx[r])'
    BY <1>1, <2>2 DEF Settled, Known
  <2>3. \A q \in alone : q = r
    BY <1>1 DEF IInv, Undisturbed
  <2> QED
    BY <1>1, <2>1, <2>2, <2>3 DEF IInv, Undisturbed
<1> QED
  BY <1>4, <1>5, <1>6, <1>7 DEF IInv

LEMMA CommitPopKeeps == ASSUME IInv, NEW r \in Requests, CommitPop(r) PROVE IInv'
<1>1. PICK d \in stash[Head(todo[r])] : tx' = [tx EXCEPT ![r] = Persist(d, "manual_upload", tx[r])]
  BY DEF CommitPop
<1> DEFINE i == todo[r][1]
<1>t. PICK t : t = Persist(d, "manual_upload", tx[r])
  OBVIOUS
<1>2. /\ pc[r] = "draining" /\ todo[r] # <<>> /\ todo' = [todo EXCEPT ![r] = Tail(todo[r])]
      /\ stash' = [stash EXCEPT ![Head(todo[r])] = {}]
      /\ UNCHANGED <<tables, uploads, pc, found, asked, alone>>
  BY DEF CommitPop
<1> USE DEF tables
<1>3. /\ Typed /\ DOMAIN todo = Requests /\ tx \in [Requests -> Tx] /\ tx[r] \in Tx
      /\ stash \in [TempIds -> SUBSET (Docs \ Bad)] /\ uploads \in 0..MaxUploads
  BY DEF IInv, Typed
<1>4. /\ todo[r] \in Seq(Nat)
      /\ \A k \in DOMAIN todo[r] : todo[r][k] \in 1..uploads /\ stash[todo[r][k]] \subseteq asked[r]
  BY <1>2 DEF IInv, Draining
<1>5. /\ Tail(todo[r]) \in Seq(Nat)
      /\ \A k \in DOMAIN Tail(todo[r]) : k + 1 \in DOMAIN todo[r] /\ Tail(todo[r])[k] = todo[r][k + 1]
      /\ \A k \in DOMAIN todo[r] : k # 1 => k - 1 \in DOMAIN Tail(todo[r]) /\ Tail(todo[r])[k - 1] = todo[r][k]
      /\ Head(todo[r]) = i /\ 1 \in DOMAIN todo[r]
  BY <1>2, <1>4, TailOf
<1>6. i \in TempIds /\ d \in stash[i] /\ d \in asked[r] /\ d \in Docs
  BY <1>1, <1>3, <1>4, <1>5, WizardAssumption DEF TempIds
<1>7. stash' = [stash EXCEPT ![i] = {}] /\ tx' = [tx EXCEPT ![r] = t]
  BY <1>1, <1>2, <1>5, <1>t
<1>8. t \in Tx /\ t.ins \subseteq tx[r].ins \cup {d} /\ Known(d, t)
  BY <1>3, <1>6, <1>t, PersistTx
<1> HIDE DEF i
<1>9. Typed'
  <2>1. stash' \in [TempIds -> SUBSET (Docs \ Bad)] /\ tx' \in [Requests -> Tx]
    BY <1>3, <1>6, <1>7, <1>8
  <2>2. DOMAIN todo' = Requests /\ todo' = [q \in Requests |-> todo'[q]]
    BY <1>2, <1>3
  <2> QED
    BY <1>2, <2>1, <2>2 DEF IInv, Typed
<1>10. Staged' /\ Stashing'
  BY <1>2, <1>3, <1>6, <1>7 DEF IInv, Staged, Stashing
<1>11. Tidy'
  BY <1>2, <1>3, <1>6, <1>7, <1>8 DEF IInv, Tidy
<1>12. Draining'
  <2> SUFFICES ASSUME NEW q \in Requests, pc[q] = "draining"
               PROVE  /\ todo'[q] \in Seq(Nat)
                      /\ \A k \in DOMAIN todo'[q] : todo'[q][k] \in 1..uploads /\ stash'[todo'[q][k]] \subseteq asked[q]
                      /\ \A e \in asked[q] : NonShadow(e) \subseteq open
    BY <1>2 DEF Draining, NonShadow
  <2>1. /\ todo[q] \in Seq(Nat)
        /\ \A k \in DOMAIN todo[q] : todo[q][k] \in 1..uploads /\ stash[todo[q][k]] \subseteq asked[q]
        /\ \A e \in asked[q] : NonShadow(e) \subseteq open
    BY DEF IInv, Draining
  <2>2. \A j \in TempIds : stash'[j] \subseteq stash[j]
    BY <1>3, <1>7
  <2>3. \A j \in 1..uploads : j \in TempIds
    BY <1>3, WizardAssumption DEF TempIds
  <2>4. \A k \in DOMAIN todo'[q] : \E j \in DOMAIN todo[q] : todo'[q][k] = todo[q][j]
    BY <1>2, <1>3, <1>5
  <2>5. todo'[q] \in Seq(Nat)
    BY <1>2, <1>3, <1>5, <2>1
  <2> QED
    BY <2>1, <2>2, <2>3, <2>4, <2>5
<1>13. Undisturbed'
  <2>1. \A q \in alone : q = r
    BY <1>2 DEF IInv, Undisturbed
  <2>2. \A e : Settled(e, t) => Settled(e, t)'
    BY <1>2 DEF Settled, Known
  <2>3. ASSUME r \in alone, NEW e \in asked[r]
        PROVE  Settled(e, t) \/ \E k \in DOMAIN todo'[r] : e \in stash'[todo'[r][k]]
    <3>1. Settled(e, tx[r]) \/ \E k \in DOMAIN todo[r] : e \in stash[todo[r][k]]
      BY <1>2, <2>3 DEF IInv, Undisturbed
    <3>2. CASE Settled(e, tx[r])
      <4>1. e \in Docs
        BY DEF IInv, Typed
      <4> QED
        BY <1>3, <1>6, <1>t, <3>2, <4>1, PersistSettles
    <3>3. ASSUME NEW k \in DOMAIN todo[r], e \in stash[todo[r][k]], todo[r][k] = i
          PROVE  Settled(e, t)
      <4>1. e = d
        BY <1>6, <3>3 DEF IInv, Staged
      <4> QED
        BY <1>8, <4>1 DEF Settled
    <3>4. ASSUME NEW k \in DOMAIN todo[r], e \in stash[todo[r][k]], todo[r][k] # i
          PROVE  \E j \in DOMAIN todo'[r] : e \in stash'[todo'[r][j]]
      <4>1. k # 1 /\ todo'[r] = Tail(todo[r])
        BY <1>2, <1>3, <3>4 DEF i
      <4>2. k - 1 \in DOMAIN todo'[r] /\ todo'[r][k - 1] = todo[r][k]
        BY <1>5, <4>1
      <4>3. todo[r][k] \in TempIds
        BY <1>3, <1>4, WizardAssumption DEF TempIds
      <4>4. stash'[todo[r][k]] = stash[todo[r][k]]
        BY <1>3, <1>7, <3>4, <4>3
      <4> QED
        BY <3>4, <4>2, <4>4
    <3> QED
      BY <3>1, <3>2, <3>3, <3>4
  <2>4. tx'[r] = t /\ asked'[r] = asked[r]
    BY <1>2, <1>3, <1>7
  <2>5. ASSUME r \in alone, NEW e \in asked[r]
        PROVE  Settled(e, tx[r])' \/ \E k \in DOMAIN todo'[r] : e \in stash'[todo'[r][k]]
    <3>1. CASE Settled(e, t)
      BY <1>2, <2>4, <3>1 DEF Settled, Known
    <3> QED
      BY <2>3, <2>5, <3>1
  <2> QED
    BY <1>2, <2>1, <2>4, <2>5 DEF IInv, Undisturbed
<1> QED
  BY <1>9, <1>10, <1>11, <1>12, <1>13 DEF IInv

-----------------------------------------------------------------------------
(* Everything else *)

\* Without a change of a table, and of the stash, the hypotheses of EventKeeps hold.
LEMMA Tables ==
  ASSUME IInv
  PROVE  /\ conns \in Seq(Health) /\ Len(conns) <= MaxConnections
         /\ imports \in [Docs -> Import \cup {Absent}]
         /\ open \subseteq Accounts \ Shadow /\ step3Xmls \in BOOLEAN /\ completed \in BOOLEAN
         /\ stash \in [TempIds -> SUBSET (Docs \ Bad)]
  BY DEF IInv, Typed

\* Statements come from elsewhere, and as poison.
LEMMA IngestKeeps ==
  ASSUME IInv, Event, UNCHANGED <<conns, open, step3Xmls, completed, memory>>,
         imports' \in [Docs -> Import \cup {Absent}]
  PROVE  IInv'
<1> USE DEF memory
<1> QED
  BY Tables, EventKeeps

LEMMA OtherKeeps ==
  ASSUME IInv,
         \/ \E d \in Docs : DetectFromXml(d)
         \/ \E A \in SUBSET Accounts : Step2Save(A) \/ Step3Save(A)
         \/ Finish
         \/ \E i \in TempIds : Expire(i)
         \/ \E d \in Docs, source \in {"manual_upload", "web_service"} :
              OtherIngest(d, source) \/ OtherPoison(d, source)
         \/ OtherConnection
  PROVE  IInv'
<1>0. Typed /\ NoTx \in Tx
  BY DEF IInv, NoTx, Tx
<1>1. ASSUME NEW d \in Docs, NEW source \in {"manual_upload", "web_service"}
      PROVE  Committed(source, Persist(d, source, NoTx)) \in [Docs -> Import \cup {Absent}]
  BY <1>0, PersistTx, CommittedImports
<1>2. ASSUME NEW d \in Docs, DetectFromXml(d) PROVE IInv'
  BY <1>1, <1>2, IngestKeeps DEF DetectFromXml
<1>3. ASSUME NEW d \in Docs, NEW source \in {"manual_upload", "web_service"}, OtherIngest(d, source)
      PROVE  IInv'
  BY <1>1, <1>3, IngestKeeps DEF OtherIngest
<1>4. ASSUME NEW d \in Docs, NEW source \in {"manual_upload", "web_service"}, OtherPoison(d, source)
      PROVE  IInv'
  <2>1. imports' \in [Docs -> Import \cup {Absent}]
    BY <1>4, Tables DEF OtherPoison, Import
  <2> QED
    BY <1>4, <2>1, IngestKeeps DEF OtherPoison
<1>5. ASSUME NEW A \in SUBSET Accounts, Step2Save(A) \/ Step3Save(A) PROVE IInv'
  <2>1. /\ Event /\ open' = open \cup A /\ A \cap Shadow = {}
        /\ UNCHANGED <<conns, imports, step3Xmls, completed, stash, uploads>>
    BY <1>5 DEF Step2Save, Step3Save, Claim, memory
  <2>2. open \subseteq open' /\ open' \subseteq Accounts \ Shadow
    BY <2>1, Tables
  <2> QED
    BY <2>1, <2>2, Tables, EventKeeps
<1>6. CASE Finish
  BY <1>6, Tables, EventKeeps DEF Finish, memory
<1>7. ASSUME NEW i \in TempIds, Expire(i) PROVE IInv'
  <2>1. /\ Event /\ stash' = [stash EXCEPT ![i] = {}]
        /\ UNCHANGED <<conns, imports, open, step3Xmls, completed, uploads>>
    BY <1>7 DEF Expire, tables
  <2>2. stash' \in [TempIds -> SUBSET (Docs \ Bad)] /\ \A j \in TempIds : stash'[j] \subseteq stash[j]
    BY <2>1, Tables
  <2> QED
    BY <2>1, <2>2, Tables, EventKeeps
<1>8. CASE OtherConnection
  <2>1. Event /\ UNCHANGED <<imports, open, step3Xmls, completed, stash, uploads>>
    BY <1>8 DEF OtherConnection, memory
  <2>2. conns' \in Seq(Health) /\ Len(conns') <= MaxConnections
    <3>1. CASE Len(conns) < MaxConnections /\ conns' = Append(conns, "active")
      BY <3>1, Tables, WizardAssumption DEF Health
    <3>2. ASSUME NEW i \in DOMAIN conns, NEW health \in Health, conns' = [conns EXCEPT ![i] = health]
          PROVE  conns' \in Seq(Health) /\ Len(conns') <= MaxConnections
      BY <3>2, Tables, OneHealth
    <3> QED
      BY <1>8, <3>1, <3>2 DEF OtherConnection
  <2> QED
    BY <2>1, <2>2, Tables, EventKeeps
<1> QED
  BY <1>2, <1>3, <1>4, <1>5, <1>6, <1>7, <1>8

LEMMA CrashKeeps == ASSUME IInv, Crash PROVE IInv'
<1> USE DEF Crash, tables
<1>1. Typed'
  <2>1. pc' \in [Requests -> Stage] /\ tx' \in [Requests -> Tx] /\ asked' \in [Requests -> SUBSET (Docs \ Bad)]
    BY DEF Stage, NoTx, Tx
  <2>2. /\ DOMAIN todo' = Requests /\ todo' = [q \in Requests |-> todo'[q]]
        /\ DOMAIN found' = Requests /\ found' = [q \in Requests |-> found'[q]]
    OBVIOUS
  <2> QED
    BY <2>1, <2>2 DEF IInv, Typed
<1>2. Staged' /\ Tidy' /\ Stashing' /\ Draining' /\ Undisturbed'
  BY DEF Staged, Tidy, Stashing, Draining, Undisturbed, NoTx
<1> QED
  BY <1>1, <1>2 DEF IInv

LEMMA StutterKeeps == ASSUME IInv, UNCHANGED vars PROVE IInv'
BY DEF vars, tables, memory, locals, IInv, Typed, Staged, Tidy, Stashing, Draining, Undisturbed,
       Settled, Known, NonShadow

LEMMA InvNext == IInv /\ [Next]_vars => IInv'
<1> SUFFICES ASSUME IInv, [Next]_vars PROVE IInv'
  OBVIOUS
<1>1. ASSUME NEW r \in Requests, Step(r) PROVE IInv'
  <2>1. CASE Step1Look(r) \/ Step1Create(r)
    BY <2>1, Step1LookKeeps, Step1CreateKeeps
  <2>2. CASE DetectBegin(r) \/ DetectOk(r) \/ DetectFailed(r) \/ DetectAnswer(r)
    BY <2>2, DetectBeginKeeps, DetectOkKeeps, DetectFailedKeeps, DetectAnswerKeeps
  <2>3. CASE UploadPut(r) \/ \E d \in Docs : UploadLook(r, d)
    BY <2>3, UploadPutKeeps, UploadLookKeeps
  <2>4. CASE \E ids \in Orders : CommitCheck(r, ids)
    BY <2>4, CommitCheckKeeps
  <2>5. CASE CommitSkip(r) \/ CommitPop(r) \/ CommitDone(r) \/ CommitFails(r)
    BY <2>5, CommitSkipKeeps, CommitPopKeeps, CommitDoneKeeps, CommitFailsKeeps
  <2> QED
    BY <1>1, <2>1, <2>2, <2>3, <2>4, <2>5 DEF Step
<1> QED
  BY <1>1, OtherKeeps, CrashKeeps, StutterKeeps DEF Next

LEMMA Invariance == Spec => []IInv
  BY InvInit, InvNext, PTL DEF Spec

-----------------------------------------------------------------------------
(* Theorems *)

\* The state has its types; a temp_id holds one statement, which parses; a request that is
\* over holds nothing, and a transaction has inserted only what it answers for.
THEOREM TypeCorrect == Spec => []TypeOK
<1>1. IInv => TypeOK
  <2> SUFFICES ASSUME IInv PROVE TypeOK
    OBVIOUS
  <2>1. \A i \in TempIds : Cardinality(stash[i]) <= 1
    <3> SUFFICES ASSUME NEW i \in TempIds PROVE Cardinality(stash[i]) <= 1
      OBVIOUS
    <3>1. CASE stash[i] = {}
      BY <3>1, FS_EmptySet
    <3>2. CASE stash[i] # {}
      <4>1. PICK d \in stash[i] : TRUE
        BY <3>2
      <4>2. stash[i] = {d}
        BY <4>1 DEF IInv, Staged
      <4>3. Cardinality({d}) = 1
        BY FS_Singleton
      <4> QED
        BY <4>2, <4>3
    <3> QED
      BY <3>1, <3>2
  <2>2. Cardinality(alone) <= 1
    <3>1. CASE alone = {}
      BY <3>1, FS_EmptySet
    <3>2. CASE alone # {}
      <4>1. PICK r \in alone : TRUE
        BY <3>2
      <4>2. alone = {r}
        BY <4>1 DEF IInv, Undisturbed
      <4>3. Cardinality({r}) = 1
        BY FS_Singleton
      <4> QED
        BY <4>2, <4>3
    <3> QED
      BY <3>1, <3>2
  <2> QED
    BY <2>1, <2>2 DEF TypeOK, IInv, Typed, Staged, Tidy
<1> QED
  BY <1>1, Invariance, PTL

\* What a commit imports shows only configured accounts, whatever has expired, been claimed
\* or committed since it validated them.
THEOREM ImportsConfigured == Spec => ImportedAreConfigured
<1>1. ASSUME IInv, [Next]_vars
      PROVE  [\A r \in Requests, d \in Docs :
                (CommitDone(r) /\ d \in tx[r].ins) => NonShadow(d) \subseteq open]_vars
  <2>1. ASSUME NEW r \in Requests, NEW d \in Docs, CommitDone(r), d \in tx[r].ins
        PROVE  NonShadow(d) \subseteq open
    BY <1>1, <2>1 DEF CommitDone, IInv, Tidy, Draining
  <2> QED
    BY <2>1
<1> QED
  BY <1>1, Invariance, PTL DEF Spec, ImportedAreConfigured

\* A commit that answers ok, and met nothing else, has taken in all it was asked for.
THEOREM OkImports == Spec => OkMeansImported
<1>1. ASSUME IInv, [Next]_vars
      PROVE  [\A r \in alone, d \in Docs :
                (CommitDone(r) /\ d \in asked[r]) =>
                   \/ imports'[d] # Absent
                   \/ d \notin SealedDocs /\ \E e \in asked[r] : imports'[e].status = "ok" /\ YearOf[e] = YearOf[d]]_vars
  <2>1. ASSUME NEW r \in alone, NEW d \in Docs, CommitDone(r), d \in asked[r]
        PROVE  \/ imports'[d] # Absent
               \/ d \notin SealedDocs /\ \E e \in asked[r] : imports'[e].status = "ok" /\ YearOf[e] = YearOf[d]
    <3>1. /\ r \in Requests /\ pc[r] = "draining" /\ todo[r] = <<>>
          /\ imports' = Committed("manual_upload", tx[r]) /\ tx[r].ins \subseteq asked[r]
          /\ asked[r] \subseteq Docs
      BY <1>1, <2>1 DEF CommitDone, IInv, Typed, Tidy
    <3>2. Settled(d, tx[r])
      BY <1>1, <2>1, <3>1 DEF IInv, Undisturbed
    <3>3. \A e \in tx[r].ins : imports'[e].status = "ok"
      BY <3>1 DEF Committed
    <3>4. Known(d, tx[r]) => imports'[d] # Absent
      BY <3>1 DEF Known, Committed, Absent
    <3> QED
      BY <3>1, <3>2, <3>3, <3>4 DEF Settled
  <2> QED
    BY <2>1
<1> QED
  BY <1>1, Invariance, PTL DEF Spec, OkMeansImported

-----------------------------------------------------------------------------
(* The Flex client *)

\* A set of natural numbers that is not empty has a least.
LEMMA Least ==
  ASSUME NEW S, S \subseteq Nat, S # {}
  PROVE  \E x \in S : \A y \in S : x <= y
<1> DEFINE R == {ss \in Nat \X Nat : ss[1] < ss[2]}
<1>1. OpToRel(<, Nat) = R
  BY DEF OpToRel
<1>2. IsWellFoundedOn(R, Nat)
  BY <1>1, NatLessThanWellFounded
<1>3. \A a, b \in Nat : <<a, b>> \in R <=> a < b
  OBVIOUS
<1> HIDE DEF R
<1>4. PICK x \in S : \A y \in S : ~ (<<y, x>> \in R)
  BY <1>2, WFMin
<1>5. \A y \in S : ~ (y < x)
  BY <1>3, <1>4, Zenon
<1> QED
  BY <1>5

\* execute_with_retry ends with a reply that came after none but retryable ones, and with
\* a retryable one only when the attempts are used up.
THEOREM GivesUpAtLast ==
  ASSUME NEW n \in Nat \ {0}, NEW R, NEW replies \in [1..n -> R], NEW Retryable
  PROVE  \E i \in 1..n :
           /\ ExecuteWithRetry(replies, Retryable) = replies[i]
           /\ \A j \in 1..n : j < i => replies[j] \in Retryable
           /\ replies[i] \in Retryable => i = n
<1> DEFINE I == {i \in 1..Len(replies) : replies[i] \notin Retryable}
           first == SelectInSeq(replies, LAMBDA reply : reply \notin Retryable)
<1>1. Len(replies) = n
  OBVIOUS
<1>2. first = IF I # {} THEN Min(I) ELSE 0
  BY DEF SelectInSeq
<1>3. ExecuteWithRetry(replies, Retryable) = IF first = 0 THEN Last(replies) ELSE replies[first]
  BY DEF ExecuteWithRetry
<1>4. I \subseteq 1..n /\ \A j \in 1..n : j \notin I => replies[j] \in Retryable
  BY <1>1
<1> HIDE DEF I, first
<1>5. CASE I = {}
  <2>1. ExecuteWithRetry(replies, Retryable) = replies[n]
    BY <1>1, <1>2, <1>3, <1>5 DEF Last
  <2> QED
    BY <1>4, <1>5, <2>1
<1>6. CASE I # {}
  <2>1. I \subseteq Nat
    BY <1>4
  <2>2. \E x \in I : \A y \in I : x <= y
    BY <1>6, <2>1, Least
  <2>3. first \in I /\ \A y \in I : first <= y
    BY <1>2, <1>6, <2>2 DEF Min
  <2>4. first \in 1..n /\ replies[first] \notin Retryable
    BY <1>4, <2>3 DEF I
  <2>5. \A j \in 1..n : j < first => replies[j] \in Retryable
    BY <1>4, <2>3, <2>4
  <2>6. ExecuteWithRetry(replies, Retryable) = replies[first]
    BY <1>3, <2>4
  <2> QED
    BY <2>4, <2>5, <2>6
<1> QED
  BY <1>5, <1>6

\* Retrying neither hides a reply nor makes one up.
LEMMA OutcomesAreReplies ==
  ASSUME NEW n \in Nat \ {0}, NEW R, NEW Retryable
  PROVE  Outcomes(R, Retryable, n) = R
<1>0. ASSUME NEW replies \in [1..n -> R]
      PROVE  \E i \in 1..n : ExecuteWithRetry(replies, Retryable) = replies[i]
  BY GivesUpAtLast
<1>1. ASSUME NEW o \in Outcomes(R, Retryable, n) PROVE o \in R
  <2>1. PICK replies \in [1..n -> R] : o = ExecuteWithRetry(replies, Retryable)
    BY DEF Outcomes
  <2>2. PICK i \in 1..n : ExecuteWithRetry(replies, Retryable) = replies[i]
    BY <1>0
  <2> QED
    BY <2>1, <2>2
<1>2. ASSUME NEW o \in R PROVE o \in Outcomes(R, Retryable, n)
  <2>1. [i \in 1..n |-> o] \in [1..n -> R]
    OBVIOUS
  <2>2. PICK replies \in [1..n -> R] : \A i \in 1..n : replies[i] = o
    BY <2>1
  <2>3. PICK i \in 1..n : ExecuteWithRetry(replies, Retryable) = replies[i]
    BY <1>0
  <2>4. ExecuteWithRetry(replies, Retryable) = o
    BY <2>2, <2>3
  <2> QED
    BY <2>4 DEF Outcomes
<1> QED
  BY <1>1, <1>2

\* Whatever the numbers of attempts and rounds, a fetch ends with a statement, with a
\* refusal, with a failure of the transport, or with a poll that was given up: never with
\* a reference code alone, nor with a statement that is pending.
THEOREM FetchEnds ==
  FetchOutcomes =
    {"body", "auth", "notFound", "busy", "client", "pollTimeout", "network", "timeout", "http4xx", "http5xx"}
<1>1. SendOutcomes = SendReplies
  BY ClientAssumption, OutcomesAreReplies DEF SendOutcomes
<1>2. PollOutcomes = {IF o = "pending" THEN "pollTimeout" ELSE o : o \in PollReplies}
  BY ClientAssumption, OutcomesAreReplies DEF PollOutcomes
<1>3. PollOutcomes = {"body", "pollTimeout", "network", "timeout", "http4xx", "http5xx"}
  BY <1>2 DEF PollReplies, Transport
<1>4. SendReplies \ {"ref"} = {"auth", "notFound", "busy", "client", "network", "timeout", "http4xx", "http5xx"}
  BY DEF SendReplies, Transport
<1>5. FetchOutcomes = RoundOutcomes
  BY ClientAssumption, OutcomesAreReplies DEF FetchOutcomes
<1> QED
  BY <1>1, <1>3, <1>4, <1>5 DEF RoundOutcomes
=============================================================================
