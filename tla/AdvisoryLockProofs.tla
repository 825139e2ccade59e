------------------------- MODULE AdvisoryLockProofs -------------------------
(***************************************************************************)
(* What the advisory lock still guarantees, for every set of runs, pools,  *)
(* sessions and keys: until the pool closes a session that holds a key,    *)
(* the session that took it counts every run at work under it, one session *)
(* at most holds it, and so a run on an engine of its own is alone.        *)
(***************************************************************************)
EXTENDS AdvisoryLock, FiniteSetTheorems, TLAPS

\* Idle sessions lie in the pool of their own engine.
HomeSeq(e, idle) == idle \in Seq(Sessions) /\ \A i \in DOMAIN idle : HomeOf[idle[i]] = e

PoolHome == \A e \in Engines : HomeSeq(e, pool[e])

OutHome == \A p \in Users : out[p] # NoSession => HomeOf[out[p]] = EngineOf[p]

AtHome == \A r \in Runs : pc[r] = "locked" => at[r] \in Sessions /\ HomeOf[at[r]] = EngineOf[r]

\* Postgres grants a key to one session at a time.
OneHolder ==
  \A s, t \in Sessions : \A k \in Keys : locks[s][k] > 0 /\ locks[t][k] > 0 => s = t

IInv ==
  TypeOK /\ PoolHome /\ OutHome /\ AtHome /\ OneHolder /\ CountCovers /\ CronLeavesNothing

-----------------------------------------------------------------------------
(* The pool *)

\* A session given out belongs to the engine, and so do those left idle.
LEMMA CheckoutHome ==
  ASSUME PoolHome, NEW p \in Users
  PROVE  /\ \A s \in Offered(p) : s \in Sessions /\ HomeOf[s] = EngineOf[p]
         /\ HomeSeq(EngineOf[p], Taken(EngineOf[p]))
<1> DEFINE e == EngineOf[p]
<1>1. e \in Engines
  BY PoolAssumption DEF Users
<1>2. HomeSeq(e, pool[e])
  BY <1>1 DEF PoolHome
<1> HIDE DEF e
<1>3. CASE pool[e] = <<>>
  <2>1. Taken(e) = <<>>
    BY <1>3 DEF Taken
  <2>2. HomeSeq(e, Taken(e))
    BY <2>1 DEF HomeSeq
  <2>3. Offered(p) \subseteq Unopened(e)
    BY <1>3 DEF Offered, e
  <2> QED
    BY <2>2, <2>3 DEF Unopened, e
<1>4. CASE pool[e] # <<>>
  <2>1. Offered(p) = {Head(pool[e])} /\ Taken(e) = Tail(pool[e])
    BY <1>4 DEF Offered, Taken, e
  <2>2. Head(pool[e]) \in Sessions /\ HomeOf[Head(pool[e])] = e
    BY <1>2, <1>4 DEF HomeSeq
  <2>3. Tail(pool[e]) \in Seq(Sessions)
    BY <1>2, <1>4 DEF HomeSeq
  <2>4. \A i \in DOMAIN Tail(pool[e]) : i + 1 \in DOMAIN pool[e] /\ Tail(pool[e])[i] = pool[e][i + 1]
    BY <1>2, <1>4 DEF HomeSeq
  <2> QED
    BY <1>2, <2>1, <2>2, <2>3, <2>4 DEF HomeSeq, e
<1> QED
  BY <1>3, <1>4

\* A session that comes back to its engine leaves every pool as it should be.
LEMMA ReturnHome ==
  ASSUME TypeOK, PoolHome, NEW e \in Engines, NEW idle, HomeSeq(e, idle),
         NEW s \in Sessions, HomeOf[s] = e, pool' = Returned(e, idle, s)
  PROVE  pool' \in [Engines -> Seq(Sessions)] /\ PoolHome'
<1>1. HomeSeq(e, Append(idle, s))
  BY DEF HomeSeq
<1>2. /\ pool' \in [Engines -> Seq(Sessions)]
      /\ \A d \in Engines : d # e => pool'[d] = pool[d]
      /\ pool'[e] = idle \/ pool'[e] = Append(idle, s)
  BY <1>1 DEF Returned, TypeOK, HomeSeq
<1>3. ASSUME NEW d \in Engines PROVE HomeSeq(d, pool'[d])
  <2>1. CASE d = e
    BY <1>1, <1>2, <2>1
  <2>2. CASE d # e
    BY <1>2, <2>2 DEF PoolHome
  <2> QED
    BY <2>1, <2>2
<1>4. PoolHome'
  BY <1>3 DEF PoolHome, HomeSeq
<1> QED
  BY <1>2, <1>4

\* What a session holds once it is back: what it held, or nothing, and then every
\* key it held counts as lost.
LEMMA Back ==
  ASSUME TypeOK, NEW e, NEW idle, NEW s \in Sessions, NEW held \in [Keys -> Nat],
         KeepOrClose(e, idle, s, held)
  PROVE  /\ locks' \in [Sessions -> [Keys -> Nat]]
         /\ \A t \in Sessions : t # s => locks'[t] = locks[t]
         /\ \A k \in Keys : locks'[s][k] <= held[k]
         /\ \A k \in Keys : k \notin lost' => locks'[s][k] = held[k]
         /\ lost \subseteq lost' /\ lost' \subseteq Keys
<1>1. CASE Overflows(e, idle)
  <2>1. /\ locks' = [locks EXCEPT ![s] = Unlocked]
        /\ lost' = lost \cup {k \in Keys : held[k] > 0}
    BY <1>1 DEF KeepOrClose
  <2>2. Unlocked \in [Keys -> Nat] /\ \A k \in Keys : Unlocked[k] = 0
    BY DEF Unlocked
  <2>3. locks' \in [Sessions -> [Keys -> Nat]] /\ locks'[s] = Unlocked
    BY <2>1, <2>2 DEF TypeOK
  <2>4. \A k \in Keys : k \notin lost' => held[k] = 0
    BY <2>1
  <2>5. \A k \in Keys : locks'[s][k] = 0 /\ held[k] \in Nat
    BY <2>2, <2>3
  <2>6. \A t \in Sessions : t # s => locks'[t] = locks[t]
    BY <2>1 DEF TypeOK
  <2>7. lost \subseteq lost' /\ lost' \subseteq Keys
    BY <2>1 DEF TypeOK
  <2> QED
    BY <2>3, <2>4, <2>5, <2>6, <2>7
<1>2. CASE ~Overflows(e, idle)
  <2>1. locks' = [locks EXCEPT ![s] = held] /\ lost' = lost
    BY <1>2 DEF KeepOrClose
  <2>2. locks' \in [Sessions -> [Keys -> Nat]] /\ locks'[s] = held
    BY <2>1 DEF TypeOK
  <2>3. \A k \in Keys : held[k] \in Nat
    OBVIOUS
  <2>4. \A k \in Keys : locks'[s][k] <= held[k]
    BY <2>2, <2>3
  <2> QED
    BY <2>1, <2>2, <2>4 DEF TypeOK
<1> QED
  BY <1>1, <1>2

-----------------------------------------------------------------------------
(* Locks that only shrink, runs that only leave *)

LEMMA Shrink ==
  ASSUME TypeOK, OneHolder, CronLeavesNothing, locks' \in [Sessions -> [Keys -> Nat]],
         \A s \in Sessions : \A k \in Keys : locks'[s][k] <= locks[s][k],
         \A c \in Crons : pc'[c] = "idle" => pc[c] = "idle"
  PROVE  OneHolder' /\ CronLeavesNothing'
<1>1. \A s \in Sessions : \A k \in Keys : locks'[s][k] > 0 => locks[s][k] > 0
  BY DEF TypeOK
<1>2. OneHolder'
  BY <1>1 DEF OneHolder
<1>3. CronLeavesNothing'
  BY <1>1 DEF CronLeavesNothing, Holding
<1> QED
  BY <1>2, <1>3

LEMMA HoldersFinite ==
  ASSUME NEW s, NEW k
  PROVE  IsFiniteSet(Holders(s, k)) /\ Cardinality(Holders(s, k)) \in Nat
<1>1. Holders(s, k) \subseteq Runs
  BY DEF Holders
<1> QED
  BY <1>1, PoolAssumption, FS_Subset, FS_CardinalityType

LEMMA Cover ==
  ASSUME TypeOK, CountCovers, locks' \in [Sessions -> [Keys -> Nat]], lost \subseteq lost',
         \A s \in Sessions : \A k \in Keys \ lost' : locks'[s][k] >= locks[s][k],
         \A r \in Runs : pc'[r] = "locked" => pc[r] = "locked" /\ at'[r] = at[r]
  PROVE  CountCovers'
<1> SUFFICES ASSUME NEW k \in Keys \ lost', NEW s \in Sessions
             PROVE  locks'[s][k] >= Cardinality(Holders(s, k)')
  BY DEF CountCovers
<1>1. Holders(s, k)' \subseteq Holders(s, k)
  BY DEF Holders
<1>2. /\ Cardinality(Holders(s, k)') <= Cardinality(Holders(s, k))
      /\ Cardinality(Holders(s, k)') \in Nat /\ Cardinality(Holders(s, k)) \in Nat
  BY <1>1, HoldersFinite, FS_Subset, FS_CardinalityType
<1>3. locks[s][k] >= Cardinality(Holders(s, k))
  BY DEF CountCovers
<1>4. locks[s][k] \in Nat /\ locks'[s][k] \in Nat /\ locks'[s][k] >= locks[s][k]
  BY DEF TypeOK
<1> QED
  BY <1>2, <1>3, <1>4

\* A session goes back with all it holds, and nobody starts to work.
LEMMA GiveBack ==
  ASSUME IInv, NEW e \in Engines, NEW idle, HomeSeq(e, idle),
         NEW s \in Sessions, HomeOf[s] = e,
         pool' = Returned(e, idle, s), KeepOrClose(e, idle, s, locks[s]),
         \A c \in Crons : pc'[c] = "idle" => pc[c] = "idle",
         \A r \in Runs : pc'[r] = "locked" => pc[r] = "locked" /\ at'[r] = at[r]
  PROVE  /\ pool' \in [Engines -> Seq(Sessions)] /\ PoolHome'
         /\ locks' \in [Sessions -> [Keys -> Nat]] /\ lost' \subseteq Keys
         /\ OneHolder' /\ CronLeavesNothing' /\ CountCovers'
<1> USE DEF IInv
<1>1. pool' \in [Engines -> Seq(Sessions)] /\ PoolHome'
  BY ReturnHome
<1>2. locks[s] \in [Keys -> Nat]
  BY DEF TypeOK
<1>3. /\ locks' \in [Sessions -> [Keys -> Nat]]
      /\ \A t \in Sessions : t # s => locks'[t] = locks[t]
      /\ \A k \in Keys : locks'[s][k] <= locks[s][k]
      /\ \A k \in Keys : k \notin lost' => locks'[s][k] = locks[s][k]
      /\ lost \subseteq lost' /\ lost' \subseteq Keys
  BY <1>2, Back
<1>4. ASSUME NEW t \in Sessions, NEW k \in Keys
      PROVE  /\ locks'[t][k] <= locks[t][k]
             /\ k \notin lost' => locks'[t][k] >= locks[t][k]
  <2>1. locks[t][k] \in Nat /\ locks'[t][k] \in Nat
    BY <1>3 DEF TypeOK
  <2>2. CASE t = s
    BY <1>3, <2>1, <2>2
  <2>3. CASE t # s
    BY <1>3, <2>1, <2>3
  <2> QED
    BY <2>2, <2>3
<1>5. OneHolder' /\ CronLeavesNothing'
  BY <1>3, <1>4, Shrink
<1>6. CountCovers'
  BY <1>3, <1>4, Cover
<1> QED
  BY <1>1, <1>3, <1>5, <1>6

-----------------------------------------------------------------------------
(* The actions that give a session back as it is *)

LEMMA RefuseStep ==
  ASSUME IInv, NEW r \in Runs, Refuse(r)
  PROVE  IInv'
<1> DEFINE e == EngineOf[r]
<1>0. r \in Users /\ e \in Engines
  BY PoolAssumption DEF Users
<1>1. PICK s \in Offered(r) :
        /\ pool' = Returned(e, Taken(e), s)
        /\ KeepOrClose(e, Taken(e), s, locks[s])
  BY DEF Refuse
<1>2. s \in Sessions /\ HomeOf[s] = e /\ HomeSeq(e, Taken(e))
  BY <1>0, CheckoutHome DEF IInv
<1>3. /\ pc' = [pc EXCEPT ![r] = "ended"] /\ pc[r] = "idle" /\ UNCHANGED <<out, left, at>>
      /\ started' = started + 1
  BY DEF Refuse
<1> HIDE DEF e
<1>4. /\ \A c \in Crons : pc'[c] = "idle" => pc[c] = "idle"
      /\ \A q \in Runs : pc'[q] = "locked" => pc[q] = "locked" /\ at'[q] = at[q]
  BY <1>3, PoolAssumption DEF TypeOK, IInv
<1>5. /\ pool' \in [Engines -> Seq(Sessions)] /\ PoolHome'
      /\ locks' \in [Sessions -> [Keys -> Nat]] /\ lost' \subseteq Keys
      /\ OneHolder' /\ CronLeavesNothing' /\ CountCovers'
  BY <1>0, <1>1, <1>2, <1>4, GiveBack
<1>6. TypeOK'
  BY <1>3, <1>5 DEF TypeOK, IInv
<1>7. OutHome' /\ AtHome'
  BY <1>3 DEF TypeOK, OutHome, AtHome, IInv
<1> QED
  BY <1>5, <1>6, <1>7 DEF IInv

LEMMA CommitStep ==
  ASSUME IInv, NEW r \in Runs, Commit(r)
  PROVE  IInv'
<1> DEFINE e == EngineOf[r]
<1>0. r \in Users /\ e \in Engines
  BY PoolAssumption DEF Users
<1>1. /\ pool' = Returned(e, pool[e], out[r])
      /\ KeepOrClose(e, pool[e], out[r], locks[out[r]])
  BY DEF Commit
<1>2. out[r] \in Sessions /\ HomeOf[out[r]] = e /\ HomeSeq(e, pool[e])
  BY <1>0 DEF Commit, IInv, TypeOK, OutHome, PoolHome
<1>3. /\ out' = [out EXCEPT ![r] = NoSession] /\ UNCHANGED <<pc, started, at>>
      /\ left' = [left EXCEPT ![r] = @ - 1] /\ left[r] > 0
  BY DEF Commit
<1> HIDE DEF e
<1>4. /\ pool' \in [Engines -> Seq(Sessions)] /\ PoolHome'
      /\ locks' \in [Sessions -> [Keys -> Nat]] /\ lost' \subseteq Keys
      /\ OneHolder' /\ CronLeavesNothing' /\ CountCovers'
  BY <1>0, <1>1, <1>2, <1>3, GiveBack
<1>5. left' \in [Runs -> 0..MaxCommits]
  BY <1>3, PoolAssumption DEF TypeOK, IInv
<1>6. TypeOK'
  BY <1>3, <1>4, <1>5 DEF TypeOK, IInv
<1>7. OutHome' /\ AtHome'
  BY <1>3 DEF TypeOK, OutHome, AtHome, IInv
<1> QED
  BY <1>4, <1>6, <1>7 DEF IInv

LEMMA FailToUnlockStep ==
  ASSUME IInv, NEW r \in Runs, FailToUnlock(r)
  PROVE  IInv'
<1> DEFINE e == EngineOf[r]
<1>0. r \in Users /\ e \in Engines
  BY PoolAssumption DEF Users
<1>1. /\ pool' = Returned(e, pool[e], out[r])
      /\ KeepOrClose(e, pool[e], out[r], locks[out[r]])
  BY DEF FailToUnlock, CloseSession
<1>2. out[r] \in Sessions /\ HomeOf[out[r]] = e /\ HomeSeq(e, pool[e])
  BY <1>0 DEF FailToUnlock, IInv, TypeOK, OutHome, PoolHome
<1>3. /\ out' = [out EXCEPT ![r] = NoSession] /\ pc' = [pc EXCEPT ![r] = "ended"]
      /\ left' = [left EXCEPT ![r] = 0] /\ at' = [at EXCEPT ![r] = NoSession]
      /\ UNCHANGED started
  BY DEF FailToUnlock, CloseSession
<1> HIDE DEF e
<1>4. /\ \A c \in Crons : pc'[c] = "idle" => pc[c] = "idle"
      /\ \A q \in Runs : pc'[q] = "locked" => pc[q] = "locked" /\ at'[q] = at[q]
  BY <1>3, PoolAssumption DEF TypeOK, IInv
<1>5. /\ pool' \in [Engines -> Seq(Sessions)] /\ PoolHome'
      /\ locks' \in [Sessions -> [Keys -> Nat]] /\ lost' \subseteq Keys
      /\ OneHolder' /\ CronLeavesNothing' /\ CountCovers'
  BY <1>0, <1>1, <1>2, <1>4, GiveBack
<1>6a. left' \in [Runs -> 0..MaxCommits]
  BY <1>3, PoolAssumption DEF TypeOK, IInv
<1>6b. at' \in [Runs -> Sessions \cup {NoSession}] /\ out' \in [Users -> Sessions \cup {NoSession}]
  BY <1>3 DEF TypeOK, IInv
<1>6. TypeOK'
  BY <1>3, <1>5, <1>6a, <1>6b DEF TypeOK, IInv
<1>7. OutHome' /\ AtHome'
  BY <1>3 DEF TypeOK, OutHome, AtHome, IInv
<1> QED
  BY <1>5, <1>6, <1>7 DEF IInv

LEMMA AnswerStep ==
  ASSUME IInv, NEW q \in Requests, Answer(q)
  PROVE  IInv'
<1> DEFINE e == EngineOf[q]
<1>0. q \in Users /\ e \in Engines
  BY PoolAssumption DEF Users
<1>1. /\ pool' = Returned(e, pool[e], out[q])
      /\ KeepOrClose(e, pool[e], out[q], locks[out[q]])
  BY DEF Answer
<1>2. out[q] \in Sessions /\ HomeOf[out[q]] = e /\ HomeSeq(e, pool[e])
  BY <1>0 DEF Answer, IInv, TypeOK, OutHome, PoolHome
<1>3. out' = [out EXCEPT ![q] = NoSession] /\ UNCHANGED <<pc, left, started, at>>
  BY DEF Answer
<1> HIDE DEF e
<1>4. /\ pool' \in [Engines -> Seq(Sessions)] /\ PoolHome'
      /\ locks' \in [Sessions -> [Keys -> Nat]] /\ lost' \subseteq Keys
      /\ OneHolder' /\ CronLeavesNothing' /\ CountCovers'
  BY <1>0, <1>1, <1>2, <1>3, GiveBack
<1>5. TypeOK'
  BY <1>3, <1>4 DEF TypeOK, IInv
<1>6. OutHome' /\ AtHome'
  BY <1>3 DEF TypeOK, OutHome, AtHome, IInv
<1> QED
  BY <1>4, <1>5, <1>6 DEF IInv

-----------------------------------------------------------------------------
(* The other actions *)

LEMMA CheckoutStep ==
  ASSUME IInv, NEW p \in Users, Checkout(p)
  PROVE  IInv'
<1> DEFINE e == EngineOf[p]
<1>0. e \in Engines
  BY PoolAssumption DEF Users
<1>1. PICK s \in Offered(p) : out' = [out EXCEPT ![p] = s]
  BY DEF Checkout
<1>2. s \in Sessions /\ HomeOf[s] = e /\ HomeSeq(e, Taken(e))
  BY CheckoutHome DEF IInv
<1>3. pool' = [pool EXCEPT ![e] = Taken(e)] /\ UNCHANGED <<locks, pc, left, started, at, lost>>
  BY DEF Checkout
<1> HIDE DEF e
<1>4. pool' \in [Engines -> Seq(Sessions)] /\ PoolHome'
  BY <1>0, <1>2, <1>3 DEF IInv, TypeOK, PoolHome, HomeSeq
<1>5. out' \in [Users -> Sessions \cup {NoSession}] /\ OutHome'
  BY <1>1, <1>2 DEF IInv, TypeOK, OutHome, e
<1>6. TypeOK'
  BY <1>3, <1>4, <1>5 DEF TypeOK, IInv
<1>7. AtHome' /\ OneHolder' /\ CountCovers' /\ CronLeavesNothing'
  BY <1>3 DEF IInv, AtHome, OneHolder, CountCovers, Holders, CronLeavesNothing, Holding
<1> QED
  BY <1>4, <1>5, <1>6, <1>7 DEF IInv

LEMMA RecycleStep ==
  ASSUME IInv, NEW e \in Engines, Recycle(e)
  PROVE  IInv'
<1> DEFINE h == Head(pool[e])
<1>1. h \in Sessions
  BY DEF Recycle, IInv, TypeOK
<1>2. /\ lost' = lost \cup Holding(h)
      /\ locks' = [locks EXCEPT ![h] = Unlocked]
      /\ UNCHANGED <<pool, out, pc, left, started, at>>
  BY DEF Recycle
<1> HIDE DEF h
<1>3. Unlocked \in [Keys -> Nat] /\ \A k \in Keys : Unlocked[k] = 0
  BY DEF Unlocked
<1>4. locks' \in [Sessions -> [Keys -> Nat]] /\ lost \subseteq lost' /\ lost' \subseteq Keys
  BY <1>2, <1>3 DEF IInv, TypeOK, Holding
<1>5. ASSUME NEW t \in Sessions, NEW k \in Keys
      PROVE  /\ locks'[t][k] <= locks[t][k]
             /\ k \notin lost' => locks'[t][k] >= locks[t][k]
  <2>1. locks[t][k] \in Nat /\ locks'[t][k] \in Nat
    BY <1>4 DEF TypeOK, IInv
  <2>2. CASE t = h
    <3>1. locks'[t][k] = 0
      BY <1>1, <1>2, <1>3, <2>2 DEF TypeOK, IInv
    <3>2. k \notin lost' => ~(locks[t][k] > 0)
      BY <1>2, <2>2 DEF Holding
    <3> QED
      BY <2>1, <3>1, <3>2
  <2>3. CASE t # h
    <3>1. locks'[t] = locks[t]
      BY <1>2, <2>3 DEF TypeOK, IInv
    <3> QED
      BY <2>1, <3>1
  <2> QED
    BY <2>2, <2>3
<1>6. OneHolder' /\ CronLeavesNothing'
  BY <1>2, <1>4, <1>5, Shrink DEF IInv
<1>7. CountCovers'
  BY <1>2, <1>4, <1>5, Cover DEF IInv
<1>8. TypeOK' /\ PoolHome' /\ OutHome' /\ AtHome'
  BY <1>2, <1>4 DEF IInv, TypeOK, PoolHome, HomeSeq, OutHome, AtHome
<1> QED
  BY <1>6, <1>7, <1>8 DEF IInv

LEMMA LeaveStep ==
  ASSUME IInv, NEW r \in Runs, Leave(r)
  PROVE  IInv'
<1>1. /\ r \notin Crons /\ pc[r] = "ended" /\ pc' = [pc EXCEPT ![r] = "idle"]
      /\ UNCHANGED <<locks, pool, out, left, started, at, lost>>
  BY DEF Leave
<1>2. /\ \A c \in Crons : pc'[c] = "idle" => pc[c] = "idle"
      /\ \A q \in Runs : pc'[q] = "locked" => pc[q] = "locked" /\ at'[q] = at[q]
  BY <1>1, PoolAssumption DEF TypeOK, IInv
<1>3. locks' \in [Sessions -> [Keys -> Nat]]
  BY <1>1 DEF IInv, TypeOK
<1>4. \A s \in Sessions : \A k \in Keys : locks'[s][k] <= locks[s][k] /\ locks'[s][k] >= locks[s][k]
  BY <1>1 DEF IInv, TypeOK
<1>5. OneHolder' /\ CronLeavesNothing'
  BY <1>2, <1>3, <1>4, Shrink DEF IInv
<1>6. CountCovers'
  BY <1>1, <1>2, <1>3, <1>4, Cover DEF IInv
<1>7. TypeOK' /\ PoolHome' /\ OutHome' /\ AtHome'
  BY <1>1 DEF IInv, TypeOK, PoolHome, HomeSeq, OutHome, AtHome
<1> QED
  BY <1>5, <1>6, <1>7 DEF IInv

\* The unlock takes one off in the session the run has now.  If that is not the
\* session that took the lock, it holds none: another session does.
LEMMA UnlockStep ==
  ASSUME IInv, NEW r \in Runs, Unlock(r)
  PROVE  IInv'
<1> DEFINE e == EngineOf[r]
           s == out[r]
           k0 == KeyOf[r]
           held == [locks[s] EXCEPT ![k0] = OneLess(@)]
<1>0. r \in Users /\ e \in Engines /\ k0 \in Keys
  BY PoolAssumption DEF Users
<1>1. pool' = Returned(e, pool[e], s) /\ KeepOrClose(e, pool[e], s, held)
  BY DEF Unlock, CloseSession
<1>2. s \in Sessions /\ HomeOf[s] = e /\ HomeSeq(e, pool[e])
  BY <1>0 DEF Unlock, IInv, TypeOK, OutHome, PoolHome
<1>3. /\ out' = [out EXCEPT ![r] = NoSession] /\ pc' = [pc EXCEPT ![r] = "ended"]
      /\ at' = [at EXCEPT ![r] = NoSession] /\ UNCHANGED <<left, started>>
      /\ pc[r] = "locked"
  BY DEF Unlock, CloseSession
<1>4. /\ held \in [Keys -> Nat]
      /\ \A k \in Keys : held[k] <= locks[s][k]
      /\ \A k \in Keys : k # k0 => held[k] = locks[s][k]
      /\ locks[s][k0] = 0 => held[k0] = 0
      /\ locks[s][k0] > 0 => held[k0] = locks[s][k0] - 1
  <2>1. locks[s] \in [Keys -> Nat]
    BY <1>2 DEF IInv, TypeOK
  <2> HIDE DEF s, k0
  <2> QED
    BY <1>0, <2>1 DEF OneLess
<1> HIDE DEF e, s, k0, held
<1>5. pool' \in [Engines -> Seq(Sessions)] /\ PoolHome'
  BY <1>0, <1>1, <1>2, ReturnHome DEF IInv
<1>6. /\ locks' \in [Sessions -> [Keys -> Nat]]
      /\ \A t \in Sessions : t # s => locks'[t] = locks[t]
      /\ \A k \in Keys : locks'[s][k] <= held[k]
      /\ \A k \in Keys : k \notin lost' => locks'[s][k] = held[k]
      /\ lost \subseteq lost' /\ lost' \subseteq Keys
  BY <1>1, <1>2, <1>4, Back DEF IInv
<1>7. \A t \in Sessions : \A k \in Keys : locks[t][k] \in Nat /\ locks'[t][k] \in Nat /\ held[k] \in Nat
  BY <1>4, <1>6 DEF IInv, TypeOK
<1>8. ASSUME NEW t \in Sessions, NEW k \in Keys PROVE locks'[t][k] <= locks[t][k]
  <2>1. CASE t = s
    BY <1>4, <1>6, <1>7, <2>1
  <2>2. CASE t # s
    BY <1>6, <1>7, <2>2
  <2> QED
    BY <2>1, <2>2
<1>9. \A c \in Crons : pc'[c] = "idle" => pc[c] = "idle"
  BY <1>3, PoolAssumption DEF TypeOK, IInv
<1>10. OneHolder' /\ CronLeavesNothing'
  BY <1>6, <1>8, <1>9, Shrink DEF IInv
<1>11. at[r] \in Sessions /\ r \in Holders(at[r], k0)
  BY <1>3 DEF IInv, AtHome, Holders, k0
<1>12. k0 \notin lost => locks[at[r]][k0] > 0
  <2>1. Cardinality(Holders(at[r], k0)) # 0
    BY <1>11, HoldersFinite, FS_EmptySet
  <2>2. k0 \notin lost => locks[at[r]][k0] >= Cardinality(Holders(at[r], k0))
    BY <1>0, <1>11 DEF IInv, CountCovers
  <2> QED
    BY <1>0, <1>7, <1>11, <2>1, <2>2, HoldersFinite
<1>13. k0 \notin lost /\ s # at[r] => locks[s][k0] = 0
  BY <1>0, <1>2, <1>7, <1>11, <1>12 DEF IInv, OneHolder
<1>14. ASSUME NEW t \in Sessions, NEW k \in Keys \ lost'
       PROVE  locks'[t][k] >= Cardinality(Holders(t, k)')
  <2>1. k \notin lost /\ locks[t][k] >= Cardinality(Holders(t, k))
    BY <1>6 DEF IInv, CountCovers
  <2>2. Holders(t, k)' = Holders(t, k) \ {r}
    BY <1>3 DEF Holders, IInv, TypeOK
  <2>3. CASE r \in Holders(t, k)
    <3>1. t = at[r] /\ k = k0
      BY <2>3 DEF Holders, k0
    <3>2. Cardinality(Holders(t, k)') = Cardinality(Holders(t, k)) - 1
      BY <2>2, <2>3, HoldersFinite, FS_RemoveElement
    <3>3. CASE t = s
      BY <1>4, <1>6, <1>7, <1>12, <2>1, <3>1, <3>2, <3>3, HoldersFinite
    <3>4. CASE t # s
      BY <1>6, <1>7, <2>1, <3>2, <3>4, HoldersFinite
    <3> QED
      BY <3>3, <3>4
  <2>4. CASE r \notin Holders(t, k)
    <3>1. Holders(t, k)' = Holders(t, k)
      BY <2>2, <2>4
    <3>2. CASE t = s /\ k = k0
      <4>1. at[r] # s
        BY <1>11, <2>4, <3>2
      <4>2. locks[s][k0] = 0 /\ held[k0] = 0 /\ locks'[s][k0] = 0
        BY <1>4, <1>6, <1>13, <2>1, <3>2, <4>1
      <4> QED
        BY <2>1, <3>1, <3>2, <4>2
    <3>3. CASE t = s /\ k # k0
      BY <1>4, <1>6, <2>1, <3>1, <3>3
    <3>4. CASE t # s
      BY <1>6, <2>1, <3>1, <3>4
    <3> QED
      BY <3>2, <3>3, <3>4
  <2> QED
    BY <2>3, <2>4
<1>15. CountCovers'
  BY <1>14 DEF CountCovers
<1>16. /\ at' \in [Runs -> Sessions \cup {NoSession}]
       /\ out' \in [Users -> Sessions \cup {NoSession}]
  BY <1>3 DEF TypeOK, IInv
<1>17. TypeOK'
  BY <1>3, <1>5, <1>6, <1>16 DEF TypeOK, IInv
<1>18. OutHome' /\ AtHome'
  BY <1>3 DEF TypeOK, OutHome, AtHome, IInv
<1> QED
  BY <1>5, <1>10, <1>15, <1>17, <1>18 DEF IInv

\* The lock is granted in the session at hand if no other session has it.
LEMMA AcquireStep ==
  ASSUME IInv, NEW r \in Runs, Acquire(r)
  PROVE  IInv'
<1> DEFINE e == EngineOf[r]
           k0 == KeyOf[r]
<1>0. r \in Users /\ e \in Engines /\ k0 \in Keys
  BY PoolAssumption DEF Users
<1>1. PICK s \in Offered(r), n \in 0..MaxCommits :
        /\ Grants(s, k0)
        /\ locks' = [locks EXCEPT ![s][k0] = @ + 1]
        /\ out' = [out EXCEPT ![r] = s]
        /\ at' = [at EXCEPT ![r] = s]
        /\ left' = [left EXCEPT ![r] = n]
  BY DEF Acquire
<1>2. s \in Sessions /\ HomeOf[s] = e /\ HomeSeq(e, Taken(e))
  BY <1>0, CheckoutHome DEF IInv
<1>3. /\ pool' = [pool EXCEPT ![e] = Taken(e)]
      /\ pc' = [pc EXCEPT ![r] = "locked"] /\ pc[r] = "idle"
      /\ started' = started + 1 /\ UNCHANGED lost
  BY DEF Acquire
<1>4. KeyOf[r] = k0 /\ EngineOf[r] = e
  OBVIOUS
<1> HIDE DEF e, k0
<1>5. pool' \in [Engines -> Seq(Sessions)] /\ PoolHome'
  BY <1>0, <1>2, <1>3 DEF IInv, TypeOK, PoolHome, HomeSeq
<1>6. /\ locks' \in [Sessions -> [Keys -> Nat]]
      /\ locks'[s][k0] = locks[s][k0] + 1
      /\ \A t \in Sessions : \A k \in Keys : t # s \/ k # k0 => locks'[t][k] = locks[t][k]
  BY <1>0, <1>1, <1>2 DEF IInv, TypeOK
<1>7. \A t \in Sessions : \A k \in Keys : locks[t][k] \in Nat
  BY DEF IInv, TypeOK
<1>8. OneHolder'
  <2> SUFFICES ASSUME NEW t \in Sessions, NEW u \in Sessions, NEW k \in Keys,
                      locks'[t][k] > 0, locks'[u][k] > 0
               PROVE  t = u
    BY DEF OneHolder
  <2>1. CASE k = k0
    <3>1. \A v \in Sessions : v # s => locks'[v][k0] = 0
      BY <1>0, <1>1, <1>6 DEF Grants
    <3> QED
      BY <2>1, <3>1
  <2>2. CASE k # k0
    BY <1>6, <2>2 DEF IInv, OneHolder
  <2> QED
    BY <2>1, <2>2
<1>9. CronLeavesNothing'
  <2> SUFFICES ASSUME NEW c \in Crons, pc'[c] = "idle", NEW t \in Sessions, HomeOf[t] = EngineOf[c]
               PROVE  Holding(t)' = {}
    BY DEF CronLeavesNothing
  <2>1. c \in Runs /\ c # r /\ pc[c] = "idle"
    BY <1>3, PoolAssumption DEF IInv, TypeOK
  <2>2. t # s
    BY <1>2, <1>4, <2>1, CronAssumption
  <2>3. Holding(t) = {}
    BY <2>1 DEF IInv, CronLeavesNothing
  <2> QED
    BY <1>6, <2>2, <2>3 DEF Holding
<1>10. ASSUME NEW t \in Sessions, NEW k \in Keys \ lost'
       PROVE  locks'[t][k] >= Cardinality(Holders(t, k)')
  <2>1. locks[t][k] >= Cardinality(Holders(t, k))
    BY <1>3 DEF IInv, CountCovers
  <2>2. CASE t = s /\ k = k0
    <3>1. Holders(t, k)' = Holders(t, k) \cup {r} /\ r \notin Holders(t, k)
      BY <1>1, <1>3, <1>4, <2>2 DEF Holders, IInv, TypeOK
    <3>2. Cardinality(Holders(t, k)') = Cardinality(Holders(t, k)) + 1
      BY <3>1, HoldersFinite, FS_AddElement
    <3> QED
      BY <1>6, <1>7, <2>1, <2>2, <3>2, HoldersFinite
  <2>3. CASE t # s \/ k # k0
    <3>1. Holders(t, k)' = Holders(t, k)
      BY <1>1, <1>3, <1>4, <2>3 DEF Holders, IInv, TypeOK
    <3> QED
      BY <1>6, <2>1, <2>3, <3>1
  <2> QED
    BY <2>2, <2>3
<1>11. CountCovers'
  BY <1>10 DEF CountCovers
<1>12. /\ at' \in [Runs -> Sessions \cup {NoSession}]
       /\ out' \in [Users -> Sessions \cup {NoSession}]
       /\ left' \in [Runs -> 0..MaxCommits]
  BY <1>1, <1>2 DEF IInv, TypeOK
<1>13. TypeOK'
  <2>1. pc' \in [Runs -> {"idle", "locked", "ended"}]
    BY <1>3 DEF IInv, TypeOK
  <2>2. started' \in Nat /\ lost' \subseteq Keys
    BY <1>3 DEF IInv, TypeOK
  <2> QED
    BY <1>5, <1>6, <1>12, <2>1, <2>2 DEF TypeOK
<1>14. OutHome'
  BY <1>1, <1>2, <1>4 DEF IInv, TypeOK, OutHome
<1>15. AtHome'
  BY <1>1, <1>2, <1>3, <1>4 DEF IInv, TypeOK, AtHome
<1> QED
  BY <1>5, <1>8, <1>9, <1>11, <1>13, <1>14, <1>15 DEF IInv

\* Disposing the cron's engine takes no lock from a run at work.
LEMMA DisposeStep ==
  ASSUME IInv, NEW r \in Runs, Dispose(r)
  PROVE  IInv'
<1>1. /\ r \in Crons /\ pc[r] = "ended" /\ pc' = [pc EXCEPT ![r] = "idle"]
      /\ locks' = [s \in Sessions |-> IF HomeOf[s] = EngineOf[r] THEN Unlocked ELSE locks[s]]
      /\ pool' = [pool EXCEPT ![EngineOf[r]] = <<>>]
      /\ UNCHANGED <<out, left, started, at, lost>>
  BY DEF Dispose
<1>2. Unlocked \in [Keys -> Nat] /\ \A k \in Keys : Unlocked[k] = 0
  BY DEF Unlocked
<1>3. /\ locks' \in [Sessions -> [Keys -> Nat]]
      /\ \A s \in Sessions : \A k \in Keys :
           locks'[s][k] = IF HomeOf[s] = EngineOf[r] THEN 0 ELSE locks[s][k]
  BY <1>1, <1>2 DEF IInv, TypeOK
<1>4. OneHolder'
  <2>1. \A s \in Sessions : \A k \in Keys : locks'[s][k] > 0 => locks[s][k] > 0
    BY <1>3
  <2> QED
    BY <2>1 DEF IInv, OneHolder
<1>5. CronLeavesNothing'
  <2> SUFFICES ASSUME NEW c \in Crons, pc'[c] = "idle", NEW t \in Sessions, HomeOf[t] = EngineOf[c]
               PROVE  Holding(t)' = {}
    BY DEF CronLeavesNothing
  <2>1. CASE c = r
    BY <1>3, <2>1 DEF Holding
  <2>2. CASE c # r
    <3>1. pc[c] = "idle"
      BY <1>1, <2>2, PoolAssumption DEF IInv, TypeOK
    <3>2. Holding(t) = {}
      BY <3>1 DEF IInv, CronLeavesNothing
    <3> QED
      BY <1>3, <3>2 DEF Holding
  <2> QED
    BY <2>1, <2>2
<1>6. ASSUME NEW t \in Sessions, NEW k \in Keys \ lost'
      PROVE  locks'[t][k] >= Cardinality(Holders(t, k)')
  <2>1. Holders(t, k)' = Holders(t, k)
    BY <1>1 DEF Holders, IInv, TypeOK
  <2>2. locks[t][k] >= Cardinality(Holders(t, k))
    BY <1>1 DEF IInv, CountCovers
  <2>3. CASE HomeOf[t] = EngineOf[r]
    <3>1. Holders(t, k) = {}
      <4> SUFFICES ASSUME NEW q \in Holders(t, k) PROVE FALSE
        OBVIOUS
      <4>1. q \in Runs /\ pc[q] = "locked" /\ EngineOf[q] = EngineOf[r]
        BY <2>3 DEF Holders, IInv, AtHome
      <4>2. q # r
        BY <1>1, <4>1
      <4> QED
        BY <1>1, <4>1, <4>2, CronAssumption
    <3>2. Cardinality(Holders(t, k)) = 0
      BY <3>1, FS_EmptySet
    <3> QED
      BY <1>3, <2>1, <2>3, <3>2
  <2>4. CASE HomeOf[t] # EngineOf[r]
    BY <1>3, <2>1, <2>2, <2>4
  <2> QED
    BY <2>3, <2>4
<1>7. CountCovers'
  BY <1>6 DEF CountCovers
<1>8. pool' \in [Engines -> Seq(Sessions)] /\ PoolHome'
  <2>1. pool' \in [Engines -> Seq(Sessions)]
    <3>1. <<>> \in Seq(Sessions) /\ pool \in [Engines -> Seq(Sessions)]
      BY DEF IInv, TypeOK
    <3> QED
      BY <1>1, <3>1
  <2>2. ASSUME NEW e \in Engines PROVE HomeSeq(e, pool'[e])
    <3>1. CASE e = EngineOf[r]
      <4>1. pool'[e] = <<>>
        BY <1>1, <3>1 DEF IInv, TypeOK
      <4> QED
        BY <4>1 DEF HomeSeq
    <3>2. CASE e # EngineOf[r]
      <4>1. pool'[e] = pool[e]
        BY <1>1, <3>2 DEF IInv, TypeOK
      <4> QED
        BY <4>1 DEF IInv, PoolHome
    <3> QED
      BY <3>1, <3>2
  <2> QED
    BY <2>1, <2>2 DEF PoolHome, HomeSeq
<1>9. TypeOK'
  BY <1>1, <1>3, <1>8 DEF IInv, TypeOK
<1>10. OutHome' /\ AtHome'
  BY <1>1 DEF IInv, TypeOK, OutHome, AtHome
<1> QED
  BY <1>4, <1>5, <1>7, <1>8, <1>9, <1>10 DEF IInv

-----------------------------------------------------------------------------
(* The invariant and what follows from it *)

\* The strengthened invariant holds in every reachable state of the lock and the
\* pools (ingest/lock.py on db/session.py), for every value of the constants.
THEOREM Invariance == Spec => []IInv
<1>1. Init => IInv
  <2> SUFFICES ASSUME Init PROVE IInv
    OBVIOUS
  <2>1. TypeOK /\ PoolHome /\ OutHome /\ AtHome
    BY PoolAssumption DEF Init, TypeOK, PoolHome, HomeSeq, OutHome, AtHome
  <2>2. \A s \in Sessions : \A k \in Keys : locks[s][k] = 0 /\ Holders(s, k) = {}
    BY DEF Init, Holders
  <2>3. OneHolder /\ CronLeavesNothing
    BY <2>2 DEF OneHolder, CronLeavesNothing, Holding
  <2>4. CountCovers
    BY <2>2, FS_EmptySet DEF CountCovers
  <2> QED
    BY <2>1, <2>3, <2>4 DEF IInv
<1>2. IInv /\ [Next]_vars => IInv'
  <2> SUFFICES ASSUME IInv, [Next]_vars PROVE IInv'
    OBVIOUS
  <2>1. ASSUME NEW r \in Runs, Acquire(r) PROVE IInv'
    BY <2>1, AcquireStep
  <2>2. ASSUME NEW r \in Runs, Refuse(r) PROVE IInv'
    BY <2>2, RefuseStep
  <2>3. ASSUME NEW r \in Runs, Commit(r) PROVE IInv'
    BY <2>3, CommitStep
  <2>4. ASSUME NEW p \in Users, Checkout(p) PROVE IInv'
    BY <2>4, CheckoutStep
  <2>5. ASSUME NEW r \in Runs, Unlock(r) PROVE IInv'
    BY <2>5, UnlockStep
  <2>6. ASSUME NEW r \in Runs, FailToUnlock(r) PROVE IInv'
    BY <2>6, FailToUnlockStep
  <2>7. ASSUME NEW r \in Runs, Dispose(r) PROVE IInv'
    BY <2>7, DisposeStep
  <2>8. ASSUME NEW r \in Runs, Leave(r) PROVE IInv'
    BY <2>8, LeaveStep
  <2>9. ASSUME NEW q \in Requests, Answer(q) PROVE IInv'
    BY <2>9, AnswerStep
  <2>10. ASSUME NEW e \in Engines, Recycle(e) PROVE IInv'
    BY <2>10, RecycleStep
  <2>11. CASE UNCHANGED vars
    BY <2>11 DEF vars, IInv, TypeOK, PoolHome, HomeSeq, OutHome, AtHome, OneHolder,
                 CountCovers, Holders, CronLeavesNothing, Holding
  <2> QED
    BY <2>1, <2>2, <2>3, <2>4, <2>5, <2>6, <2>7, <2>8, <2>9, <2>10, <2>11
       DEF Next, Go, Resume, Serve, Users
<1> QED
  BY <1>1, <1>2, PTL DEF Spec

\* The sets of values of locks, pools, sessions given out and runs.
THEOREM TypeCorrect == Spec => []TypeOK
BY Invariance, PTL DEF IInv

\* Until the pool closes a session with the key, the session that took a lock
\* counts every run at work under it (pg_try_advisory_lock is re-entrant).
THEOREM Covered == Spec => []CountCovers
BY Invariance, PTL DEF IInv

\* A cron run that is over has left nothing locked, for engine.dispose() closes
\* every session of its engine (scheduler/jobs.py).
THEOREM NothingLeft == Spec => []CronLeavesNothing
BY Invariance, PTL DEF IInv

\* Until then no run of the organization is at work beside its cron run: both
\* would be counted, in sessions of different engines, and one session at most
\* holds the key.
THEOREM Alone == Spec => []CronAlone
<1>1. IInv => CronAlone
  <2> SUFFICES ASSUME IInv, NEW r \in Crons, NEW q \in Runs, r # q, pc[r] = "locked",
                      pc[q] = "locked", KeyOf[r] = KeyOf[q], KeyOf[r] \notin lost
               PROVE  FALSE
    BY DEF CronAlone
  <2> DEFINE k == KeyOf[r]
  <2>1. r \in Runs /\ k \in Keys
    BY PoolAssumption
  <2>2. ASSUME NEW p \in Runs, pc[p] = "locked", KeyOf[p] = k
        PROVE  at[p] \in Sessions /\ HomeOf[at[p]] = EngineOf[p] /\ locks[at[p]][k] > 0
    <3>1. at[p] \in Sessions /\ HomeOf[at[p]] = EngineOf[p]
      BY <2>2 DEF IInv, AtHome
    <3>2. p \in Holders(at[p], k)
      BY <2>2 DEF Holders
    <3>3. Cardinality(Holders(at[p], k)) \in Nat \ {0}
      BY <3>2, HoldersFinite, FS_EmptySet
    <3>4. locks[at[p]][k] >= Cardinality(Holders(at[p], k))
      BY <2>1, <3>1 DEF IInv, CountCovers
    <3>5. locks[at[p]][k] \in Nat
      BY <2>1, <3>1 DEF IInv, TypeOK
    <3> QED
      BY <3>1, <3>3, <3>4, <3>5
  <2>3. at[r] = at[q]
    BY <2>1, <2>2 DEF IInv, OneHolder
  <2>4. EngineOf[r] = EngineOf[q]
    BY <2>1, <2>2, <2>3
  <2> QED
    BY <2>4, CronAssumption
<1> QED
  BY <1>1, Invariance, PTL

=============================================================================
