---------------------------- MODULE IntakeProofs ----------------------------
(***************************************************************************)
(* Theorems about Intake, for any number of handlers, proofs, spellings    *)
(* and restarts and any limits, windows and lengths of the day.            *)
(***************************************************************************)
EXTENDS Intake, TLAPS

Days == {Day(t) : t \in Time}

\* What the provers need to know of a handler's record.
TaskOK(h) ==
  /\ task[h].pc = "consume" => /\ task[h].nonce \in Nonces
                               /\ task[h].now \in Nat /\ task[h].now <= clock
  /\ task[h].pc = "quota" => task[h].today \in Days

Types ==
  /\ clock \in Time
  /\ task = [h \in Handler |-> task[h]]
  /\ \A h \in Handler : TaskOK(h)
  /\ used \in [Nonces -> Nat]
  /\ uses \in [Nonces -> Nat] /\ late \in [Nonces -> Nat]
  /\ llmDay.day \in Int /\ llmDay.count \in 0..DailyMax
  /\ llmDay = [day |-> llmDay.day, count |-> llmDay.count]
  /\ calls \in [Days -> Nat] /\ lateDays \in Nat /\ restarts \in Nat

\* The guard either remembers a nonce until its expiry, or has let it through no
\* more often than late or in earlier lives, or the proof's time is over.
Guarded ==
  \A n \in Nonces :
    /\ used[n] \in {0, Expires(n.proof)}
    /\ uses[n] <= 1 + late[n] + restarts
    /\ used[n] = 0 => uses[n] <= late[n] + restarts \/ clock >= Lapse(n.proof)

\* How often the counter was set back or emptied.
Resets == lateDays + restarts

\* The day the counter stands on has used what it counts, the days after it
\* only what resets cost, the days before it one allowance more.
Metered ==
  \A d \in Days :
    /\ d > llmDay.day => calls[d] <= DailyMax * Resets
    /\ d = llmDay.day => calls[d] <= DailyMax * Resets + llmDay.count
    /\ d < llmDay.day => calls[d] <= DailyMax * Resets + DailyMax

Inv == Types /\ Guarded /\ Metered

\* Facts about the constants.
LEMMA Constants ==
  /\ DailyMax \in Nat /\ MaxAge \in Nat /\ MaxSkew \in Nat /\ MaxTime \in Nat
  /\ \A k \in Token : Expires(k) \in Nat /\ Lapse(k) = Expires(k)
<1>1. DailyMax \in Nat /\ MaxAge \in Nat /\ MaxSkew \in Nat /\ MaxTime \in Nat
    BY IntakeAssumption
<1>2. ASSUME NEW k \in Token
      PROVE  Expires(k) \in Nat /\ Lapse(k) = Expires(k)
  <2>1. k.stamp \in Nat
      BY <1>1, IntakeAssumption DEF Time
  <2> QED
      BY <1>1, <2>1 DEF Expires, Lapse
<1> QED
    BY <1>1, <1>2

\* The times of a nonce are those of its proof.
LEMMA NonceTimes ==
  ASSUME NEW n \in Nonces
  PROVE  /\ n.proof \in Token /\ Expires(n.proof) \in Nat
         /\ Lapse(n.proof) \in Nat /\ Lapse(n.proof) = Expires(n.proof)
<1>1. n.proof \in Token
    BY DEF Nonces
<1> QED
    BY <1>1, Constants

\* Products of naturals are naturals.
LEMMA NatProduct ==
  ASSUME NEW a \in Nat, NEW b \in Nat
  PROVE  a * b \in Nat
  OBVIOUS

\* Days are numbered.
LEMMA DaysAreInts == Days \subseteq Int
<1>1. DayLength \in Nat \ {0} /\ MaxTime \in Nat
    BY IntakeAssumption
<1> QED
    BY <1>1 DEF Days, Day, Time

\* What an update of one handler leaves of the others.
LEMMA TaskUpdate ==
  ASSUME Types, NEW h \in Handler, NEW r, task' = [task EXCEPT ![h] = r], clock' = clock,
         r.pc = "consume" => r.nonce \in Nonces /\ r.now \in Nat /\ r.now <= clock,
         r.pc = "quota" => r.today \in Days
  PROVE  /\ task' = [g \in Handler |-> task'[g]]
         /\ \A g \in Handler : TaskOK(g)'
<1>1. task'[h] = r /\ \A g \in Handler \ {h} : task'[g] = task[g]
    BY DEF Types
<1>2. task' = [g \in Handler |-> task'[g]]
    BY DEF Types
<1>3. \A g \in Handler \ {h} : TaskOK(g)'
    BY <1>1 DEF Types, TaskOK
<1>4. TaskOK(h)'
    BY <1>1 DEF TaskOK
<1> QED
    BY <1>2, <1>3, <1>4

\* The clock runs away from what was read.
LEMMA TickInv ==
  ASSUME Inv, Tick
  PROVE  Inv'
<1>1. clock \in Nat /\ clock' = clock + 1 /\ clock' \in Time
    BY Constants DEF Tick, Inv, Types, Time
<1>2. \A h \in Handler : TaskOK(h)'
    BY <1>1 DEF Tick, Inv, Types, TaskOK, memory, ghosts
<1>3. Types'
    BY <1>1, <1>2 DEF Tick, Inv, Types, memory, ghosts
<1>4. Guarded'
  <2> SUFFICES ASSUME NEW n \in Nonces
               PROVE  /\ used'[n] \in {0, Expires(n.proof)}
                      /\ uses'[n] <= 1 + late'[n] + restarts'
                      /\ used'[n] = 0 => uses'[n] <= late'[n] + restarts' \/ clock' >= Lapse(n.proof)
      BY DEF Guarded, Expires, Lapse
  <2>1. UNCHANGED <<used, uses, late, restarts>>
      BY DEF Tick, memory, ghosts
  <2>2. /\ used[n] \in {0, Expires(n.proof)}
        /\ uses[n] <= 1 + late[n] + restarts
        /\ used[n] = 0 => uses[n] <= late[n] + restarts \/ clock >= Lapse(n.proof)
      BY DEF Inv, Guarded
  <2>3. Lapse(n.proof) \in Nat
      BY NonceTimes
  <2> QED
      BY <1>1, <2>1, <2>2, <2>3
<1>5. Metered'
    BY DEF Tick, Inv, Metered, Resets, memory, ghosts
<1> QED
    BY <1>3, <1>4, <1>5 DEF Inv

\* A step that reads, or that asks the limiter, touches neither guard nor quota.
LEMMA AsideInv ==
  ASSUME Inv, NEW h \in Handler, NEW r, task' = [task EXCEPT ![h] = r],
         r.pc = "consume" => r.nonce \in Nonces /\ r.now \in Nat /\ r.now <= clock,
         r.pc = "quota" => r.today \in Days,
         UNCHANGED <<clock, used, llmDay, uses, late, calls, lateDays, restarts>>
  PROVE  Inv'
<1>1. Types'
    BY TaskUpdate DEF Inv, Types
<1>2. Guarded' /\ Metered'
    BY DEF Inv, Guarded, Metered, Resets
<1> QED
    BY <1>1, <1>2 DEF Inv

\* A nonce that meets its guard again in one life is accepted only after its expiry.
LEMMA ConsumeInv ==
  ASSUME Inv, NEW h \in Handler, Consume(h)
  PROVE  Inv'
<1> DEFINE k == task[h].nonce
           now == task[h].now
           kept == [j \in Nonces |->
                      IF j.proof.kind = k.proof.kind /\ used[j] <= now THEN 0 ELSE used[j]]
<1>0. Types /\ Guarded /\ Metered
    BY DEF Inv
<1>1. k \in Nonces /\ now \in Nat /\ now <= clock /\ clock \in Nat
    BY <1>0, Constants DEF Types, TaskOK, Consume, Time
<1>2. used \in [Nonces -> Nat] /\ uses \in [Nonces -> Nat] /\ late \in [Nonces -> Nat]
    BY <1>0 DEF Types
<1>3. /\ late' \in [Nonces -> Nat]
      /\ \A j \in Nonces : late[j] <= late'[j]
      /\ clock >= Lapse(k.proof) => late'[k] = late[k] + 1
    BY <1>1, <1>2 DEF Consume
<1>4. kept \in [Nonces -> Nat]
    BY <1>2
<1>5. ASSUME NEW j \in Nonces
      PROVE  /\ kept[j] \in {0, Expires(j.proof)}
             /\ kept[j] = 0 => uses[j] <= late[j] + restarts \/ clock >= Lapse(j.proof)
  <2>1. /\ used[j] \in {0, Expires(j.proof)} /\ used[j] \in Nat
        /\ used[j] = 0 => uses[j] <= late[j] + restarts \/ clock >= Lapse(j.proof)
      BY <1>0, <1>2 DEF Guarded
  <2>2. CASE kept[j] = used[j]
      BY <2>1, <2>2
  <2>3. CASE kept[j] = 0 /\ used[j] <= now
    <3>1. CASE used[j] = 0
        BY <2>1, <2>3, <3>1
    <3>2. CASE used[j] = Expires(j.proof)
      <4>1. clock >= Lapse(j.proof)
          BY <1>1, <2>1, <2>3, <3>2, NonceTimes
      <4> QED
          BY <2>3, <4>1
    <3> QED
        BY <2>1, <3>1, <3>2
  <2> QED
      BY <2>2, <2>3
<1>6. UNCHANGED <<clock, llmDay, calls, lateDays, restarts>> /\ restarts \in Nat
    BY <1>0 DEF Consume, Types
<1>7. Metered'
    BY <1>0, <1>6 DEF Metered, Resets
<1>8. \E r : /\ task' = [task EXCEPT ![h] = r]
             /\ r = Idle \/ r = [pc |-> "rate", key |-> k.proof.who]
    BY DEF Consume
<1>9. task' = [g \in Handler |-> task'[g]] /\ \A g \in Handler : TaskOK(g)'
  <2>1. PICK r : task' = [task EXCEPT ![h] = r] /\ (r = Idle \/ r = [pc |-> "rate", key |-> k.proof.who])
      BY <1>8
  <2>2. r.pc # "consume" /\ r.pc # "quota"
      BY <2>1 DEF Idle
  <2> QED
      BY <1>0, <1>6, <2>1, <2>2, TaskUpdate
<1>10. CASE kept[k] # 0
  <2>1. used' = kept /\ uses' = uses
      BY <1>10 DEF Consume
  <2> HIDE DEF kept, k, now
  <2>2. Guarded'
    <3> SUFFICES ASSUME NEW j \in Nonces
                 PROVE  /\ used'[j] \in {0, Expires(j.proof)}
                        /\ uses'[j] <= 1 + late'[j] + restarts'
                        /\ used'[j] = 0 => uses'[j] <= late'[j] + restarts' \/ clock' >= Lapse(j.proof)
        BY DEF Guarded, Expires, Lapse
    <3>1. /\ uses[j] <= 1 + late[j] + restarts /\ late[j] <= late'[j]
          /\ uses[j] \in Nat /\ late[j] \in Nat /\ late'[j] \in Nat
        BY <1>0, <1>2, <1>3 DEF Guarded
    <3>2. /\ kept[j] \in {0, Expires(j.proof)}
          /\ kept[j] = 0 => uses[j] <= late[j] + restarts \/ clock >= Lapse(j.proof)
        BY <1>5
    <3> QED
        BY <1>6, <2>1, <3>1, <3>2
  <2> QED
      BY <1>0, <1>2, <1>3, <1>4, <1>6, <1>7, <1>9, <2>1, <2>2 DEF Inv, Types
<1>11. CASE kept[k] = 0
  <2>1. used' = [kept EXCEPT ![k] = Expires(k.proof)] /\ uses' = [uses EXCEPT ![k] = @ + 1]
      BY <1>11 DEF Consume
  <2>2. kept[k] = 0
      BY <1>11
  <2> HIDE DEF kept, k, now
  <2>3. used' \in [Nonces -> Nat] /\ uses' \in [Nonces -> Nat]
      BY <1>1, <1>2, <1>4, <2>1, NonceTimes
  <2>4. Guarded'
    <3> SUFFICES ASSUME NEW j \in Nonces
                 PROVE  /\ used'[j] \in {0, Expires(j.proof)}
                        /\ uses'[j] <= 1 + late'[j] + restarts'
                        /\ used'[j] = 0 => uses'[j] <= late'[j] + restarts' \/ clock' >= Lapse(j.proof)
        BY DEF Guarded, Expires, Lapse
    <3>1. /\ uses[j] <= 1 + late[j] + restarts /\ late[j] <= late'[j]
          /\ uses[j] \in Nat /\ late[j] \in Nat /\ late'[j] \in Nat
        BY <1>0, <1>2, <1>3 DEF Guarded
    <3>2. /\ kept[j] \in {0, Expires(j.proof)}
          /\ kept[j] = 0 => uses[j] <= late[j] + restarts \/ clock >= Lapse(j.proof)
        BY <1>5
    <3>3. CASE j # k
      <4>1. used'[j] = kept[j] /\ uses'[j] = uses[j]
          BY <1>2, <1>4, <2>1, <3>3
      <4> QED
          BY <1>6, <3>1, <3>2, <4>1
    <3>4. CASE j = k
      <4>1. used'[j] = Expires(j.proof) /\ uses'[j] = uses[j] + 1
          BY <1>1, <1>2, <1>4, <2>1, <3>4
      <4>2. uses[j] <= late[j] + restarts \/ clock >= Lapse(j.proof)
          BY <2>2, <3>2, <3>4
      <4>3. uses'[j] <= 1 + late'[j] + restarts'
          BY <1>3, <1>6, <3>1, <3>4, <4>1, <4>2
      <4>4. used'[j] = 0 => clock' >= Lapse(j.proof)
        <5>1. Lapse(j.proof) = Expires(j.proof)
            BY NonceTimes
        <5>2. clock' >= 0
            BY <1>1, <1>6
        <5> QED
            BY <4>1, <5>1, <5>2
      <4> QED
          BY <4>1, <4>3, <4>4
    <3> QED
        BY <3>3, <3>4
  <2> QED
      BY <1>0, <1>3, <1>6, <1>7, <1>9, <2>3, <2>4 DEF Inv, Types
<1> QED
    BY <1>10, <1>11

\* Handlers that come late are counted.
LEMMA LateCounted ==
  ASSUME Types, NEW h \in Handler, Quota(h)
  PROVE  lateDays' \in Nat
  BY DEF Types, Quota

\* A handler that takes the quota counts on the day it read.
LEMMA QuotaInv ==
  ASSUME Inv, NEW h \in Handler, Quota(h)
  PROVE  Inv'
<1> DEFINE today == task[h].today
           day == llmDay.day
           count == llmDay.count
           D == DailyMax
           P == DailyMax * Resets
           Q == DailyMax * Resets'
           fresh == day # today
           c == IF fresh THEN 0 ELSE count
<1>0. Types /\ Guarded /\ Metered
    BY DEF Inv
<1>1. today \in Days /\ today \in Int /\ day \in Int /\ count \in Nat /\ count <= D
    BY <1>0, DaysAreInts, Constants DEF Types, TaskOK, Quota
<1>2. Resets \in Nat /\ Resets' \in Nat /\ calls \in [Days -> Nat] /\ D \in Nat
    BY <1>0, Constants DEF Types, Quota, Resets
<1>3. P \in Nat /\ Q \in Nat
    BY ONLY <1>2, NatProduct
<1>4. Q = IF today < day THEN P + D ELSE P
  <2>1. CASE today < day
    <3>1. Resets' = Resets + 1
        BY <1>0, <2>1 DEF Quota, Resets, Types
    <3>2. DailyMax * (Resets + 1) = DailyMax * Resets + DailyMax
        BY <1>2
    <3> QED
        BY <2>1, <3>1, <3>2
  <2>2. CASE ~(today < day)
      BY <2>2 DEF Quota, Resets
  <2> QED
      BY <2>1, <2>2
<1>5. OnDay(today) = [day |-> today, count |-> c]
    BY <1>0 DEF OnDay, Types
<1>6. UNCHANGED <<clock, used, uses, late, restarts>> /\ task' = [task EXCEPT ![h] = Idle]
    BY DEF Quota
<1>7. Guarded'
    BY <1>0, <1>6 DEF Guarded
<1>8. task' = [g \in Handler |-> task'[g]] /\ \A g \in Handler : TaskOK(g)'
  <2>1. Idle.pc # "consume" /\ Idle.pc # "quota"
      BY DEF Idle
  <2> QED
      BY <1>0, <1>6, <2>1, TaskUpdate
<1>9. \A d \in Days : /\ calls[d] \in Nat /\ d \in Int
                      /\ d > day => calls[d] <= P
                      /\ d = day => calls[d] <= P + count
                      /\ d < day => calls[d] <= P + D
    BY <1>0, <1>2, DaysAreInts DEF Metered
<1>10. \/ /\ c >= D
          /\ llmDay' = [day |-> today, count |-> c] /\ calls' = calls
       \/ /\ c < D
          /\ llmDay' = [day |-> today, count |-> c + 1]
          /\ calls' = [calls EXCEPT ![today] = @ + 1]
  <2>1. c \in Nat
      BY <1>1
  <2> HIDE DEF c
  <2> QED
      BY <1>2, <1>5, <2>1 DEF Quota
<1>11. ASSUME NEW d \in Days
       PROVE  /\ d > today => calls[d] <= Q
              /\ d = today => calls[d] <= Q + c
              /\ d < today => calls[d] <= Q + D
  <2>1. /\ calls[d] \in Nat /\ d \in Int
        /\ d > day => calls[d] <= P
        /\ d = day => calls[d] <= P + count
        /\ d < day => calls[d] <= P + D
      BY <1>9
  <2> HIDE DEF P, Q, D, today, day, count
  <2>2. CASE today < day
      BY <1>1, <1>2, <1>3, <1>4, <2>1, <2>2
  <2>3. CASE today = day
      BY <1>1, <1>2, <1>3, <1>4, <2>1, <2>3
  <2>4. CASE today > day
      BY <1>1, <1>2, <1>3, <1>4, <2>1, <2>4
  <2> QED
      BY <1>1, <2>2, <2>3, <2>4
<1>12. /\ llmDay'.day = today /\ llmDay'.count \in 0..DailyMax
       /\ llmDay' = [day |-> llmDay'.day, count |-> llmDay'.count]
       /\ c <= llmDay'.count
  <2>1. c \in Nat /\ c <= D
      BY <1>1, <1>2
  <2> HIDE DEF c
  <2> QED
      BY <1>2, <1>10, <2>1
<1>13. /\ calls' \in [Days -> Nat]
       /\ \A d \in Days \ {today} : calls'[d] = calls[d]
       /\ calls'[today] = calls[today] + (llmDay'.count - c)
  <2>1. c \in Nat
      BY <1>1
  <2> HIDE DEF c
  <2> QED
      BY <1>1, <1>2, <1>10, <2>1
<1>14. Metered'
  <2> SUFFICES ASSUME NEW d \in Days
               PROVE  /\ d > llmDay'.day => calls'[d] <= Q
                      /\ d = llmDay'.day => calls'[d] <= Q + llmDay'.count
                      /\ d < llmDay'.day => calls'[d] <= Q + D
      BY DEF Metered, Days, Day, Time
  <2>1. c \in Nat /\ d \in Int /\ calls[d] \in Nat /\ llmDay'.count \in Nat
      BY <1>1, <1>2, <1>9, <1>12
  <2> HIDE DEF c, today, Q, D
  <2> QED
      BY <1>1, <1>2, <1>3, <1>11, <1>12, <1>13, <2>1
<1> QED
    BY <1>0, <1>1, <1>2, <1>6, <1>7, <1>8, <1>12, <1>13, <1>14, LateCounted DEF Inv, Types, Days, Day, Time

\* A restart forgets the guards and the counter, and is counted itself.
LEMMA RestartInv ==
  ASSUME Inv, Restart
  PROVE  Inv'
<1>0. Types /\ Guarded /\ Metered
    BY DEF Inv
<1>1. /\ restarts \in Nat /\ restarts' = restarts + 1 /\ used' = NoneUsed
      /\ llmDay' = NoCalls /\ task' = [h \in Handler |-> Idle]
      /\ UNCHANGED <<clock, uses, late, calls, lateDays>>
    BY <1>0 DEF Restart, Types
<1>2. \A h \in Handler : TaskOK(h)'
    BY <1>1 DEF TaskOK, Idle
<1>3. /\ llmDay'.day = 0 /\ llmDay'.count = 0
      /\ llmDay' = [day |-> llmDay'.day, count |-> llmDay'.count]
    BY <1>1 DEF NoCalls
<1>4. used' \in [Nonces -> Nat] /\ \A n \in Nonces : used'[n] = 0
    BY <1>1 DEF NoneUsed
<1>5. Types'
    BY <1>0, <1>1, <1>2, <1>3, <1>4, Constants DEF Types, Days, Day, Time
<1>6. Guarded'
  <2> SUFFICES ASSUME NEW n \in Nonces
               PROVE  /\ used'[n] = 0
                      /\ uses'[n] <= 1 + late'[n] + restarts'
                      /\ uses'[n] <= late'[n] + restarts'
      BY DEF Guarded, Expires, Lapse
  <2>1. uses[n] \in Nat /\ late[n] \in Nat /\ uses[n] <= 1 + late[n] + restarts
      BY <1>0 DEF Guarded, Types
  <2> QED
      BY <1>1, <1>4, <2>1
<1>7. Metered'
  <2> DEFINE P == DailyMax * Resets
             Q == DailyMax * Resets'
  <2>1. Resets \in Nat /\ Resets' = Resets + 1 /\ DailyMax \in Nat
      BY <1>0, <1>1, Constants DEF Resets, Types
  <2>2. P \in Nat /\ Q = P + DailyMax
      BY <2>1
  <2>3. ASSUME NEW d \in Days
        PROVE  calls[d] <= P + DailyMax
    <3>1. /\ calls[d] \in Nat /\ d \in Int /\ llmDay.day \in Int
          /\ llmDay.count \in Nat /\ llmDay.count <= DailyMax
        BY <1>0, <2>1, DaysAreInts DEF Types
    <3>2. /\ d > llmDay.day => calls[d] <= P
          /\ d = llmDay.day => calls[d] <= P + llmDay.count
          /\ d < llmDay.day => calls[d] <= P + DailyMax
        BY <1>0 DEF Metered
    <3> HIDE DEF P
    <3> QED
        BY <2>1, <2>2, <3>1, <3>2
  <2> SUFFICES ASSUME NEW d \in Days
               PROVE  /\ d > llmDay'.day => calls'[d] <= Q
                      /\ d = llmDay'.day => calls'[d] <= Q + llmDay'.count
                      /\ d < llmDay'.day => calls'[d] <= Q + DailyMax
      BY DEF Metered, Days, Day, Time
  <2>4. calls[d] \in Nat /\ calls[d] <= P + DailyMax
      BY <1>0, <2>3 DEF Types
  <2> HIDE DEF P, Q
  <2> QED
      BY <1>1, <1>3, <2>1, <2>2, <2>4
<1> QED
    BY <1>5, <1>6, <1>7 DEF Inv

\* Every step keeps the invariant.
LEMMA InvStep == Inv /\ [Next]_vars => Inv'
<1> SUFFICES ASSUME Inv, [Next]_vars
             PROVE  Inv'
    OBVIOUS
<1>0. clock \in Nat /\ clock \in Time
    BY Constants DEF Inv, Types, Time
<1>1. CASE UNCHANGED vars
    BY <1>1 DEF vars, memory, ghosts, Inv, Types, TaskOK, Guarded, Metered, Resets
<1>2. CASE Tick
    BY <1>2, TickInv
<1>3. ASSUME NEW h \in Handler, NEW w \in Key, Post(h, w)
      PROVE  Inv'
  <2>1. UNCHANGED <<clock, used, llmDay, uses, late, calls, lateDays, restarts>>
      BY <1>3 DEF Post
  <2>2. CASE task' = task
      BY <2>1, <2>2 DEF Inv, Types, TaskOK, Guarded, Metered, Resets
  <2>3. CASE task' = [task EXCEPT ![h] = [pc |-> "day"]]
      BY <2>1, <2>3, AsideInv
  <2> QED
      BY <1>3, <2>2, <2>3 DEF Post
<1>4. ASSUME NEW h \in Handler, NEW k \in Token, NEW s \in Spelling, Verify(h, k, s)
      PROVE  Inv'
  <2> DEFINE r == [pc |-> "consume", nonce |-> Nonce(k, s), now |-> clock]
  <2>0. Nonce(k, s) \in Nonces
      BY IntakeAssumption DEF Nonce, Nonces, Spelling
  <2>1. r.nonce \in Nonces /\ r.now \in Nat /\ r.now <= clock /\ r.pc # "quota"
      BY <1>0, <2>0
  <2>2. /\ task' = [task EXCEPT ![h] = r]
        /\ UNCHANGED <<clock, used, llmDay, uses, late, calls, lateDays, restarts>>
      BY <1>4 DEF Verify, memory, ghosts
  <2> HIDE DEF r
  <2> QED
      BY <2>1, <2>2, AsideInv
<1>5. ASSUME NEW h \in Handler, Consume(h)
      PROVE  Inv'
    BY <1>5, ConsumeInv
<1>6. ASSUME NEW h \in Handler, Rate(h)
      PROVE  Inv'
  <2>1. UNCHANGED <<clock, used, llmDay, uses, late, calls, lateDays, restarts>>
      BY <1>6 DEF Rate
  <2>2. CASE task' = [task EXCEPT ![h] = [pc |-> "day"]]
      BY <2>1, <2>2, AsideInv
  <2>3. CASE task' = [task EXCEPT ![h] = Idle]
      BY <2>1, <2>3, AsideInv DEF Idle
  <2> QED
      BY <1>6, <2>2, <2>3 DEF Rate
<1>7. ASSUME NEW h \in Handler, ReadDay(h)
      PROVE  Inv'
  <2>1. Day(clock) \in Days
      BY <1>0 DEF Days
  <2> QED
      BY <1>7, <2>1, AsideInv DEF ReadDay, memory, ghosts
<1>8. ASSUME NEW h \in Handler, Quota(h)
      PROVE  Inv'
    BY <1>8, QuotaInv
<1>9. CASE Restart
    BY <1>9, RestartInv
<1> QED
    BY <1>1, <1>2, <1>3, <1>4, <1>5, <1>6, <1>7, <1>8, <1>9 DEF Next

\* The invariant holds before the first request.
LEMMA InvInit == Init => Inv
<1> SUFFICES ASSUME Init
             PROVE  Inv
    OBVIOUS
<1>1. \A h \in Handler : TaskOK(h)
    BY DEF Init, TaskOK, Idle
<1>2. /\ llmDay.day = 0 /\ llmDay.count = 0 /\ Resets = 0
      /\ llmDay = [day |-> llmDay.day, count |-> llmDay.count]
    BY DEF Init, NoCalls, Resets
<1>3. Types
    BY <1>1, <1>2, Constants DEF Init, NoneUsed, Types, Days, Time
<1>4. Guarded
    BY DEF Init, NoneUsed, Guarded
<1>5. Metered
  <2>1. \A d \in Days : calls[d] = 0
      BY DEF Init, Days
  <2>2. DailyMax \in Nat /\ DailyMax * Resets = 0
      BY <1>2, Constants
  <2> QED
      BY <1>2, <2>1, <2>2 DEF Metered
<1> QED
    BY <1>3, <1>4, <1>5 DEF Inv
----------------------------------------------------------------------------
(* The limiter *)

\* Times of one key in the order they were let through, none after now,
\* with the window standing at start for the last count of them: the first of
\* those opened it, and what lies RateMax or more before it is older by a window.
Paced(q, start, count, now) ==
  /\ q \in Seq(Nat) /\ now \in Nat /\ start \in Int /\ count \in 0..RateMax /\ count <= Len(q)
  /\ \A i, j \in 1..Len(q) : i <= j => q[i] <= q[j]
  /\ \A i \in 1..Len(q) : q[i] <= now
  /\ Len(q) = 0 => start + RateWindow <= 0
  /\ Len(q) > 0 => count > 0 /\ q[Len(q) - count + 1] = start
  /\ \A i \in 1..Len(q) : i + RateMax <= Len(q) - count + 1 => q[i] + RateWindow <= start
  /\ \A i, j \in 1..Len(q) : j - i >= 2 * RateMax - 1 => q[j] - q[i] >= RateWindow

Limited ==
  /\ window = [w \in Key |-> [start |-> window[w].start, count |-> window[w].count]]
  /\ accepted = [w \in Key |-> accepted[w]]
  /\ \A w \in Key : Paced(accepted[w], window[w].start, window[w].count, clock)

\* Facts about the limiter's constants.
LEMMA RateConstants ==
  /\ RateMax \in Nat /\ RateMax > 0 /\ RateWindow \in Nat /\ RateWindow > 0
  BY IntakeAssumption

\* Time passing changes nothing for the limiter.
LEMMA PacedLater ==
  ASSUME NEW q, NEW start, NEW count, NEW now, NEW then \in Nat,
         Paced(q, start, count, now), now <= then
  PROVE  Paced(q, start, count, then)
  BY DEF Paced

\* What appending does to a sequence of times.
LEMMA AppendTime ==
  ASSUME NEW q \in Seq(Nat), NEW t \in Nat
  PROVE  /\ Append(q, t) \in Seq(Nat) /\ Len(q) \in Nat /\ Len(Append(q, t)) = Len(q) + 1
         /\ Append(q, t)[Len(q) + 1] = t
         /\ \A i \in 1..Len(q) : Append(q, t)[i] = q[i] /\ q[i] \in Nat
  OBVIOUS

\* A request that finds the window over opens a new one.
LEMMA OpenWindow ==
  ASSUME NEW q, NEW start, NEW count, NEW now, Paced(q, start, count, now),
         now - start >= RateWindow
  PROVE  Paced(Append(q, now), now, 1, now)
<1> DEFINE n == Len(q)
           a == Append(q, now)
<1>1. RateMax \in Nat /\ RateMax > 0 /\ RateWindow \in Nat
    BY RateConstants
<1>2. q \in Seq(Nat) /\ now \in Nat /\ start \in Int /\ count \in Nat /\ count <= RateMax /\ count <= n
    BY <1>1 DEF Paced
<1>3. /\ a \in Seq(Nat) /\ n \in Nat /\ Len(a) = n + 1 /\ a[n + 1] = now
      /\ \A i \in 1..n : a[i] = q[i] /\ q[i] \in Nat
    BY <1>2, AppendTime
<1>4. \A i \in 1..n : q[i] <= now
    BY DEF Paced
<1>5. ASSUME NEW i \in 1..n, i + RateMax <= n + 1
      PROVE  q[i] + RateWindow <= now
  <2>1. count > 0 /\ q[n - count + 1] = start
      BY <1>3, <1>5 DEF Paced
  <2>2. i <= n - count + 1 /\ n - count + 1 \in 1..n
      BY <1>1, <1>2, <1>3, <1>5, <2>1
  <2>3. q[i] <= start
      BY <2>1, <2>2 DEF Paced
  <2> QED
      BY <1>1, <1>2, <1>3, <2>3
<1>6. \A i, j \in 1..n : i <= j => q[i] <= q[j]
    BY DEF Paced
<1>7. \A i, j \in 1..n : j - i >= 2 * RateMax - 1 => q[j] - q[i] >= RateWindow
    BY DEF Paced
<1> HIDE DEF n, a
<1>8. ASSUME NEW i \in 1..(n + 1), NEW j \in 1..(n + 1), i <= j
      PROVE  a[i] <= a[j]
  <2>1. CASE j \in 1..n
    <3>1. i \in 1..n
        BY <1>3, <1>8, <2>1
    <3> QED
        BY <1>3, <1>6, <1>8, <2>1, <3>1
  <2>2. CASE j = n + 1 /\ i \in 1..n
      BY <1>3, <1>4, <2>2
  <2>3. CASE j = n + 1 /\ i = n + 1
      BY <1>2, <1>3, <2>3
  <2> QED
      BY <1>3, <2>1, <2>2, <2>3
<1>9. ASSUME NEW i \in 1..(n + 1), NEW j \in 1..(n + 1), j - i >= 2 * RateMax - 1
      PROVE  a[j] - a[i] >= RateWindow
  <2>1. CASE j \in 1..n
    <3>1. i \in 1..n
        BY <1>1, <1>3, <1>9, <2>1
    <3> QED
        BY <1>3, <1>7, <1>9, <2>1, <3>1
  <2>2. CASE j = n + 1
    <3>1. i \in 1..n /\ i + RateMax <= n + 1
        BY <1>1, <1>3, <1>9, <2>2
    <3>2. q[i] + RateWindow <= now
        BY <1>5, <3>1
    <3>3. a[j] = now /\ a[i] = q[i] /\ q[i] \in Nat
        BY <1>3, <2>2, <3>1
    <3> QED
        BY <1>1, <1>2, <3>2, <3>3
  <2> QED
      BY <1>3, <2>1, <2>2
<1>10. ASSUME NEW i \in 1..(n + 1), i + RateMax <= n + 1
       PROVE  a[i] + RateWindow <= now
  <2>1. i \in 1..n
      BY <1>1, <1>3, <1>10
  <2> QED
      BY <1>3, <1>5, <1>10, <2>1
<1>11. ASSUME NEW i \in 1..(n + 1)
       PROVE  a[i] <= now
  <2>1. CASE i \in 1..n
      BY <1>3, <1>4, <2>1
  <2>2. CASE i = n + 1
      BY <1>2, <1>3, <2>2
  <2> QED
      BY <1>3, <2>1, <2>2
<1>12. Len(a) - 1 + 1 = n + 1 /\ 1 \in 0..RateMax /\ 1 <= Len(a) /\ now \in Int
    BY <1>1, <1>2, <1>3
<1>13. Paced(a, now, 1, now)
    BY <1>2, <1>3, <1>8, <1>9, <1>10, <1>11, <1>12 DEF Paced
<1> QED
    BY <1>13 DEF a

\* A request let through inside its window.
LEMMA FillWindow ==
  ASSUME NEW q, NEW start, NEW count, NEW now, Paced(q, start, count, now),
         now - start < RateWindow, count < RateMax
  PROVE  Paced(Append(q, now), start, count + 1, now)
<1> DEFINE n == Len(q)
           a == Append(q, now)
<1>1. RateMax \in Nat /\ RateMax > 0 /\ RateWindow \in Nat
    BY RateConstants
<1>2. q \in Seq(Nat) /\ now \in Nat /\ start \in Int /\ count \in Nat /\ count <= RateMax /\ count <= n
    BY <1>1 DEF Paced
<1>3. /\ a \in Seq(Nat) /\ n \in Nat /\ Len(a) = n + 1 /\ a[n + 1] = now
      /\ \A i \in 1..n : a[i] = q[i] /\ q[i] \in Nat
    BY <1>2, AppendTime
<1>4. \A i \in 1..n : q[i] <= now
    BY DEF Paced
<1>5. /\ count > 0 /\ q[n - count + 1] = start /\ n - count + 1 \in 1..n
      /\ start <= now
  <2>1. n > 0
      BY <1>1, <1>2, <1>3 DEF Paced
  <2>2. count > 0 /\ q[n - count + 1] = start
      BY <2>1 DEF Paced
  <2>3. n - count + 1 \in 1..n
      BY <1>2, <1>3, <2>2
  <2> QED
      BY <1>4, <2>2, <2>3
<1>6. \A i, j \in 1..n : i <= j => q[i] <= q[j]
    BY DEF Paced
<1>7. \A i, j \in 1..n : j - i >= 2 * RateMax - 1 => q[j] - q[i] >= RateWindow
    BY DEF Paced
<1>8. \A i \in 1..n : i + RateMax <= n - count + 1 => q[i] + RateWindow <= start
    BY DEF Paced
<1> HIDE DEF n, a
<1>9. ASSUME NEW i \in 1..(n + 1), NEW j \in 1..(n + 1), i <= j
      PROVE  a[i] <= a[j]
  <2>1. CASE j \in 1..n
    <3>1. i \in 1..n
        BY <1>3, <1>9, <2>1
    <3> QED
        BY <1>3, <1>6, <1>9, <2>1, <3>1
  <2>2. CASE j = n + 1 /\ i \in 1..n
      BY <1>3, <1>4, <2>2
  <2>3. CASE j = n + 1 /\ i = n + 1
      BY <1>2, <1>3, <2>3
  <2> QED
      BY <1>3, <2>1, <2>2, <2>3
<1>10. ASSUME NEW i \in 1..(n + 1), NEW j \in 1..(n + 1), j - i >= 2 * RateMax - 1
       PROVE  a[j] - a[i] >= RateWindow
  <2>1. CASE j \in 1..n
    <3>1. i \in 1..n
        BY <1>1, <1>3, <1>10, <2>1
    <3> QED
        BY <1>3, <1>7, <1>10, <2>1, <3>1
  <2>2. CASE j = n + 1
    <3>1. i \in 1..n /\ i + RateMax <= n - count + 1
        BY <1>1, <1>2, <1>3, <1>10, <2>2
    <3>2. q[i] + RateWindow <= start
        BY <1>8, <3>1
    <3>3. a[j] = now /\ a[i] = q[i] /\ q[i] \in Nat
        BY <1>3, <2>2, <3>1
    <3> QED
        BY <1>1, <1>2, <1>5, <3>2, <3>3
  <2> QED
      BY <1>3, <2>1, <2>2
<1>11. ASSUME NEW i \in 1..(n + 1), i + RateMax <= Len(a) - (count + 1) + 1
       PROVE  a[i] + RateWindow <= start
  <2>1. i \in 1..n /\ i + RateMax <= n - count + 1
      BY <1>1, <1>2, <1>3, <1>11
  <2> QED
      BY <1>3, <1>8, <2>1
<1>12. ASSUME NEW i \in 1..(n + 1)
       PROVE  a[i] <= now
  <2>1. CASE i \in 1..n
      BY <1>3, <1>4, <2>1
  <2>2. CASE i = n + 1
      BY <1>2, <1>3, <2>2
  <2> QED
      BY <1>3, <2>1, <2>2
<1>13. /\ count + 1 \in 0..RateMax /\ count + 1 <= Len(a) /\ count + 1 > 0
       /\ a[Len(a) - (count + 1) + 1] = start
  <2>1. Len(a) - (count + 1) + 1 = n - count + 1 /\ n - count + 1 \in 1..n
      BY <1>2, <1>3, <1>5
  <2> QED
      BY <1>1, <1>2, <1>3, <1>5, <2>1
<1>14. Paced(a, start, count + 1, now)
    BY <1>2, <1>3, <1>9, <1>10, <1>11, <1>12, <1>13 DEF Paced
<1> QED
    BY <1>14 DEF a

\* RateLimiter::check keeps every key's pace.
LEMMA CheckRateLimited ==
  ASSUME Limited, NEW w, CheckRate(w), clock' = clock
  PROVE  Limited'
<1>1. /\ RateAllows(w)
      /\ window' = [window EXCEPT ![w] = Counted(window[w])]
      /\ accepted' = [accepted EXCEPT ![w] = Append(accepted[w], clock)]
    BY DEF CheckRate
<1>2. \A v \in Key : v # w => window'[v] = window[v] /\ accepted'[v] = accepted[v]
    BY <1>1 DEF Limited
<1>3. \A v \in Key : v = w => window'[v] = Counted(window[v]) /\ accepted'[v] = Append(accepted[v], clock)
    BY <1>1 DEF Limited
<1>4. ASSUME NEW v \in Key
      PROVE  /\ Paced(accepted'[v], window'[v].start, window'[v].count, clock)
             /\ window'[v] = [start |-> window'[v].start, count |-> window'[v].count]
  <2> DEFINE s == window[v].start
             c == window[v].count
             q == accepted[v]
  <2>1. Paced(q, s, c, clock) /\ window[v] = [start |-> s, count |-> c]
      BY DEF Limited
  <2>2. CASE v # w
      BY <1>2, <2>1, <2>2
  <2>3. CASE v = w /\ clock - s >= RateWindow
    <3>1. window'[v] = [start |-> clock, count |-> 1] /\ accepted'[v] = Append(q, clock)
        BY <1>3, <2>3 DEF Counted
    <3>2. Paced(Append(q, clock), clock, 1, clock)
      <4> HIDE DEF s, c, q
      <4> QED
          BY <2>1, <2>3, OpenWindow
    <3> QED
        BY <3>1, <3>2
  <2>4. CASE v = w /\ ~(clock - s >= RateWindow)
    <3>1. window'[v] = [start |-> s, count |-> c + 1] /\ accepted'[v] = Append(q, clock)
        BY <1>3, <2>1, <2>4 DEF Counted
    <3>2. c < RateMax
        BY <1>1, <2>4 DEF RateAllows
    <3>3. /\ q \in Seq(Nat) /\ Len(q) \in Nat /\ clock \in Nat /\ s \in Int
          /\ RateWindow \in Nat
        BY <2>1, RateConstants DEF Paced
    <3>4. clock - s < RateWindow
        BY <2>4, <3>3
    <3>5. Paced(Append(q, clock), s, c + 1, clock)
      <4> HIDE DEF s, c, q
      <4> QED
          BY <2>1, <3>2, <3>4, FillWindow
    <3> QED
        BY <3>1, <3>5
  <2> QED
      BY <2>2, <2>3, <2>4
<1> QED
    BY <1>1, <1>4 DEF Limited

\* The limiter has let nothing through at first.
LEMMA LimitedInit == Init => Limited
<1> SUFFICES ASSUME Init PROVE Limited
    OBVIOUS
<1>1. \A w \in Key : window[w] = [start |-> -RateWindow, count |-> 0] /\ accepted[w] = <<>>
    BY DEF Init, NoWindows
<1>2. Paced(<<>>, -RateWindow, 0, 0)
    BY RateConstants DEF Paced
<1>3. ASSUME NEW w \in Key
      PROVE  /\ Paced(accepted[w], window[w].start, window[w].count, clock)
             /\ window[w] = [start |-> window[w].start, count |-> window[w].count]
  <2>1. window[w].start = -RateWindow /\ window[w].count = 0 /\ accepted[w] = <<>> /\ clock = 0
      BY <1>1 DEF Init
  <2> QED
      BY <1>1, <1>2, <2>1
<1>4. window = [w \in Key |-> window[w]] /\ accepted = [w \in Key |-> accepted[w]]
    BY DEF Init, NoWindows
<1> QED
    BY <1>3, <1>4 DEF Limited

\* Every step keeps every key's pace.
LEMMA LimitedStep == Inv /\ Limited /\ [Next]_vars => Limited'
<1> SUFFICES ASSUME Inv, Limited, [Next]_vars
             PROVE  Limited'
    OBVIOUS
<1>1. CASE UNCHANGED <<window, accepted>> /\ clock' \in Nat /\ clock <= clock'
  <2>1. \A w \in Key : Paced(accepted[w], window[w].start, window[w].count, clock')
      BY <1>1, PacedLater DEF Limited
  <2> QED
      BY <1>1, <2>1 DEF Limited
<1>2. clock \in Nat
    BY Constants DEF Inv, Types, Time
<1>3. CASE UNCHANGED <<window, accepted, clock>>
    BY <1>1, <1>2, <1>3
<1>4. CASE Tick
    BY <1>1, <1>2, <1>4 DEF Tick, memory, ghosts
<1>5. ASSUME NEW h \in Handler, NEW w \in Key, Post(h, w)
      PROVE  Limited'
    BY <1>5, CheckRateLimited DEF Post
<1>6. ASSUME NEW h \in Handler, Rate(h)
      PROVE  Limited'
    BY <1>3, <1>6, CheckRateLimited DEF Rate
<1>7. CASE Restart
  <2>1. /\ \A w \in Key : window'[w] = [start |-> -RateWindow, count |-> 0] /\ accepted'[w] = <<>>
        /\ window' = [w \in Key |-> window'[w]] /\ accepted' = [w \in Key |-> accepted'[w]]
        /\ clock' = clock
      BY <1>7 DEF Restart, NoWindows
  <2>2. Paced(<<>>, -RateWindow, 0, clock)
      BY <1>2, RateConstants DEF Paced
  <2>3. ASSUME NEW w \in Key
        PROVE  /\ Paced(accepted'[w], window'[w].start, window'[w].count, clock')
               /\ window'[w] = [start |-> window'[w].start, count |-> window'[w].count]
    <3>1. window'[w].start = -RateWindow /\ window'[w].count = 0 /\ accepted'[w] = <<>>
        BY <2>1
    <3> QED
        BY <2>1, <2>2, <3>1
  <2> QED
      BY <2>1, <2>3 DEF Limited
<1> QED
    BY <1>3, <1>4, <1>5, <1>6, <1>7 DEF Next, vars, memory, ghosts, Verify, Consume, ReadDay, Quota

----------------------------------------------------------------------------
(* Theorems *)

\* The invariant holds in every reachable state.
THEOREM IntakeInOrder == Spec => []Inv
    BY InvInit, InvStep, PTL DEF Spec

\* A nonce, the string a replay guard knows a proof by, gets past its guard once
\* in a life of the process, and once more at most for every time it was brought
\* to the guard after its expiry (ReplayGuard::consume behind
\* require_admin_action and api_agent_reply).
THEOREM ProofsAreSingleUse == Spec => []SingleUse
<1>1. Inv => SingleUse
    BY DEF Inv, Guarded, SingleUse
<1> QED
    BY <1>1, IntakeInOrder, PTL

\* The live calls counted on one day exceed the allowance only by one allowance
\* for each handler that set the counter back to an earlier day and for each
\* restart (llm_quota_ok).
THEOREM DailyCapHolds == Spec => []DailyCap
<1>1. Inv => DailyCap
  <2> SUFFICES ASSUME Inv, NEW d \in Days
               PROVE  calls[d] <= DailyMax * (1 + lateDays + restarts)
      BY DEF DailyCap, Inv, Types
  <2>1. /\ DailyMax \in Nat /\ Resets \in Nat /\ calls[d] \in Nat /\ d \in Int
        /\ llmDay.day \in Int /\ llmDay.count \in Nat /\ llmDay.count <= DailyMax
      BY Constants, DaysAreInts DEF Inv, Types, Resets
  <2>2. DailyMax * (1 + Resets) = DailyMax * Resets + DailyMax /\ DailyMax * Resets \in Nat
      BY <2>1
  <2>3. /\ d > llmDay.day => calls[d] <= DailyMax * Resets
        /\ d = llmDay.day => calls[d] <= DailyMax * Resets + llmDay.count
        /\ d < llmDay.day => calls[d] <= DailyMax * Resets + DailyMax
      BY DEF Inv, Metered
  <2> DEFINE P == DailyMax * Resets
  <2>4. calls[d] <= P + DailyMax
    <3> HIDE DEF P
    <3>1. P \in Nat
        BY <2>2 DEF P
    <3>2. /\ d > llmDay.day => calls[d] <= P
          /\ d = llmDay.day => calls[d] <= P + llmDay.count
          /\ d < llmDay.day => calls[d] <= P + DailyMax
        BY <2>3 DEF P
    <3> QED
        BY <2>1, <3>1, <3>2
  <2>5. 1 + lateDays + restarts = 1 + Resets
      BY DEF Inv, Types, Resets
  <2> QED
      BY <2>2, <2>4, <2>5
<1> QED
    BY <1>1, IntakeInOrder, PTL

\* Any 2 * RateMax requests that RateLimiter::check lets through one after the
\* other for one key, in one life of the process, span at least a window, for
\* any quota, window, keys and number of handlers.
THEOREM NeverTwiceTheQuota == Spec => []SlidingWindowBound
<1>1. Limited => SlidingWindowBound
    BY DEF Limited, Paced, SlidingWindowBound
<1> QED
    BY <1>1, LimitedInit, LimitedStep, IntakeInOrder, PTL DEF Spec
=============================================================================
