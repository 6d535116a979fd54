--------------------------- MODULE PresenceProofs ---------------------------
(***************************************************************************)
(* What the panel of the host is worth, for every number of devices and all *)
(* intervals, ages and lags that the assumption of Presence allows.        *)
(***************************************************************************)
EXTENDS Presence, FiniteSetTheorems, TLAPS

LEMMA Parameters ==
  /\ Beat \in Nat /\ Interval \in Nat /\ Away \in Nat /\ Offline \in Nat /\ Expiry \in Nat
  /\ Beat > 0 /\ Interval > 0 /\ Away > 0 /\ Offline > 0 /\ Expiry > 0
  /\ MaxLag \in Nat /\ MaxFaults \in Nat
  /\ MaxLag < Beat /\ Beat + MaxLag < Away /\ Away <= Offline /\ Offline + MaxLag < Expiry
<1>1. {Beat, Interval, Away, Offline, Expiry} \subseteq Nat \ {0}
  BY PresenceAssumption
<1>2. /\ Beat \in Nat \ {0} /\ Interval \in Nat \ {0} /\ Away \in Nat \ {0}
      /\ Offline \in Nat \ {0} /\ Expiry \in Nat \ {0}
  BY <1>1
<1> QED
  BY <1>2, PresenceAssumption

LEMMA Times ==
  ASSUME NEW a \in Nat, NEW b \in Nat
  PROVE  a * b \in Nat
  OBVIOUS

LEMMA Larger ==
  ASSUME NEW a \in Nat, NEW x \in Nat, NEW y \in Nat
  PROVE  /\ 0 <= a + y
         /\ x <= a => x <= a + y
         /\ \A z \in Nat : x <= a + z /\ z <= y => x <= a + y
  OBVIOUS

\* The ages of the sweeps, in intervals before the latest one.
Elapsed(j) == j * Interval

LEMMA Intervals ==
  /\ Elapsed(0) = 0
  /\ \A j \in Nat : /\ Elapsed(j) \in Nat /\ j <= Elapsed(j)
                    /\ Elapsed(j + 1) = Elapsed(j) + Interval
  /\ \A j, k \in Nat : Elapsed(j + k) = Elapsed(j) + Elapsed(k)
  /\ \A j, k \in Nat : j <= k => Elapsed(j) <= Elapsed(k)
  /\ \A j, k \in Nat : Elapsed(j) = Elapsed(k) => j = k
<1>p. Interval \in Nat /\ Interval > 0
  BY Parameters
<1>1. ASSUME NEW j \in Nat
      PROVE  /\ j * Interval \in Nat /\ j <= j * Interval
             /\ (j + 1) * Interval = j * Interval + Interval
  <2>1. j * (Interval - 1) >= 0 /\ j * Interval = j * (Interval - 1) + j
    BY <1>p
  <2> QED
    BY <1>p, <2>1
<1>2. ASSUME NEW j \in Nat, NEW k \in Nat, j < k
      PROVE  j * Interval + Interval <= k * Interval
  <2>1. (k - j - 1) * Interval >= 0
    BY <1>p, <1>2
  <2>2. k * Interval = j * Interval + Interval + (k - j - 1) * Interval
    BY <1>p
  <2> QED
    BY <1>p, <1>1, <2>1, <2>2
<1>3. ASSUME NEW j \in Nat, NEW k \in Nat, j <= k PROVE j * Interval <= k * Interval
  BY <1>p, <1>1, <1>2, <1>3
<1>4. ASSUME NEW j \in Nat, NEW k \in Nat, j * Interval = k * Interval PROVE j = k
  <2>1. CASE j < k
    BY <1>p, <1>1, <1>2, <1>4, <2>1
  <2>2. CASE k < j
    BY <1>p, <1>1, <1>2, <1>4, <2>2
  <2> QED
    BY <2>1, <2>2
<1>5. 0 * Interval = 0
  BY <1>p
<1>6. \A j, k \in Nat : (j + k) * Interval = j * Interval + k * Interval
  BY <1>p
<1> QED
  BY <1>1, <1>3, <1>4, <1>5, <1>6 DEF Elapsed

----------------------------------------------------------------------------
(* Types.                                                                  *)

LEMMA HorizonType == Horizon \in Nat /\ Freshness = Interval * (1 + faults) + 2 * MaxLag
<1>1. Interval * (1 + MaxFaults) \in Nat
  BY Parameters, Times
<1> QED
  BY <1>1, Parameters DEF Horizon, Freshness

LEMMA InitType == Init => TypeOK
  BY Parameters, HorizonType DEF Init, TypeOK, recordVars

LEMMA PageTypes ==
  ASSUME TypeOK, NEW d \in Device, Open(d) \/ Close(d) \/ SendBeat(d) \/ Expire(d)
  PROVE  TypeOK'
  BY Parameters, HorizonType DEF TypeOK, Open, Close, SendBeat, Expire, pageVars, recordVars, panelVars

LEMMA BeatTypes ==
  ASSUME TypeOK, NEW d \in Device, NEW lag \in 0..MaxLag, NEW late \in 0..MaxLag,
         PutPresence(d, lag, late) \/ LoseBeat(d, lag)
  PROVE  TypeOK'
<1>1. 0..MaxLag \subseteq 0..Expiry
  BY Parameters
<1> QED
  BY <1>1, Parameters, HorizonType
     DEF TypeOK, PutPresence, LoseBeat, pageVars, recordVars, panelVars

LEMMA TaskTypes ==
  ASSUME TypeOK, NEW task \in making, NEW late \in 0..MaxLag,
         Summarize(task, late) \/ FailSummary(task)
  PROVE  TypeOK'
<1>1. 0..MaxLag \subseteq 0..Horizon
  <2>1. Interval * (1 + MaxFaults) \in Nat
    BY Parameters, Times
  <2> QED
    BY <2>1, Parameters DEF Horizon
<1>2. \A a : StatusFromAge(a) \in Status
  BY DEF StatusFromAge, Status
<1>3. CASE Summarize(task, late)
  <2>1. panel' \in [Device -> Status \cup {"unseen"}]
    BY <1>2, <1>3 DEF Summarize
  <2> QED
    BY <1>1, <1>3, <2>1 DEF TypeOK, Summarize, pageVars, recordVars
<1>4. CASE FailSummary(task)
  BY <1>4, Parameters DEF TypeOK, FailSummary, pageVars, recordVars, panelVars
<1> QED
  BY <1>3, <1>4

LEMMA TimerTypes ==
  ASSUME TypeOK, HostBeat \/ StartSweep
  PROVE  TypeOK'
  BY Parameters DEF TypeOK, HostBeat, StartSweep, Maker, pageVars, recordVars, panelVars

LEMMA TickTypes ==
  ASSUME TypeOK, Tick
  PROVE  TypeOK'
<1>1. \A t \in 0..Horizon : Older(t, Horizon) \in 0..Horizon
  BY HorizonType DEF Older
<1>2. \A t \in 0..Expiry : Older(t, Expiry) \in 0..Expiry
  BY Parameters DEF Older
<1>3. steady' \in [Device -> 0..Horizon] /\ stale' \in 0..Horizon
  BY <1>1 DEF Tick, TypeOK
<1>4. age' \in [Device -> 0..Expiry]
  BY <1>2, Parameters DEF Tick, TypeOK
<1>5. sinceBeat' \in [Device -> 0..Beat]
  BY Parameters DEF Tick, TypeOK, Beating
<1>6. beats' \in [Device -> SUBSET (0..MaxLag)]
  <2>1. \A d \in Device : {lag + 1 : lag \in beats[d]} \subseteq 0..MaxLag
    BY Parameters DEF Tick, TypeOK
  <2> QED
    BY <2>1 DEF Tick
<1>7. making' \subseteq Maker \X (0..MaxLag)
  <2>1. \A task \in making : task[1] \in Maker /\ task[2] + 1 \in 0..MaxLag
    BY Parameters DEF Tick, TypeOK
  <2> QED
    BY <2>1 DEF Tick
<1>8. sinceSweep' \in 0..Interval
  BY Parameters DEF Tick, TypeOK, SweepInterval
<1> QED
  BY <1>3, <1>4, <1>5, <1>6, <1>7, <1>8 DEF Tick, TypeOK

LEMMA NextType ==
  ASSUME TypeOK, [Next]_vars
  PROVE  TypeOK'
<1>0. CASE UNCHANGED vars
  BY <1>0 DEF vars, pageVars, recordVars, panelVars, TypeOK
<1>1. ASSUME NEW d \in Device, Open(d) \/ Close(d) \/ SendBeat(d) \/ Expire(d) PROVE TypeOK'
  BY <1>1, PageTypes
<1>2. ASSUME NEW d \in Device, NEW lag \in 0..MaxLag,
             (\E late \in 0..MaxLag : PutPresence(d, lag, late)) \/ LoseBeat(d, lag)
      PROVE  TypeOK'
  <2>1. 0 \in 0..MaxLag
    BY Parameters
  <2> QED
    BY <1>2, <2>1, BeatTypes
<1>3. ASSUME NEW task \in making,
             (\E late \in 0..MaxLag : Summarize(task, late)) \/ FailSummary(task)
      PROVE  TypeOK'
  <2>1. 0 \in 0..MaxLag
    BY Parameters
  <2> QED
    BY <1>3, <2>1, TaskTypes
<1> QED
  BY <1>0, <1>1, <1>2, <1>3, TimerTypes, TickTypes DEF Next

\* The type invariant.
THEOREM TypeCorrect == Spec => []TypeOK
  BY InitType, NextType, PTL DEF Spec

----------------------------------------------------------------------------
(* How old the panel can be.  A sweep that is under way, and one that failed, *)
(* have each cost an interval; a summary that arrives makes up for all.        *)

\* The sweeps under way, counted back from the latest.
Pending == {j \in 0..MaxLag : <<"sweeper", sinceSweep + Elapsed(j)>> \in making}

\* For how long no summary has come through, at most, since one could have.
Slack == sinceSweep + Elapsed(faults + Cardinality(Pending))

SweepInv == stale <= MaxLag + Slack

LEMMA FewLags ==
  ASSUME NEW P \in SUBSET (0..MaxLag)
  PROVE  /\ IsFiniteSet(P) /\ Cardinality(P) \in Nat
         /\ \A S \in SUBSET P : Cardinality(S) \in Nat /\ Cardinality(S) <= Cardinality(P)
<1>1. IsFiniteSet(0..MaxLag)
  BY Parameters, FS_Interval
<1>2. IsFiniteSet(P)
  BY <1>1, FS_Subset
<1> QED
  BY <1>2, FS_Subset, FS_CardinalityType

LEMMA PendingFinite ==
  IsFiniteSet(Pending) /\ Cardinality(Pending) \in Nat
  BY FewLags DEF Pending

LEMMA SlackType == TypeOK => Slack \in Nat
<1> SUFFICES ASSUME TypeOK PROVE Slack \in Nat
  OBVIOUS
<1>1. faults + Cardinality(Pending) \in Nat /\ sinceSweep \in Nat
  BY PendingFinite DEF TypeOK
<1>2. Elapsed(faults + Cardinality(Pending)) \in Nat
  BY <1>1, Intervals
<1> QED
  BY <1>1, <1>2 DEF Slack

LEMMA SlackNext == TypeOK' => Slack' \in Nat
<1> SUFFICES ASSUME TypeOK' PROVE Slack' \in Nat
  OBVIOUS
<1> DEFINE d == Cardinality(Pending')
<1>1. Pending' \in SUBSET (0..MaxLag)
  BY DEF Pending
<1>2. faults' + d \in Nat /\ sinceSweep' \in Nat
  BY <1>1, FewLags DEF TypeOK
<1>3. Slack' = sinceSweep' + Elapsed(faults' + d)
  BY DEF Slack
<1> HIDE DEF d
<1>4. Elapsed(faults' + d) \in Nat
  BY <1>2, Intervals
<1> QED
  BY <1>2, <1>3, <1>4

LEMMA SlackBound ==
  ASSUME TypeOK
  PROVE  Slack <= Elapsed(1 + faults) + MaxLag
<1> DEFINE c == Cardinality(Pending)
<1>1. c \in Nat /\ faults \in Nat /\ sinceSweep \in Nat /\ sinceSweep <= Interval
  BY PendingFinite, Parameters DEF TypeOK
<1>2. /\ Elapsed(1 + faults) = Elapsed(faults) + Interval /\ Elapsed(faults) \in Nat
      /\ Elapsed(1 + faults) \in Nat
  <2>1. 1 + faults = faults + 1 /\ 1 + faults \in Nat
    BY <1>1
  <2>2. Elapsed(faults + 1) = Elapsed(faults) + Interval
    BY <1>1, Intervals
  <2>3. Elapsed(1 + faults) \in Nat /\ Elapsed(faults) \in Nat
    BY <1>1, <2>1, Intervals
  <2> QED
    BY <2>1, <2>2, <2>3
<1>3. Slack = sinceSweep + Elapsed(faults + c)
  BY DEF Slack
<1> HIDE DEF c
<1>4. CASE c = 0
  BY <1>1, <1>2, <1>3, <1>4, Parameters
<1>5. CASE c # 0
  <2>1. \E j \in Pending : j >= c - 1
    <3> SUFFICES ASSUME \A j \in Pending : j < c - 1 PROVE FALSE
      BY <1>1 DEF Pending
    <3>1. Pending # {}
      BY <1>5, FS_EmptySet DEF c
    <3>2. c - 2 \in Nat
      <4>1. PICK j \in Pending : j < c - 1
        BY <3>1
      <4>2. j \in Nat
        BY DEF Pending
      <4> QED
        BY <1>1, <4>1, <4>2
    <3>3. Pending \in SUBSET Nat /\ \A j \in Pending : j <= c - 2
      BY <1>1 DEF Pending
    <3>4. c <= (c - 2) + 1
      BY <3>2, <3>3, FS_BoundedSetOfNaturals DEF c
    <3> QED
      BY <1>1, <3>4
  <2>2. PICK j \in Pending : j >= c - 1
    BY <2>1
  <2>3. j \in Nat /\ sinceSweep + Elapsed(j) <= MaxLag
    BY Parameters DEF Pending, TypeOK
  <2>a. c - 1 \in Nat /\ c - 1 <= j
    BY <1>1, <1>5, <2>2, <2>3
  <2>4. c - 1 \in Nat /\ Elapsed(c - 1) <= Elapsed(j) /\ Elapsed(c - 1) \in Nat /\ Elapsed(j) \in Nat
    BY <2>a, <2>3, Intervals
  <2>5. faults + c = (1 + faults) + (c - 1)
    BY <1>1, <1>5
  <2>6. Elapsed(faults + c) = Elapsed(1 + faults) + Elapsed(c - 1)
    BY <1>1, <2>4, <2>5, Intervals
  <2> QED
    BY <1>1, <1>2, <1>3, <2>3, <2>4, <2>6, Parameters
<1> QED
  BY <1>4, <1>5

LEMMA SameSlack ==
  ASSUME UNCHANGED <<sinceSweep, making, faults>>
  PROVE  Slack' = Slack
  BY DEF Slack, Pending

LEMMA TickSlack ==
  ASSUME TypeOK, TypeOK', Tick
  PROVE  Slack' = Slack + 1
<1>1. /\ sinceSweep' = sinceSweep + 1 /\ faults' = faults
      /\ making' = {<<task[1], task[2] + 1>> : task \in making}
  BY DEF Tick
<1>2. \A j \in 0..MaxLag : <<"sweeper", sinceSweep' + Elapsed(j)>> \in making'
                           <=> <<"sweeper", sinceSweep + Elapsed(j)>> \in making
  <2> SUFFICES ASSUME NEW j \in 0..MaxLag
               PROVE  <<"sweeper", sinceSweep' + Elapsed(j)>> \in making'
                      <=> <<"sweeper", sinceSweep + Elapsed(j)>> \in making
    OBVIOUS
  <2> DEFINE t == sinceSweep + Elapsed(j)
  <2>0. sinceSweep \in Nat /\ Elapsed(j) \in Nat
    BY Intervals DEF TypeOK
  <2>1. t \in Nat /\ sinceSweep' + Elapsed(j) = t + 1
    BY <1>1, <2>0
  <2> HIDE DEF t
  <2>2. <<"sweeper", t>> \in making => <<"sweeper", t + 1>> \in making'
    BY <1>1
  <2>3. ASSUME <<"sweeper", t + 1>> \in making' PROVE <<"sweeper", t>> \in making
    <3>1. PICK task \in making : <<"sweeper", t + 1>> = <<task[1], task[2] + 1>>
      BY <1>1, <2>3
    <3>2. task \in Maker \X (0..MaxLag)
      BY DEF TypeOK
    <3>3. task[1] = "sweeper" /\ task[2] \in Nat /\ task[2] + 1 = t + 1 /\ task = <<task[1], task[2]>>
      BY <3>1, <3>2
    <3>4. task[2] = t
      BY <2>1, <3>3
    <3> QED
      BY <3>3, <3>4
  <2> QED
    BY <2>1, <2>2, <2>3 DEF t
<1>3. Pending' = Pending
  BY <1>2 DEF Pending
<1>4. Elapsed(faults + Cardinality(Pending)) \in Nat /\ sinceSweep \in Nat
  <2>1. faults + Cardinality(Pending) \in Nat /\ sinceSweep \in Nat
    BY PendingFinite DEF TypeOK
  <2> QED
    BY <2>1, Intervals
<1> QED
  BY <1>1, <1>3, <1>4 DEF Slack

LEMMA StartSlack ==
  ASSUME TypeOK, TypeOK', StartSweep
  PROVE  Slack' >= Slack
<1> DEFINE T == {j + 1 : j \in Pending}
           f == [j \in Pending |-> j + 1]
           c == Cardinality(Pending)
<1>1. /\ sinceSweep = Interval /\ sinceSweep' = 0 /\ making' = making \cup {<<"sweeper", 0>>}
      /\ faults' = faults /\ faults \in Nat
  BY DEF StartSweep, SweepInterval, TypeOK
<1>2. Pending \subseteq Nat /\ IsFiniteSet(Pending) /\ c \in Nat
  BY PendingFinite DEF Pending
<1>3. f \in Bijection(Pending, T)
  <2>1. f \in [Pending -> T]
    OBVIOUS
  <2>2. \A j, k \in Pending : f[j] = f[k] => j = k
    BY <1>2
  <2>3. \A t \in T : \E j \in Pending : f[j] = t
    OBVIOUS
  <2> QED
    BY <2>1, <2>2, <2>3 DEF Bijection, Injection, Surjection, IsInjective
<1>4. IsFiniteSet(T) /\ Cardinality(T) = c
  BY <1>2, <1>3, FS_Bijection DEF ExistsBijection
<1>5. 0 \notin T
  BY <1>2
<1>6. Cardinality(T \cup {0}) = c + 1
  BY <1>4, <1>5, FS_AddElement
<1>7. T \cup {0} \subseteq Pending'
  <2>1. ASSUME NEW j \in Pending PROVE j + 1 \in Pending'
    <3>1. /\ j \in Nat /\ <<"sweeper", Interval + Elapsed(j)>> \in making'
      BY <1>1, <1>2 DEF Pending
    <3>2. Elapsed(j + 1) = 0 + Elapsed(j) + Interval /\ j + 1 <= Elapsed(j + 1) /\ Elapsed(j) \in Nat
      BY <3>1, Intervals
    <3>3. Interval + Elapsed(j) = 0 + Elapsed(j + 1)
      BY <3>2, Parameters
    <3>4. <<"sweeper", 0 + Elapsed(j + 1)>> \in making'
      BY <3>1, <3>3
    <3>5. 0 + Elapsed(j + 1) \in 0..MaxLag
      BY <3>4 DEF TypeOK
    <3>6. j + 1 \in 0..MaxLag
      BY <3>1, <3>2, <3>5, Parameters
    <3> QED
      BY <1>1, <3>4, <3>6 DEF Pending
  <2>2. 0 \in Pending'
    BY <1>1, Intervals, Parameters DEF Pending
  <2> QED
    BY <2>1, <2>2
<1> DEFINE d == Cardinality(Pending')
<1>p. Pending' \in SUBSET (0..MaxLag)
  BY DEF Pending
<1>10. Slack = Interval + Elapsed(faults + c) /\ Slack' = 0 + Elapsed(faults + d)
  BY <1>1 DEF Slack
<1>8. d >= c + 1 /\ d \in Nat
  BY <1>6, <1>7, <1>p, FewLags
<1> HIDE DEF T, f, c, d
<1>a. faults + d \in Nat /\ faults + c \in Nat /\ faults + d >= (faults + c) + 1
  BY <1>1, <1>2, <1>8
<1>9. /\ Elapsed((faults + c) + 1) = Elapsed(faults + c) + Interval
      /\ Elapsed(faults + d) >= Elapsed((faults + c) + 1)
      /\ Elapsed(faults + c) \in Nat /\ Elapsed(faults + d) \in Nat
  <2>1. (faults + c) + 1 \in Nat
    BY <1>a
  <2> QED
    BY <1>a, <2>1, Intervals
<1> QED
  BY <1>9, <1>10, Parameters

LEMMA FailSlack ==
  ASSUME TypeOK, TypeOK', NEW task \in making, FailSummary(task)
  PROVE  Slack' >= Slack
<1> DEFINE c == Cardinality(Pending)
<1>1. /\ sinceSweep' = sinceSweep /\ sinceSweep \in Nat /\ making' = making \ {task}
      /\ faults' = faults + 1 /\ faults \in Nat
  BY DEF FailSummary, TypeOK
<1>2. c \in Nat /\ IsFiniteSet(Pending)
  BY PendingFinite
<1>3. \E j : Pending \ {j} \subseteq Pending'
  <2>1. CASE \E j \in Pending : task = <<"sweeper", sinceSweep + Elapsed(j)>>
    <3>1. PICK j \in Pending : task = <<"sweeper", sinceSweep + Elapsed(j)>>
      BY <2>1
    <3>2. ASSUME NEW k \in Pending, k # j PROVE <<"sweeper", sinceSweep + Elapsed(k)>> # task
      <4>1. j \in Nat /\ k \in Nat
        BY DEF Pending
      <4>2. Elapsed(j) \in Nat /\ Elapsed(k) \in Nat /\ Elapsed(k) # Elapsed(j)
        BY <3>2, <4>1, Intervals
      <4>3. sinceSweep + Elapsed(k) # sinceSweep + Elapsed(j)
        BY <1>1, <4>2
      <4> QED
        BY <3>1, <4>3
    <3>3. Pending \ {j} \subseteq Pending'
      BY <1>1, <3>2 DEF Pending
    <3> QED
      BY <3>3
  <2>2. CASE ~ \E j \in Pending : task = <<"sweeper", sinceSweep + Elapsed(j)>>
    BY <1>1, <2>2 DEF Pending
  <2> QED
    BY <2>1, <2>2
<1>4. PICK j : Pending \ {j} \subseteq Pending'
  BY <1>3
<1>5. Cardinality(Pending \ {j}) = IF j \in Pending THEN c - 1 ELSE c
  BY <1>2, FS_RemoveElement
<1> DEFINE d == Cardinality(Pending')
<1>p. Pending' \in SUBSET (0..MaxLag)
  BY DEF Pending
<1>6. d >= Cardinality(Pending \ {j}) /\ d \in Nat
  BY <1>4, <1>p, FewLags
<1>9. Slack = sinceSweep + Elapsed(faults + c) /\ Slack' = sinceSweep + Elapsed(faults' + d)
  BY <1>1 DEF Slack
<1> HIDE DEF c, d
<1>7. faults' + d >= faults + c /\ faults' + d \in Nat /\ faults + c \in Nat
  BY <1>1, <1>2, <1>5, <1>6
<1>8. /\ Elapsed(faults' + d) >= Elapsed(faults + c)
      /\ Elapsed(faults' + d) \in Nat /\ Elapsed(faults + c) \in Nat
  BY <1>7, Intervals
<1> QED
  BY <1>1, <1>8, <1>9

LEMMA HostSlack ==
  ASSUME TypeOK, HostBeat
  PROVE  Slack' = Slack
<1>1. /\ making' = making \cup {<<"host", 0>>} /\ sinceSweep' = sinceSweep /\ faults' = faults
  BY DEF HostBeat
<1>2. Pending' = Pending
  BY <1>1 DEF Pending
<1> QED
  BY <1>1, <1>2 DEF Slack

\* Every step but a summary leaves the slack there was, and a unit of time adds
\* one to it.
LEMMA SlackStep ==
  ASSUME TypeOK, TypeOK', [Next]_vars
  PROVE  \/ \E task \in making, late \in 0..MaxLag : Summarize(task, late)
         \/ Slack' >= Slack /\ (Tick => Slack' = Slack + 1)
<1>t. Slack \in Nat
  BY SlackType
<1>1. ASSUME NEW d \in Device,
             Open(d) \/ Close(d) \/ SendBeat(d) \/ Expire(d)
      PROVE  ~Tick /\ Slack' = Slack
  BY <1>1, SameSlack DEF Open, Close, SendBeat, Expire, Tick, TypeOK
<1>2. ASSUME NEW d \in Device, NEW lag \in 0..MaxLag,
             (\E late \in 0..MaxLag : PutPresence(d, lag, late)) \/ LoseBeat(d, lag)
      PROVE  ~Tick /\ Slack' = Slack
  BY <1>2, SameSlack DEF PutPresence, LoseBeat, Tick, TypeOK
<1>3. CASE UNCHANGED vars
  <2>1. ~Tick
    BY <1>3 DEF vars, Tick, TypeOK
  <2> QED
    BY <1>3, <1>t, <2>1, SameSlack DEF vars
<1>4. CASE HostBeat
  <2>1. ~Tick
    BY <1>4 DEF HostBeat, Tick, TypeOK
  <2> QED
    BY <1>t, <1>4, <2>1, HostSlack
<1>5. CASE StartSweep
  <2>1. ~Tick
    BY <1>5, Parameters DEF StartSweep, Tick, SweepInterval
  <2> QED
    BY <1>5, <2>1, StartSlack
<1>6. ASSUME NEW task \in making, FailSummary(task)
      PROVE  ~Tick /\ Slack' >= Slack
  <2>1. ~Tick
    BY <1>6 DEF FailSummary, Tick, TypeOK
  <2> QED
    BY <1>6, <2>1, FailSlack
<1>7. CASE Tick
  BY <1>t, <1>7, TickSlack
<1> QED
  BY <1>t, <1>1, <1>2, <1>3, <1>4, <1>5, <1>6, <1>7 DEF Next

LEMMA FreshnessSlack ==
  ASSUME TypeOK
  PROVE  /\ MaxLag + Slack <= Freshness /\ Freshness < Horizon /\ Freshness \in Nat
         /\ Beat + MaxLag + Slack <= Settled
<1>1. 1 + faults \in Nat /\ 1 + MaxFaults \in Nat /\ 1 + faults <= 1 + MaxFaults
  BY Parameters DEF TypeOK
<1>2. /\ Elapsed(1 + faults) <= Elapsed(1 + MaxFaults)
      /\ Elapsed(1 + faults) \in Nat /\ Elapsed(1 + MaxFaults) \in Nat
  BY <1>1, Intervals
<1>3. /\ Elapsed(1 + faults) = Interval * (1 + faults)
      /\ Elapsed(1 + MaxFaults) = Interval * (1 + MaxFaults)
  BY <1>1, Parameters DEF Elapsed
<1> HIDE DEF Elapsed
<1>4. /\ Freshness = Elapsed(1 + faults) + 2 * MaxLag
      /\ Horizon = MaxLag + Offline + Elapsed(1 + MaxFaults) + 2 * MaxLag + 1
      /\ Settled = Beat + Freshness
  BY <1>3 DEF Freshness, Horizon, Settled
<1>5. Slack \in Nat /\ Slack <= Elapsed(1 + faults) + MaxLag
  BY SlackType, SlackBound
<1> QED
  BY <1>2, <1>4, <1>5, Parameters

LEMMA SweepStep ==
  ASSUME TypeOK, TypeOK', SweepInv, [Next]_vars
  PROVE  SweepInv'
<1>0. Slack \in Nat /\ Slack' \in Nat /\ stale \in Nat /\ stale' \in Nat /\ MaxLag \in Nat
  <2>1. 0..Horizon \subseteq Nat
    BY HorizonType
  <2>2. TypeOK' => Slack' \in Nat
    BY SlackNext
  <2> QED
    BY <2>1, <2>2, SlackType, Parameters DEF TypeOK
<1>1. CASE \E task \in making, late \in 0..MaxLag : Summarize(task, late)
  <2>1. stale' <= MaxLag
    BY <1>0, <1>1 DEF Summarize
  <2>2. stale' <= MaxLag + Slack'
    BY <1>0, <2>1, Larger
  <2> QED
    BY <2>2 DEF SweepInv
<1>2. CASE Tick
  <2>1. stale' <= stale + 1
    BY <1>0, <1>2 DEF Tick, Older
  <2>2. Slack' = Slack + 1
    BY <1>2, TickSlack
  <2>3. stale <= MaxLag + Slack
    BY DEF SweepInv
  <2>4. stale' <= MaxLag + Slack'
    BY <1>0, <2>1, <2>2, <2>3
  <2> QED
    BY <2>4 DEF SweepInv
<1>3. CASE ~Tick /\ ~ \E task \in making, late \in 0..MaxLag : Summarize(task, late)
  <2>1. stale' = stale
    BY <1>3 DEF Next, vars, panelVars, Open, Close, SendBeat, Expire, PutPresence, LoseBeat, HostBeat,
       StartSweep, FailSummary
  <2>2. Slack' >= Slack
    BY <1>3, SlackStep
  <2>3. stale <= MaxLag + Slack
    BY DEF SweepInv
  <2>4. stale' <= MaxLag + Slack'
    BY <1>0, <2>1, <2>2, <2>3, Larger
  <2> QED
    BY <2>4 DEF SweepInv
<1> QED
  BY <1>1, <1>2, <1>3

----------------------------------------------------------------------------
(* What the record of a page that is on, and of one that is gone, is worth.  *)

\* The heartbeat sent last is under way, or its record is there, and meanwhile the
\* record of the one before.  A heartbeat from before the page was opened is older.
Beats(d) ==
  /\ \A lag \in beats[d] : \/ lag = sinceBeat[d]
                           \/ steady[d] <= sinceBeat[d] /\ lag >= sinceBeat[d]
  /\ steady[d] > sinceBeat[d] =>
       \/ sinceBeat[d] \in beats[d]
       \/ d \in recorded /\ age[d] <= sinceBeat[d]
  /\ steady[d] > sinceBeat[d] + Beat => d \in recorded /\ age[d] <= sinceBeat[d] + Beat

\* No heartbeat is younger than the end of the page, and no record by more than MaxLag.
Gone(d) ==
  /\ \A lag \in beats[d] : lag >= steady[d]
  /\ d \in recorded => age[d] = Expiry \/ age[d] + MaxLag >= steady[d]

RecordInv ==
  \A d \in Device : (d \in on => Beats(d)) /\ (d \notin on => Gone(d))

\* What the panel says of a page that is on for long, or gone for long, is right, as
\* far as it is not old.
ShownInv ==
  /\ \A d \in on : panel[d] # "online" => steady[d] <= Beat + MaxLag + Slack
  /\ \A d \in Device \ on : panel[d] \in {"offline", "unseen"} \/ steady[d] < MaxLag + Offline + stale

\* The types of what belongs to one device.
LEMMA DeviceTypes ==
  ASSUME TypeOK, NEW d \in Device
  PROVE  /\ steady[d] \in Nat /\ sinceBeat[d] \in Nat /\ sinceBeat[d] <= Beat
         /\ age[d] \in Nat /\ age[d] <= Expiry
         /\ \A lag \in beats[d] : lag \in Nat /\ lag <= MaxLag
  BY Parameters, HorizonType DEF TypeOK

LEMMA SameDevice ==
  ASSUME RecordInv, NEW d \in Device,
         d \in on' <=> d \in on, d \in recorded' <=> d \in recorded,
         steady'[d] = steady[d], sinceBeat'[d] = sinceBeat[d], beats'[d] = beats[d], age'[d] = age[d]
  PROVE  (d \in on' => Beats(d)') /\ (d \notin on' => Gone(d)')
  BY DEF RecordInv, Beats, Gone

LEMMA PageRecords ==
  ASSUME TypeOK, RecordInv, NEW d \in Device, Open(d) \/ Close(d) \/ SendBeat(d) \/ Expire(d)
  PROVE  RecordInv'
<1>1. ASSUME NEW e \in Device, e # d
      PROVE  (e \in on' => Beats(e)') /\ (e \notin on' => Gone(e)')
  BY <1>1, SameDevice DEF Open, Close, SendBeat, Expire, TypeOK, pageVars, recordVars
<1>2. (d \in on' => Beats(d)') /\ (d \notin on' => Gone(d)')
  <2>1. CASE Open(d)
    <3>1. d \in on' /\ steady'[d] = 0 /\ sinceBeat'[d] = 0 /\ beats' = beats
      BY <2>1 DEF Open, TypeOK
    <3> QED
      BY <3>1, DeviceTypes, Parameters DEF Beats
  <2>2. CASE Close(d)
    <3>1. d \notin on' /\ steady'[d] = 0 /\ UNCHANGED <<beats, recorded, age>>
      BY <2>2 DEF Close, TypeOK, recordVars
    <3> QED
      BY <3>1, DeviceTypes, Parameters DEF Gone
  <2>3. CASE SendBeat(d)
    <3>1. /\ d \in on /\ on' = on /\ sinceBeat[d] = Beat /\ sinceBeat'[d] = 0
          /\ beats'[d] = beats[d] \cup {0} /\ UNCHANGED <<steady, recorded, age>>
      BY <2>3 DEF SendBeat, TypeOK, recordVars
    <3>2. Beats(d)
      BY <3>1 DEF RecordInv
    <3>3. beats[d] = {}
      BY <3>1, <3>2, DeviceTypes, Parameters DEF Beats
    <3>4. steady[d] > Beat => d \in recorded /\ age[d] <= Beat
      BY <3>1, <3>2, <3>3 DEF Beats
    <3> QED
      BY <3>1, <3>3, <3>4, DeviceTypes, Parameters DEF Beats
  <2>4. CASE Expire(d)
    <3>1. /\ age[d] = Expiry /\ recorded' = recorded \ {d}
          /\ UNCHANGED <<on, steady, sinceBeat, beats, age>>
      BY <2>4 DEF Expire, pageVars
    <3>2. CASE d \in on
      <4>1. Beats(d)
        BY <3>2 DEF RecordInv
      <4>2. ~(age[d] <= sinceBeat[d])
        BY <3>1, DeviceTypes, Parameters
      <4>3. steady[d] <= sinceBeat[d] + Beat
        <5> SUFFICES ASSUME steady[d] > sinceBeat[d] + Beat PROVE FALSE
          BY DeviceTypes, Parameters
        <5>1. steady[d] > sinceBeat[d]
          BY DeviceTypes, Parameters
        <5>2. sinceBeat[d] \in beats[d] /\ age[d] <= sinceBeat[d] + Beat
          BY <4>1, <4>2, <5>1 DEF Beats
        <5> QED
          BY <3>1, <5>2, DeviceTypes, Parameters
      <4>4. steady[d] > sinceBeat[d] => sinceBeat[d] \in beats[d]
        BY <4>1, <4>2 DEF Beats
      <4> QED
        BY <3>1, <3>2, <4>1, <4>3, <4>4, DeviceTypes, Parameters DEF Beats
    <3>3. CASE d \notin on
      BY <3>1, <3>3 DEF RecordInv, Gone
    <3> QED
      BY <3>2, <3>3
  <2> QED
    BY <2>1, <2>2, <2>3, <2>4
<1> QED
  BY <1>1, <1>2 DEF RecordInv

LEMMA BeatRecords ==
  ASSUME TypeOK, RecordInv, NEW d \in Device, NEW lag \in 0..MaxLag, NEW late \in 0..MaxLag,
         PutPresence(d, lag, late) \/ LoseBeat(d, lag)
  PROVE  RecordInv'
<1>1. ASSUME NEW e \in Device, e # d
      PROVE  (e \in on' => Beats(e)') /\ (e \notin on' => Gone(e)')
  BY <1>1, SameDevice DEF PutPresence, LoseBeat, TypeOK, pageVars, recordVars
<1>2. (d \in on' => Beats(d)') /\ (d \notin on' => Gone(d)')
  <2>1. CASE PutPresence(d, lag, late)
    <3>1. /\ lag \in beats[d] /\ late <= lag /\ beats'[d] = beats[d] \ {lag}
          /\ d \in recorded' /\ age'[d] = late /\ UNCHANGED <<on, steady, sinceBeat>>
      BY <2>1 DEF PutPresence, TypeOK, pageVars
    <3>2. CASE d \in on
      <4>1. Beats(d)
        BY <3>2 DEF RecordInv
      <4>2. steady[d] > sinceBeat[d] => late <= sinceBeat[d]
        BY <3>1, <4>1, DeviceTypes DEF Beats
      <4> QED
        BY <3>1, <3>2, <4>1, <4>2, DeviceTypes, Parameters DEF Beats
    <3>3. CASE d \notin on
      BY <3>1, <3>3, DeviceTypes, Parameters DEF RecordInv, Gone
    <3> QED
      BY <3>2, <3>3
  <2>2. CASE LoseBeat(d, lag)
    <3>1. /\ beats'[d] = beats[d] \ {lag} /\ UNCHANGED <<on, sinceBeat, recorded, age>>
          /\ steady'[d] = IF d \in on THEN 0 ELSE steady[d]
      BY <2>2 DEF LoseBeat, TypeOK, recordVars
    <3>2. CASE d \in on
      BY <3>1, <3>2, DeviceTypes, Parameters DEF RecordInv, Beats
    <3>3. CASE d \notin on
      BY <3>1, <3>3 DEF RecordInv, Gone
    <3> QED
      BY <3>2, <3>3
  <2> QED
    BY <2>1, <2>2
<1> QED
  BY <1>1, <1>2 DEF RecordInv

LEMMA TickRecords ==
  ASSUME TypeOK, RecordInv, Tick
  PROVE  RecordInv'
<1> SUFFICES ASSUME NEW d \in Device
             PROVE  (d \in on' => Beats(d)') /\ (d \notin on' => Gone(d)')
  BY DEF RecordInv
<1>1. /\ on' = on /\ recorded' = recorded
      /\ beats'[d] = {lag + 1 : lag \in beats[d]}
      /\ steady'[d] = Older(steady[d], Horizon)
      /\ d \in on => sinceBeat'[d] = sinceBeat[d] + 1
      /\ d \in recorded => age'[d] = Older(age[d], Expiry)
  BY DEF Tick, Beating
<1>2. steady'[d] \in Nat /\ steady'[d] <= steady[d] + 1
  BY <1>1, DeviceTypes DEF Older
<1>3. d \in recorded => /\ age'[d] \in Nat /\ age'[d] <= age[d] + 1
                        /\ age'[d] = Expiry \/ age'[d] = age[d] + 1
                        /\ age[d] = Expiry => age'[d] = Expiry
  BY <1>1, DeviceTypes, Parameters DEF Older
<1>4. CASE d \in on
  <2>1. Beats(d) /\ sinceBeat'[d] = sinceBeat[d] + 1
    BY <1>1, <1>4 DEF RecordInv
  <2>2. \A lag \in beats'[d] : \/ lag = sinceBeat'[d]
                               \/ steady'[d] <= sinceBeat'[d] /\ lag >= sinceBeat'[d]
    BY <1>1, <1>2, <2>1, DeviceTypes DEF Beats
  <2>3. steady'[d] > sinceBeat'[d] =>
          \/ sinceBeat'[d] \in beats'[d]
          \/ d \in recorded' /\ age'[d] <= sinceBeat'[d]
    <3> SUFFICES ASSUME steady'[d] > sinceBeat'[d], sinceBeat'[d] \notin beats'[d]
                 PROVE  d \in recorded' /\ age'[d] <= sinceBeat'[d]
      OBVIOUS
    <3>1. steady[d] > sinceBeat[d]
      BY <1>2, <2>1, DeviceTypes
    <3>2. sinceBeat[d] \notin beats[d]
      BY <1>1, <2>1
    <3>3. d \in recorded /\ age[d] <= sinceBeat[d]
      BY <2>1, <3>1, <3>2 DEF Beats
    <3> QED
      BY <1>1, <1>3, <2>1, <3>3, DeviceTypes
  <2>4. steady'[d] > sinceBeat'[d] + Beat => d \in recorded' /\ age'[d] <= sinceBeat'[d] + Beat
    <3> SUFFICES ASSUME steady'[d] > sinceBeat'[d] + Beat
                 PROVE  d \in recorded' /\ age'[d] <= sinceBeat'[d] + Beat
      OBVIOUS
    <3>1. steady[d] > sinceBeat[d] + Beat
      BY <1>2, <2>1, DeviceTypes, Parameters
    <3>2. d \in recorded /\ age[d] <= sinceBeat[d] + Beat
      BY <2>1, <3>1 DEF Beats
    <3> QED
      BY <1>1, <1>3, <2>1, <3>2, DeviceTypes, Parameters
  <2> QED
    BY <1>1, <1>4, <2>2, <2>3, <2>4 DEF Beats
<1>5. CASE d \notin on
  <2>1. Gone(d)
    BY <1>5 DEF RecordInv
  <2>2. \A lag \in beats'[d] : lag >= steady'[d]
    BY <1>1, <1>2, <2>1, DeviceTypes DEF Gone
  <2>3. d \in recorded' => age'[d] = Expiry \/ age'[d] + MaxLag >= steady'[d]
    BY <1>1, <1>2, <1>3, <2>1, DeviceTypes, Parameters DEF Gone
  <2> QED
    BY <1>1, <1>5, <2>2, <2>3 DEF Gone
<1> QED
  BY <1>4, <1>5

LEMMA RecordStep ==
  ASSUME TypeOK, RecordInv, [Next]_vars
  PROVE  RecordInv'
<1>1. ASSUME NEW d \in Device, Open(d) \/ Close(d) \/ SendBeat(d) \/ Expire(d) PROVE RecordInv'
  BY <1>1, PageRecords
<1>2. ASSUME NEW d \in Device, NEW lag \in 0..MaxLag,
             (\E late \in 0..MaxLag : PutPresence(d, lag, late)) \/ LoseBeat(d, lag)
      PROVE  RecordInv'
  <2>1. 0 \in 0..MaxLag
    BY Parameters
  <2> QED
    BY <1>2, <2>1, BeatRecords
<1>3. ASSUME UNCHANGED <<on, steady, sinceBeat, beats, recorded, age>> PROVE RecordInv'
  <2>1. \A d \in Device : (d \in on' => Beats(d)') /\ (d \notin on' => Gone(d)')
    BY <1>3, SameDevice
  <2> QED
    BY <2>1 DEF RecordInv
<1>4. ASSUME NEW task \in making,
             (\E late \in 0..MaxLag : Summarize(task, late)) \/ FailSummary(task)
      PROVE  RecordInv'
  BY <1>3, <1>4 DEF Summarize, FailSummary, pageVars, recordVars
<1>5. CASE HostBeat \/ StartSweep \/ UNCHANGED vars
  BY <1>3, <1>5 DEF HostBeat, StartSweep, vars, pageVars, recordVars
<1> QED
  BY <1>1, <1>2, <1>4, <1>5, TickRecords DEF Next

----------------------------------------------------------------------------
(* What the panel shows.                                                   *)

\* The ages of the pages that are on for long, and of those gone for long, tell them
\* apart.
LEMMA SummaryRight ==
  ASSUME TypeOK, RecordInv, NEW task \in making, NEW late \in 0..MaxLag, Summarize(task, late),
         NEW d \in Device
  PROVE  /\ d \in on /\ panel'[d] # "online" => steady[d] <= Beat + MaxLag
         /\ d \notin on => panel'[d] \in {"offline", "unseen"} \/ steady[d] < MaxLag + Offline + late
<1> DEFINE x == IF age[d] > late THEN age[d] - late ELSE 0
<1>1. panel'[d] = IF d \notin recorded THEN "unseen" ELSE StatusFromAge(x)
  BY DEF Summarize
<1>2. x \in Nat /\ x <= age[d] /\ age[d] <= x + late /\ late \in Nat /\ late <= MaxLag
  BY DeviceTypes, Parameters
<1> HIDE DEF x
<1>3. /\ x < Away => StatusFromAge(x) = "online"
      /\ x >= Offline => StatusFromAge(x) = "offline"
  BY <1>2, Parameters DEF StatusFromAge
<1>4. ASSUME d \in on, steady[d] > Beat + MaxLag PROVE panel'[d] = "online"
  <2>1. Beats(d)
    BY <1>4 DEF RecordInv
  <2>2. steady[d] > sinceBeat[d]
    BY <1>4, DeviceTypes, Parameters
  <2>3. d \in recorded /\ age[d] <= Beat + MaxLag
    <3>1. CASE sinceBeat[d] \in beats[d]
      <4>1. steady[d] > sinceBeat[d] + Beat /\ sinceBeat[d] <= MaxLag
        BY <1>4, <3>1, DeviceTypes, Parameters
      <4> QED
        BY <2>1, <4>1, DeviceTypes, Parameters DEF Beats
    <3>2. CASE sinceBeat[d] \notin beats[d]
      <4>1. d \in recorded /\ age[d] <= sinceBeat[d]
        BY <2>1, <2>2, <3>2 DEF Beats
      <4> QED
        BY <4>1, DeviceTypes, Parameters
    <3> QED
      BY <3>1, <3>2
  <2>4. x < Away
    BY <1>2, <2>3, DeviceTypes, Parameters
  <2> QED
    BY <1>1, <1>3, <2>3, <2>4
<1>5. ASSUME d \notin on, panel'[d] \notin {"offline", "unseen"}
      PROVE  steady[d] < MaxLag + Offline + late
  <2>1. d \in recorded /\ x < Offline
    BY <1>1, <1>2, <1>3, <1>5, Parameters
  <2>2. age[d] < Expiry /\ age[d] < Offline + late
    BY <1>2, <2>1, DeviceTypes, Parameters
  <2>3. age[d] + MaxLag >= steady[d]
    BY <1>5, <2>1, <2>2, DeviceTypes, Parameters DEF RecordInv, Gone
  <2> QED
    BY <1>2, <2>2, <2>3, DeviceTypes, Parameters
<1>6. steady[d] <= Beat + MaxLag \/ steady[d] > Beat + MaxLag
  BY DeviceTypes, Parameters
<1> QED
  BY <1>4, <1>5, <1>6

\* A step that shows nothing new: no page gets steadier than the slack allows for, but
\* the ones that change, which start again.
LEMMA ShownKept ==
  ASSUME TypeOK, TypeOK', ShownInv, SweepInv, [Next]_vars,
         ~ \E task \in making, late \in 0..MaxLag : Summarize(task, late)
  PROVE  ShownInv'
<1>0. /\ Slack \in Nat /\ Slack' \in Nat /\ stale \in Nat /\ stale' \in Nat
      /\ Beat \in Nat /\ MaxLag \in Nat /\ Offline \in Nat /\ Offline > 0
  <2>1. 0..Horizon \subseteq Nat
    BY HorizonType
  <2>2. TypeOK' => Slack' \in Nat
    BY SlackNext
  <2> QED
    BY <2>1, <2>2, SlackType, Parameters DEF TypeOK
<1>1. Slack' >= Slack /\ (Tick => Slack' = Slack + 1)
  BY SlackStep
<1>2. panel' = panel
  BY DEF Next, vars, panelVars, Open, Close, SendBeat, Expire, PutPresence, LoseBeat, HostBeat,
     StartSweep, FailSummary, Tick
<1>3. CASE Tick
  <2>1. on' = on /\ \A d \in Device : steady'[d] \in Nat /\ steady'[d] <= steady[d] + 1
    BY <1>3, DeviceTypes DEF Tick, Older
  <2>2. stale < Horizon /\ Horizon \in Nat
    BY <1>0, FreshnessSlack, HorizonType DEF SweepInv
  <2>3. stale' = stale + 1
    BY <1>3, <2>2 DEF Tick, Older
  <2>4. \A d \in on' : panel'[d] # "online" => steady'[d] <= Beat + MaxLag + Slack'
    BY <1>0, <1>1, <1>2, <1>3, <2>1, DeviceTypes DEF ShownInv, TypeOK
  <2>5. \A d \in Device \ on' : panel'[d] \in {"offline", "unseen"}
                               \/ steady'[d] < MaxLag + Offline + stale'
    BY <1>0, <1>2, <2>1, <2>3, DeviceTypes DEF ShownInv
  <2> QED
    BY <2>4, <2>5 DEF ShownInv
<1>4. CASE ~Tick
  <2>1. stale' = stale
    BY <1>4 DEF Next, vars, panelVars, Open, Close, SendBeat, Expire, PutPresence, LoseBeat,
       HostBeat, StartSweep, FailSummary
  <2>2. ASSUME NEW d \in Device
        PROVE  steady'[d] = 0 \/ (steady'[d] = steady[d] /\ (d \in on' <=> d \in on))
    BY <1>4 DEF Next, vars, pageVars, panelVars, Open, Close, SendBeat, Expire, PutPresence, LoseBeat,
       HostBeat, StartSweep, FailSummary, TypeOK
  <2>3. \A d \in on' : panel'[d] # "online" => steady'[d] <= Beat + MaxLag + Slack'
    <3> SUFFICES ASSUME NEW d \in on', panel'[d] # "online"
                 PROVE  steady'[d] <= Beat + MaxLag + Slack'
      OBVIOUS
    <3>1. d \in Device
      BY DEF TypeOK
    <3>2. CASE steady'[d] = 0
      <4>1. 0 <= Beat + MaxLag + Slack'
        <5>1. Beat + MaxLag \in Nat
          BY <1>0
        <5> QED
          BY <1>0, <5>1, Larger
      <4> QED
        BY <3>2, <4>1
    <3>3. CASE steady'[d] = steady[d] /\ d \in on
      BY <1>0, <1>1, <1>2, <3>1, <3>3, DeviceTypes DEF ShownInv
    <3> QED
      BY <2>2, <3>1, <3>2, <3>3
  <2>4. \A d \in Device \ on' : panel'[d] \in {"offline", "unseen"}
                               \/ steady'[d] < MaxLag + Offline + stale'
    BY <1>0, <1>2, <2>1, <2>2 DEF ShownInv
  <2> QED
    BY <2>3, <2>4 DEF ShownInv
<1> QED
  BY <1>3, <1>4

LEMMA ShownStep ==
  ASSUME TypeOK, TypeOK', RecordInv, ShownInv, SweepInv, [Next]_vars
  PROVE  ShownInv'
<1>1. ASSUME NEW task \in making, NEW late \in 0..MaxLag, Summarize(task, late)
      PROVE  ShownInv'
  <2>1. on' = on /\ steady' = steady /\ stale' = late
    BY <1>1 DEF Summarize, pageVars
  <2>2. TypeOK' => Slack' \in Nat
    BY SlackNext
  <2>3. \A d \in on' : panel'[d] # "online" => steady'[d] <= Beat + MaxLag + Slack'
    <3> SUFFICES ASSUME NEW d \in on, panel'[d] # "online"
                 PROVE  steady[d] <= Beat + MaxLag + Slack'
      BY <2>1
    <3>1. d \in Device
      BY DEF TypeOK
    <3>2. steady[d] <= Beat + MaxLag
      BY <1>1, <3>1, SummaryRight
    <3> QED
      BY <2>2, <3>1, <3>2, DeviceTypes, Parameters
  <2>4. \A d \in Device \ on' : panel'[d] \in {"offline", "unseen"}
                               \/ steady'[d] < MaxLag + Offline + stale'
    BY <1>1, <2>1, SummaryRight
  <2> QED
    BY <2>3, <2>4 DEF ShownInv
<1> QED
  BY <1>1, ShownKept

PanelInv == SweepInv /\ RecordInv /\ ShownInv

LEMMA InitPanel == Init => PanelInv
<1> SUFFICES ASSUME Init PROVE PanelInv
  OBVIOUS
<1>1. Slack \in Nat
  BY InitType, SlackType
<1>2. SweepInv
  BY <1>1, Parameters DEF Init, SweepInv
<1>3. RecordInv
  BY DEF Init, RecordInv, Gone
<1>4. ShownInv
  BY DEF Init, ShownInv
<1> QED
  BY <1>2, <1>3, <1>4 DEF PanelInv

THEOREM PanelInvCorrect == Spec => []PanelInv
<1>1. TypeOK /\ TypeOK' /\ PanelInv /\ [Next]_vars => PanelInv'
  BY SweepStep, RecordStep, ShownStep DEF PanelInv
<1> QED
  BY <1>1, InitPanel, TypeCorrect, PTL DEF Spec

\* The panel is never older than an interval and twice the lag, and an interval for
\* every summary that failed, with sweeps that overlap (startPresenceSweeper), for any
\* number of devices and any intervals and lags.
THEOREM PanelFreshCorrect == Spec => []PanelFresh
<1>1. TypeOK /\ PanelInv => PanelFresh
  <2> SUFFICES ASSUME TypeOK, PanelInv PROVE PanelFresh
    OBVIOUS
  <2>1. stale \in Nat
    BY HorizonType DEF TypeOK
  <2> QED
    BY <2>1, SlackType, FreshnessSlack, Parameters DEF PanelFresh, PanelInv, SweepInv
<1> QED
  BY <1>1, PanelInvCorrect, TypeCorrect, PTL

\* A page that beats for a while counts as online and goes on to (startHeartbeat,
\* handleHeartbeat, summarizePresence).
THEOREM BeatingIsOnlineCorrect == Spec => []BeatingIsOnline
<1>1. TypeOK /\ PanelInv => BeatingIsOnline
  <2> SUFFICES ASSUME TypeOK, PanelInv, NEW d \in on, steady[d] > Settled
               PROVE  panel[d] = "online"
    BY DEF BeatingIsOnline
  <2>1. d \in Device /\ Slack \in Nat
    BY SlackType DEF TypeOK
  <2>2. Beat + MaxLag + Slack <= Settled /\ Settled \in Nat
    BY FreshnessSlack, Parameters DEF Settled
  <2>3. ~(steady[d] <= Beat + MaxLag + Slack)
    BY <2>1, <2>2, DeviceTypes, Parameters
  <2> QED
    BY <2>3 DEF PanelInv, ShownInv
<1> QED
  BY <1>1, PanelInvCorrect, TypeCorrect, PTL

\* A page that is gone counts as offline in the end, or no longer counts
\* (summarizePresence, the expiry of putPresence).
THEOREM GoneIsOfflineCorrect == Spec => []GoneIsOffline
<1>1. TypeOK /\ PanelInv => GoneIsOffline
  <2> SUFFICES ASSUME TypeOK, PanelInv, NEW d \in Device \ on, steady[d] >= Departed
               PROVE  panel[d] \in {"offline", "unseen"}
    BY DEF GoneIsOffline
  <2>1. stale \in Nat /\ stale <= Freshness /\ Freshness \in Nat
    BY HorizonType, SlackType, FreshnessSlack, Parameters DEF TypeOK, PanelInv, SweepInv
  <2>2. ~(steady[d] < MaxLag + Offline + stale)
    BY <2>1, DeviceTypes, Parameters DEF Departed
  <2> QED
    BY <2>2 DEF PanelInv, ShownInv
<1> QED
  BY <1>1, PanelInvCorrect, TypeCorrect, PTL
=============================================================================
