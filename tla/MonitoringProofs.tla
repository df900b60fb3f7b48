-------------------------- MODULE MonitoringProofs --------------------------
(***************************************************************************)
(* The slow log, the rates and the ring are what module Monitoring says    *)
(* they are, for any settings, any ring and any clock.                     *)
(***************************************************************************)
EXTENDS Monitoring, SequenceTheorems, TLAPS

IInv ==
  /\ TypeOK
  /\ SlowlogHoldsTheFirst
  /\ RatesNonNegative
  /\ RingHoldsLastIntervals
  /\ Len(recent) <= Samples

-----------------------------------------------------------------------------
(* The slot k places before i in the ring. *)
Back(i, k) == IF k <= i THEN i - k ELSE i - k + Samples

(* The remainder of a number that is at most one ring too large. *)
LEMMA OneTurn ==
  ASSUME NEW a \in 0 .. 2 * Samples - 1
  PROVE  a % Samples = IF a < Samples THEN a ELSE a - Samples
BY MonitoringAssumption, SMTT(30)

(* idx counts up and starts over (metric_track_instantaneous). *)
LEMMA NextSlotIs ==
  ASSUME NEW i \in Slot
  PROVE  NextSlot(i) \in Slot /\ NextSlot(i) = IF i + 1 < Samples THEN i + 1 ELSE 0
<1> DEFINE a == i + 1
<1>1. a \in 0 .. 2 * Samples - 1 BY MonitoringAssumption DEF Slot
<1> HIDE DEF a
<1>2. a % Samples = IF a < Samples THEN a ELSE a - Samples BY <1>1, OneTurn
<1>3. NextSlot(i) = a % Samples BY DEF NextSlot, a
<1> QED BY <1>2, <1>3, MonitoringAssumption DEF Slot, a

(* The slots that RingHoldsLastIntervals names. *)
LEMMA BackIs ==
  ASSUME NEW i \in Slot, NEW k \in 1 .. Samples
  PROVE  Back(i, k) \in Slot /\ (i - k + Samples) % Samples = Back(i, k)
<1> DEFINE a == i - k + Samples
<1>1. a \in 0 .. 2 * Samples - 1 BY MonitoringAssumption DEF Slot
<1> HIDE DEF a
<1>2. a % Samples = IF a < Samples THEN a ELSE a - Samples BY <1>1, OneTurn
<1>3. (IF a < Samples THEN a ELSE a - Samples) = Back(i, k) /\ Back(i, k) \in Slot
  BY MonitoringAssumption DEF Slot, Back, a
<1> QED BY <1>2, <1>3 DEF a

(* A rate is not negative when the count of commands did not go down,      *)
(* whatever the clock did.                                                 *)
LEMMA RateNonNegative ==
  ASSUME NEW value \in Nat, NEW base \in Int
  PROVE  Rate(value, base) \in Nat
<1>1. value * Factor \in Nat BY MonitoringAssumption
<1> DEFINE p == value * Factor
<1> HIDE DEF p
<1>2. ASSUME base > 0 PROVE p \div base \in Nat BY <1>1, <1>2, SMTT(30) DEF p
<1> QED BY <1>2 DEF Rate, p

-----------------------------------------------------------------------------
(* Cutting the log, as the loop in slowlog_manager_push_if_needed does. *)
LEMMA CutIs ==
  ASSUME NEW l \in Seq(Entry)
  PROVE  /\ Cut(l) \in Seq(Entry)
         /\ Len(Cut(l)) = IF Len(l) > max_len THEN max_len ELSE Len(l)
         /\ \A i \in 1 .. Len(Cut(l)) : Cut(l)[i] = l[i]
<1>1. max_len \in Nat /\ Len(l) \in Nat BY MonitoringAssumption DEF max_len
<1> QED BY <1>1 DEF Cut

(* Cutting, adding an entry and cutting again gives what cutting once at   *)
(* the end gives: a full log does not take the new entry.                  *)
LEMMA CutAppend ==
  ASSUME NEW l \in Seq(Entry), NEW e \in Entry
  PROVE  Cut(Append(Cut(l), e)) = Cut(Append(l, e))
<1>1. max_len \in Nat /\ Len(l) \in Nat BY MonitoringAssumption DEF max_len
<1> DEFINE a == Cut(l)
           b == Append(a, e)
           c == Append(l, e)
<1>2. /\ a \in Seq(Entry) /\ Len(a) = (IF Len(l) > max_len THEN max_len ELSE Len(l))
      /\ \A i \in 1 .. Len(a) : a[i] = l[i]
  BY CutIs
<1> HIDE DEF a
<1>3. b \in Seq(Entry) /\ Len(b) = Len(a) + 1 /\ b[Len(a) + 1] = e
      /\ \A i \in 1 .. Len(a) : b[i] = a[i]
  BY <1>2, AppendProperties
<1>4. c \in Seq(Entry) /\ Len(c) = Len(l) + 1 /\ c[Len(l) + 1] = e
      /\ \A i \in 1 .. Len(l) : c[i] = l[i]
  BY AppendProperties
<1> HIDE DEF b, c
<1>5. /\ Cut(b) \in Seq(Entry) /\ Len(Cut(b)) = (IF Len(b) > max_len THEN max_len ELSE Len(b))
      /\ \A i \in 1 .. Len(Cut(b)) : Cut(b)[i] = b[i]
  BY <1>3, CutIs, Zenon
<1>6. /\ Cut(c) \in Seq(Entry) /\ Len(Cut(c)) = (IF Len(c) > max_len THEN max_len ELSE Len(c))
      /\ \A i \in 1 .. Len(Cut(c)) : Cut(c)[i] = c[i]
  BY <1>4, CutIs, Zenon
<1>7. Len(Cut(b)) = Len(Cut(c))
  BY <1>1, <1>2, <1>3, <1>4, <1>5, <1>6
<1>8. ASSUME NEW i \in 1 .. Len(Cut(b)) PROVE Cut(b)[i] = Cut(c)[i]
  <2>1. Cut(b)[i] = b[i] /\ Cut(c)[i] = c[i] BY <1>5, <1>6, <1>7
  <2>2. CASE i \in 1 .. Len(a)
    <3>1. i \in 1 .. Len(l) BY <1>1, <1>2, <2>2
    <3> QED BY <1>2, <1>3, <1>4, <2>1, <2>2, <3>1
  <2>3. CASE ~(i \in 1 .. Len(a))
    <3>1. i = Len(a) + 1 /\ Len(a) = Len(l) BY <1>1, <1>2, <1>3, <1>5, <2>3
    <3> QED BY <1>3, <1>4, <2>1, <3>1
  <2> QED BY <2>2, <2>3
<1>9. Cut(b) = Cut(c) BY <1>5, <1>6, <1>7, <1>8, SeqEqual
<1> QED BY <1>9 DEF a, b, c

(* The log that SlowlogHoldsTheFirst describes is what the loop leaves. *)
LEMMA FirstIsCut ==
  ASSUME NEW l \in Seq(Entry)
  PROVE  (IF Len(l) <= max_len THEN l ELSE SubSeq(l, 1, max_len)) = Cut(l)
<1>1. max_len \in Nat /\ Len(l) \in Nat BY MonitoringAssumption, LenProperties DEF max_len
<1> QED BY <1>1 DEF Cut

(* Cutting twice is cutting once. *)
LEMMA CutCut ==
  ASSUME NEW l \in Seq(Entry)
  PROVE  Cut(Cut(l)) = Cut(l)
<1>1. max_len \in Nat /\ Len(l) \in Nat BY MonitoringAssumption DEF max_len
<1>2. Len(Cut(l)) <= max_len BY <1>1, CutIs
<1>3. Len(Cut(l)) \in Nat BY CutIs
<1> DEFINE a == Cut(l)
<1> HIDE DEF a
<1>4. Cut(a) = a BY <1>1, <1>2, <1>3 DEF Cut, a
<1> QED BY <1>4 DEF a

-----------------------------------------------------------------------------
(* The end of a command. *)
LEMMA CommandEndPreserves ==
  ASSUME IInv, NEW d \in Durations, redis_client_command_end(d)
  PROVE  IInv'
<1>1. /\ slowlog_manager_push_if_needed(d)
      /\ metric_stat_numcommands' = metric_stat_numcommands + 1
      /\ metrics' = metrics /\ last_sample_base' = last_sample_base
      /\ last_sample_value' = last_sample_value /\ samples' = samples /\ idx' = idx
      /\ recent' = recent
  BY DEF redis_client_command_end, metric
<1>2. TypeOK /\ next_id = Len(slow) /\ entries = Cut(slow) /\ slow \in Seq(Entry)
  BY FirstIsCut DEF IInv, TypeOK, SlowlogHoldsTheFirst
<1>3. max_len \in Nat /\ time_limit_us \in Nat /\ d \in Int
  BY MonitoringAssumption DEF max_len, time_limit_us
<1> DEFINE e == [id |-> Len(slow), duration |-> d]
<1>4. e \in Entry BY <1>2, <1>3 DEF Entry
<1>5. /\ slow' \in Seq(Entry) /\ entries' \in Seq(Entry) /\ next_id' \in Nat
      /\ next_id' = Len(slow') /\ entries' = Cut(slow')
  <2>1. CASE d > time_limit_us
    <3>1. /\ slow' = Append(slow, e) /\ next_id' = next_id + 1
          /\ entries' = Cut(Append(entries, [id |-> next_id, duration |-> d]))
      BY <1>1, <1>3, <2>1 DEF slowlog_manager_push_if_needed, slowlog_entry_new, IsSlow
    <3>2. entries' = Cut(Append(Cut(slow), e)) BY <1>2, <3>1
    <3> HIDE DEF e
    <3>3. entries' = Cut(slow') BY <1>2, <1>4, <3>1, <3>2, CutAppend
    <3>4. slow' \in Seq(Entry) /\ Len(slow') = Len(slow) + 1
      BY <1>2, <1>4, <3>1, AppendProperties
    <3>5. entries' \in Seq(Entry) BY <3>3, <3>4, CutIs
    <3>6. next_id' \in Nat /\ next_id' = Len(slow') BY <1>2, <3>1, <3>4
    <3> QED BY <3>3, <3>4, <3>5, <3>6
  <2>2. CASE ~(d > time_limit_us)
    <3>1. slow' = slow /\ next_id' = next_id /\ entries' = Cut(entries)
      BY <1>1, <1>3, <2>2 DEF slowlog_manager_push_if_needed, IsSlow
    <3>2. entries' = Cut(slow') BY <1>2, <3>1, CutCut
    <3>3. entries' \in Seq(Entry) BY <1>2, <3>1, <3>2, CutIs
    <3> QED BY <1>2, <3>1, <3>2, <3>3 DEF TypeOK
  <2> QED BY <2>1, <2>2
<1>6. TypeOK' BY <1>1, <1>2, <1>5 DEF TypeOK
<1>7. SlowlogHoldsTheFirst' BY <1>3, <1>5, LenProperties DEF SlowlogHoldsTheFirst, Cut
<1>8. RatesNonNegative' BY <1>1, <1>2 DEF IInv, RatesNonNegative, TypeOK
<1>9. RingHoldsLastIntervals' /\ (Len(recent) <= Samples)'
  BY <1>1 DEF IInv, RingHoldsLastIntervals
<1> QED BY <1>6, <1>7, <1>8, <1>9 DEF IInv

(* A rate enters the ring and the history. *)
LEMMA RingStep ==
  ASSUME IInv, NEW avg \in Int,
         samples' = [samples EXCEPT ![idx] = avg],
         idx' = NextSlot(idx),
         recent' = IF Len(Append(recent, avg)) > Samples
                   THEN Tail(Append(recent, avg)) ELSE Append(recent, avg)
  PROVE  /\ idx' \in Slot /\ samples' \in [Slot -> Int] /\ recent' \in Seq(Int)
         /\ RingHoldsLastIntervals' /\ Len(recent') <= Samples
<1>1. /\ idx \in Slot /\ samples \in [Slot -> Int] /\ recent \in Seq(Int)
      /\ Len(recent) \in Nat /\ Len(recent) <= Samples /\ Samples \in Nat \ {0}
  BY MonitoringAssumption DEF IInv, TypeOK
<1>2. /\ idx' \in Slot /\ idx' = (IF idx + 1 < Samples THEN idx + 1 ELSE 0)
  BY <1>1, NextSlotIs
<1>3. samples' \in [Slot -> Int] BY <1>1
<1> DEFINE seen == Append(recent, avg)
<1>4. /\ seen \in Seq(Int) /\ Len(seen) = Len(recent) + 1 /\ seen[Len(recent) + 1] = avg
      /\ \A i \in 1 .. Len(recent) : seen[i] = recent[i]
  BY <1>1, AppendProperties
<1> HIDE DEF seen
<1>5. /\ recent' \in Seq(Int)
      /\ Len(recent') = IF Len(recent) = Samples THEN Samples ELSE Len(recent) + 1
      /\ \A k \in 1 .. Len(recent') : recent'[Len(recent') + 1 - k] = seen[Len(seen) + 1 - k]
  <2>1. CASE Len(recent) = Samples
    <3>1. recent' = Tail(seen) /\ seen # <<>>
      <4>1. Len(seen) > Samples BY <1>1, <1>4, <2>1
      <4>2. recent' = Tail(seen) BY <4>1 DEF seen
      <4>3. seen # <<>> BY <1>1, <1>4
      <4> QED BY <4>2, <4>3, Zenon
    <3>2. /\ recent' \in Seq(Int) /\ Len(recent') = Samples
          /\ \A i \in 1 .. Len(recent') : recent'[i] = seen[i + 1]
      <4>1. /\ Tail(seen) \in Seq(Int) /\ Len(Tail(seen)) = Len(seen) - 1
            /\ \A i \in 1 .. Len(Tail(seen)) : Tail(seen)[i] = seen[i + 1]
        BY <1>4, <3>1, HeadTailProperties
      <4>2. Len(seen) - 1 = Samples BY <1>1, <1>4, <2>1
      <4> QED BY <3>1, <4>1, <4>2, Zenon
    <3>3. ASSUME NEW k \in 1 .. Len(recent')
          PROVE  recent'[Len(recent') + 1 - k] = seen[Len(seen) + 1 - k]
      <4>0. Len(recent') = Samples /\ Samples \in Nat BY <1>1, <3>2
      <4>1. Len(recent') + 1 - k \in 1 .. Len(recent') BY <4>0
      <4>2. recent'[Len(recent') + 1 - k] = seen[(Len(recent') + 1 - k) + 1] BY <3>2, <4>1, Zenon
      <4>3. (Len(recent') + 1 - k) + 1 = Len(seen) + 1 - k BY <1>1, <1>4, <2>1, <3>2
      <4> QED BY <4>2, <4>3
    <3> QED BY <2>1, <3>2, <3>3, Zenon
  <2>2. CASE Len(recent) # Samples
    <3>1. recent' = seen
      <4>1. ~(Len(seen) > Samples) BY <1>1, <1>4, <2>2
      <4> QED BY <4>1 DEF seen
    <3> QED BY <1>4, <2>2, <3>1, Zenon
  <2> QED BY <2>1, <2>2, Zenon
<1>6. Len(recent') <= Samples BY <1>1, <1>5
<1>7. ASSUME NEW k \in 1 .. Samples
      PROVE  samples'[(idx' - k + Samples) % Samples]
               = IF k <= Len(recent') THEN recent'[Len(recent') + 1 - k] ELSE 0
  <2>1. (idx' - k + Samples) % Samples = Back(idx', k) /\ Back(idx', k) \in Slot
    BY <1>2, BackIs
  <2>2. CASE k = 1
    <3>1. Back(idx', k) = idx BY <1>1, <1>2, <2>2 DEF Back, Slot
    <3>2. samples'[idx] = avg BY <1>1
    <3>3. k \in 1 .. Len(recent') BY <1>1, <1>5, <2>2
    <3>4. recent'[Len(recent') + 1 - k] = seen[Len(seen) + 1 - k] BY <1>5, <3>3, Zenon
    <3>5. Len(seen) + 1 - k = Len(recent) + 1 BY <1>1, <1>4, <2>2
    <3>6. recent'[Len(recent') + 1 - k] = avg BY <1>4, <3>4, <3>5, Zenon
    <3>7. k <= Len(recent') BY <3>3
    <3> QED BY <2>1, <3>1, <3>2, <3>6, <3>7
  <2>3. CASE k # 1
    <3> DEFINE j == k - 1
    <3>1. j \in 1 .. Samples /\ j < Samples BY <1>1, <2>3
    <3>2. Back(idx', k) = Back(idx, j) /\ Back(idx, j) # idx
      BY <1>1, <1>2, <2>3, <3>1 DEF Back, Slot
    <3>3. samples'[Back(idx', k)] = samples[Back(idx, j)] BY <1>1, <2>1, <3>2
    <3>4. samples[(idx - j + Samples) % Samples]
            = IF j <= Len(recent) THEN recent[Len(recent) + 1 - j] ELSE 0
      BY <3>1 DEF IInv, RingHoldsLastIntervals
    <3>5. (idx - j + Samples) % Samples = Back(idx, j) BY <1>1, <3>1, BackIs
    <3>6. k <= Len(recent') <=> j <= Len(recent) BY <1>1, <1>5, <3>1
    <3>7. ASSUME j <= Len(recent)
          PROVE  recent'[Len(recent') + 1 - k] = recent[Len(recent) + 1 - j]
      <4>1. k \in 1 .. Len(recent') BY <1>1, <1>5, <3>6, <3>7
      <4>2. recent'[Len(recent') + 1 - k] = seen[Len(seen) + 1 - k] BY <1>5, <4>1, Zenon
      <4>3. /\ Len(seen) + 1 - k = Len(recent) + 1 - j
            /\ Len(recent) + 1 - j \in 1 .. Len(recent)
        BY <1>1, <1>4, <3>1, <3>7
      <4>4. seen[Len(recent) + 1 - j] = recent[Len(recent) + 1 - j] BY <1>4, <4>3, Zenon
      <4> QED BY <4>2, <4>3, <4>4, Zenon
    <3> HIDE DEF j
    <3> QED BY <2>1, <3>3, <3>4, <3>5, <3>6, <3>7
  <2> QED BY <2>2, <2>3, Zenon
<1>8. RingHoldsLastIntervals' BY <1>7 DEF RingHoldsLastIntervals
<1> QED BY <1>2, <1>3, <1>5, <1>6, <1>8

(* The cron takes a sample. *)
LEMMA CronPreserves ==
  ASSUME IInv, update_metric_cron
  PROVE  IInv'
<1>1. PICK t \in Times :
        /\ metric_track_instantaneous(metric_stat_numcommands, t)
        /\ UNCHANGED <<slowlog, metric_stat_numcommands>>
  BY DEF update_metric_cron
<1>2. TypeOK /\ RatesNonNegative BY DEF IInv
<1>3. /\ last_sample_value <= metric_stat_numcommands /\ last_sample_value \in Nat
      /\ metric_stat_numcommands \in Nat /\ last_sample_base \in Nat
  BY <1>2 DEF TypeOK, RatesNonNegative
<1>4. t \in Nat BY MonitoringAssumption
<1> DEFINE avg == Rate(metric_stat_numcommands - last_sample_value, t - last_sample_base)
<1>5. avg \in Nat
  <2> DEFINE v == metric_stat_numcommands - last_sample_value
             b == t - last_sample_base
  <2>1. v \in Nat /\ b \in Int BY <1>3, <1>4
  <2> HIDE DEF v, b
  <2>2. Rate(v, b) \in Nat BY <2>1, RateNonNegative
  <2> QED BY <2>2 DEF v, b
<1>6. /\ metrics' = metrics \cup {"command"}
      /\ last_sample_base' = t /\ last_sample_value' = metric_stat_numcommands
      /\ entries' = entries /\ next_id' = next_id /\ slow' = slow
      /\ metric_stat_numcommands' = metric_stat_numcommands
      /\ \/ /\ samples' = [samples EXCEPT ![idx] = avg]
            /\ idx' = NextSlot(idx)
            /\ recent' = IF Len(Append(recent, avg)) > Samples
                         THEN Tail(Append(recent, avg)) ELSE Append(recent, avg)
         \/ samples' = samples /\ idx' = idx /\ recent' = recent
  BY <1>1 DEF metric_track_instantaneous, Record, slowlog
<1> HIDE DEF avg
<1>7. /\ idx' \in Slot /\ samples' \in [Slot -> Int] /\ recent' \in Seq(Int)
      /\ RingHoldsLastIntervals' /\ Len(recent') <= Samples
      /\ \A i \in Slot : samples'[i] >= 0
  <2>1. CASE /\ samples' = [samples EXCEPT ![idx] = avg]
             /\ idx' = NextSlot(idx)
             /\ recent' = IF Len(Append(recent, avg)) > Samples
                          THEN Tail(Append(recent, avg)) ELSE Append(recent, avg)
    <3>1. avg \in Int /\ avg >= 0 BY <1>5
    <3>2. /\ idx' \in Slot /\ samples' \in [Slot -> Int] /\ recent' \in Seq(Int)
          /\ RingHoldsLastIntervals' /\ Len(recent') <= Samples
      BY <2>1, <3>1, RingStep, Zenon
    <3>3. \A i \in Slot : samples'[i] >= 0
      BY <1>2, <2>1, <3>1 DEF TypeOK, RatesNonNegative
    <3> QED BY <3>2, <3>3
  <2>2. CASE samples' = samples /\ idx' = idx /\ recent' = recent
    BY <2>2 DEF IInv, TypeOK, RatesNonNegative, RingHoldsLastIntervals
  <2> QED BY <1>6, <2>1, <2>2
<1>8. TypeOK' BY <1>2, <1>3, <1>4, <1>6, <1>7 DEF TypeOK
<1>9. SlowlogHoldsTheFirst' BY <1>6 DEF IInv, SlowlogHoldsTheFirst, Cut, max_len
<1>10. RatesNonNegative' BY <1>3, <1>6, <1>7 DEF RatesNonNegative
<1> QED BY <1>7, <1>8, <1>9, <1>10 DEF IInv

(* Every step keeps the inductive invariant. *)
LEMMA MonitoringNext == IInv /\ [Next]_vars => IInv'
<1> SUFFICES ASSUME IInv, [Next]_vars PROVE IInv' OBVIOUS
<1>1. CASE \E d \in Durations : redis_client_command_end(d) BY <1>1, CommandEndPreserves
<1>2. CASE update_metric_cron BY <1>2, CronPreserves
<1>3. CASE UNCHANGED vars
  BY <1>3 DEF vars, slowlog, metric, IInv, TypeOK, SlowlogHoldsTheFirst, RatesNonNegative,
              RingHoldsLastIntervals, Cut, max_len
<1> QED BY <1>1, <1>2, <1>3 DEF Next

(* It holds when the server starts. *)
LEMMA MonitoringInit == Init => IInv
<1> SUFFICES ASSUME Init PROVE IInv OBVIOUS
<1> USE MonitoringAssumption
<1>1. 0 \in Slot BY DEF Slot
<1>2. TypeOK BY <1>1 DEF Init, TypeOK
<1>3. SlowlogHoldsTheFirst BY DEF Init, SlowlogHoldsTheFirst, Cut, max_len
<1>4. RatesNonNegative BY DEF Init, RatesNonNegative
<1>5. RingHoldsLastIntervals
  <2>1. ASSUME NEW k \in 1 .. Samples
        PROVE samples[(idx - k + Samples) % Samples] = 0 /\ ~(k <= Len(recent))
    <3>1. (0 - k + Samples) % Samples \in Slot BY <1>1, BackIs, Zenon
    <3>2. samples[(0 - k + Samples) % Samples] = 0 BY <3>1 DEF Init
    <3> QED BY <3>2 DEF Init
  <2> QED BY <2>1 DEF RingHoldsLastIntervals
<1>6. Len(recent) <= Samples BY DEF Init
<1> QED BY <1>2, <1>3, <1>4, <1>5, <1>6 DEF IInv

(* The counters, the log and the ring keep their types, and idx never      *)
(* leaves the ring, for any length of it.                                  *)
THEOREM MonitoringTypeCorrect == Spec => []TypeOK
<1>1. IInv => TypeOK BY DEF IInv
<1> QED BY <1>1, MonitoringInit, MonitoringNext, PTL DEF Spec

(* The slow log holds the first commands over the limit, for any settings. *)
THEOREM SlowlogKeepsTheFirst == Spec => []SlowlogHoldsTheFirst
<1>1. IInv => SlowlogHoldsTheFirst BY DEF IInv
<1> QED BY <1>1, MonitoringInit, MonitoringNext, PTL DEF Spec

(* No rate is negative, whatever the clock does between two samples. *)
THEOREM RatesStayNonNegative == Spec => []RatesNonNegative
<1>1. IInv => RatesNonNegative BY DEF IInv
<1> QED BY <1>1, MonitoringInit, MonitoringNext, PTL DEF Spec

(* The ring holds the rates of the last intervals, for any length of it. *)
THEOREM RingIsRecent == Spec => []RingHoldsLastIntervals
<1>1. IInv => RingHoldsLastIntervals BY DEF IInv
<1> QED BY <1>1, MonitoringInit, MonitoringNext, PTL DEF Spec
=============================================================================
