----------------------------- MODULE Monitoring -----------------------------
(***************************************************************************)
(* What the server records about the commands it ran: the slow log         *)
(* (slowlog.c), the number of commands, and the ring of command rates that *)
(* a cron samples (metric.c, crons.c).  The end of a command and the cron  *)
(* are callbacks of one event loop.                                        *)
(***************************************************************************)
EXTENDS Integers, Sequences

CONSTANTS
  slowlog_log_slower_than,  \* config, microseconds
  slowlog_max_len,          \* config, entries
  Samples,                  \* 16, length of the ring
  Factor,                   \* 1000000, microseconds in the unit of a rate
  Durations,                \* how long a command may take
  Times,                    \* what ustime() may return; it may go back
  MaxCommands               \* bound on the number of commands

ASSUME MonitoringAssumption ==
  /\ slowlog_log_slower_than \in Nat /\ slowlog_max_len \in Nat
  /\ Samples \in Nat \ {0}
  /\ Factor \in Nat
  /\ Durations \subseteq Int
  /\ Times \subseteq Nat \ {0}
  /\ MaxCommands \in Nat

VARIABLES
  entries,                  \* the slow log, oldest entry first
  next_id,
  metric_stat_numcommands,
  metrics,                  \* names that have a metric entry
  last_sample_base, last_sample_value, samples, idx,
  slow,                     \* every slow command so far (history)
  recent                    \* rates of the last intervals (history)

slowlog == <<entries, next_id, slow>>
metric == <<metrics, last_sample_base, last_sample_value, samples, idx, recent>>
vars == <<slowlog, metric_stat_numcommands, metric>>

(* start_redis_server hands the two settings to slowlog_manager_new, whose *)
(* parameters are (max_len, time_limit_us), in this order.                 *)
max_len == slowlog_log_slower_than
time_limit_us == slowlog_max_len

Slot == 0 .. Samples - 1

Init ==
  /\ entries = <<>> /\ next_id = 0 /\ slow = <<>>
  /\ metric_stat_numcommands = 0
  /\ metrics = {}
  /\ last_sample_base = 0 /\ last_sample_value = 0
  /\ samples = [i \in Slot |-> 0] /\ idx = 0
  /\ recent = <<>>

-----------------------------------------------------------------------------
(* Wrong variant: the limit itself counts as slow. *)
IsSlowAtLimit(d) == d >= time_limit_us

IsSlow(d) == d > time_limit_us

(* The loop that deletes list_last while there are more than max_len. *)
Cut(l) == IF Len(l) > max_len THEN SubSeq(l, 1, max_len) ELSE l

(* Of an entry, the number and the duration; its copies of the name, the   *)
(* arguments and the address are left out.                                 *)
slowlog_entry_new(id, d) == [id |-> id, duration |-> d]

slowlog_manager_push_if_needed(d) ==
  /\ slow' = IF d > time_limit_us THEN Append(slow, [id |-> Len(slow), duration |-> d]) ELSE slow
  /\ IF max_len < 0 \/ time_limit_us < 0
     THEN UNCHANGED <<entries, next_id>>
     ELSE IF IsSlow(d)
          THEN /\ entries' = Cut(Append(entries, slowlog_entry_new(next_id, d)))
               /\ next_id' = next_id + 1
          ELSE entries' = Cut(entries) /\ UNCHANGED next_id

redis_client_command_end(d) ==
  /\ metric_stat_numcommands < MaxCommands
  /\ slowlog_manager_push_if_needed(d)
  /\ metric_stat_numcommands' = metric_stat_numcommands + 1
  /\ UNCHANGED metric

-----------------------------------------------------------------------------
(* Wrong variant: a clock that went back gives a negative rate. *)
RateSigned(value, base) ==
  IF base = 0 THEN 0
  ELSE IF base > 0 THEN (value * Factor) \div base ELSE -((value * Factor) \div (-base))

(* avg in metric_track_instantaneous; no time, or a clock that went back,  *)
(* gives 0.                                                                *)
Rate(value, base) == IF base > 0 THEN (value * Factor) \div base ELSE 0

(* Wrong variant: the last slot of the ring is not used. *)
NextSlotShort(i) == (i + 1) % (Samples - 1)

NextSlot(i) == (i + 1) % Samples

(* Wrong variant: the base is kept, the value forgotten, as the rate of    *)
(* the next interval is then taken over all commands.                      *)
RecordBaseOnly(value, base) ==
  last_sample_base' = base /\ UNCHANGED last_sample_value

Record(value, base) ==
  last_sample_base' = base /\ last_sample_value' = value

(* metric_track_instantaneous for the name "command". *)
metric_track_instantaneous(value, base) ==
  LET avg == Rate(value - last_sample_value, base - last_sample_base)
      seen == Append(recent, avg)
  IN /\ IF "command" \in metrics /\ last_sample_base > 0
        THEN /\ samples' = [samples EXCEPT ![idx] = avg]
             /\ idx' = NextSlot(idx)
             /\ recent' = IF Len(seen) > Samples THEN Tail(seen) ELSE seen
        ELSE UNCHANGED <<samples, idx, recent>>
     /\ metrics' = metrics \cup {"command"}
     /\ Record(value, base)

update_metric_cron ==
  \E current_time \in Times :
    /\ metric_track_instantaneous(metric_stat_numcommands, current_time)
    /\ UNCHANGED <<slowlog, metric_stat_numcommands>>

Next == (\E d \in Durations : redis_client_command_end(d)) \/ update_metric_cron

Spec == Init /\ [][Next]_vars

(* The cron manager runs update_metric_cron every 100 ms. *)
FairSpec == Spec /\ WF_vars(update_metric_cron)
-----------------------------------------------------------------------------
(* Properties *)

Entry == [id : Nat, duration : Int]

TypeOK ==
  /\ entries \in Seq(Entry) /\ slow \in Seq(Entry)
  /\ next_id \in Nat
  /\ metric_stat_numcommands \in Nat
  /\ metrics \in SUBSET {"command"}
  /\ last_sample_base \in Nat /\ last_sample_value \in Nat
  /\ samples \in [Slot -> Int]
  /\ idx \in Slot
  /\ recent \in Seq(Int)

(* The slow log holds the first max_len commands that took longer than the *)
(* limit, with consecutive numbers: once full it never changes again,      *)
(* since the loop of slowlog_manager_push_if_needed deletes the last node, *)
(* the one that was just added.                                            *)
SlowlogHoldsTheFirst ==
  /\ next_id = Len(slow)
  /\ entries = IF Len(slow) <= max_len THEN slow ELSE SubSeq(slow, 1, max_len)

(* Every rate is at least 0, also when the clock was set back between two  *)
(* samples, and no sample counts a command twice: the value remembered     *)
(* with a sample is never ahead of the count of commands.                  *)
RatesNonNegative ==
  /\ last_sample_value <= metric_stat_numcommands
  /\ \A i \in Slot : samples[i] >= 0

(* Counting back from idx, the ring holds the rates of the last intervals, *)
(* newest first, and zeros where there was none yet: the first sample only *)
(* sets the base, and a rate takes the place of the oldest.                *)
RingHoldsLastIntervals ==
  \A k \in 1 .. Samples :
    samples[(idx - k + Samples) % Samples]
      = IF k <= Len(recent) THEN recent[Len(recent) + 1 - k] ELSE 0

(* Every command is eventually part of a sample. *)
EveryCommandSampled ==
  \A n \in 1 .. MaxCommands :
    metric_stat_numcommands >= n ~> last_sample_value >= n
=============================================================================
