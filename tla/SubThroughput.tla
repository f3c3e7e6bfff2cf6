----------------------------- MODULE SubThroughput -----------------------------
(***************************************************************************)
(* examples/z_sub_thr.c: on_sample counts samples into rounds, prints a    *)
(* rate at the end of each and exits after the last.  Its counters are     *)
(* volatile but not atomic, and nothing keeps two library threads from     *)
(* running on_sample at once: each access to a counter that is shared is a *)
(* step of its own.                                                        *)
(*                                                                         *)
(* main never gets past its sleep loop, so that the z_subscriber_drop      *)
(* after it is not a behaviour of the program; drop_stats is reached only  *)
(* where the subscriber cannot be declared.                                *)
(***************************************************************************)
EXTENDS Integers, FiniteSets

CONSTANTS
  Threads,          \* library threads that run on_sample
  Numbers,          \* what -n, messages per round, may be
  Measurements,     \* what -s, the number of measurements, may be
  MaxReceived       \* samples that arrive (a bound for TLC)

ASSUME ThroughputAssumption ==
  /\ IsFiniteSet(Threads)
  /\ Numbers \subseteq Nat /\ Measurements \subseteq Nat
  /\ MaxReceived \in Nat

VARIABLES
  messages_per_round, max_rounds,      \* z_stats_t, set once
  count, finished_rounds,              \* z_stats_t, volatile
  start,       \* z_stats_t: the sample at whose arrival start was taken
  pc,          \* where each thread is in on_sample
  tmp,         \* the counter value a thread is about to increment
  sample,      \* the sample each thread is handling, numbered by arrival
  received,    \* samples that have arrived
  measured,    \* messages that each printed rate was really taken over
  printed,     \* rates printed
  main,        \* "declaring", "sleeping" or "returned"
  running,     \* FALSE once on_sample has called exit(0)
  overlapped   \* whether two threads have been in on_sample at once

args == <<messages_per_round, max_rounds>>
local == <<tmp, sample>>
output == <<measured, printed>>
program == <<main, running, overlapped>>
vars == <<args, count, finished_rounds, start, pc, local, received, output,
          program>>

(* z_stats_make, with the arguments parsed.                                *)
Init ==
  /\ messages_per_round \in Numbers /\ max_rounds \in Measurements
  /\ count = 0 /\ finished_rounds = 0 /\ start = 0
  /\ pc = [t \in Threads |-> "idle"]
  /\ tmp = [t \in Threads |-> 0] /\ sample = [t \in Threads |-> 0]
  /\ received = 0 /\ measured = {} /\ printed = 0
  /\ main = "declaring" /\ running = TRUE /\ overlapped = FALSE

-------------------------------------------------------------------------------
(* z_session_declare_subscriber gives a subscriber, or drops the closure:  *)
(* drop_stats reports, of no sample, and frees the context; main returns.  *)
Declare ==
  /\ main = "declaring" /\ main' \in {"sleeping", "returned"}
  /\ UNCHANGED <<args, count, finished_rounds, start, pc, local, received, output,
                 running, overlapped>>

(* A step of on_sample takes its thread from one place in it to another.   *)
Step(t, from, to) ==
  running /\ pc[t] = from /\ pc' = [pc EXCEPT ![t] = to]

(* A sample arrives; on_sample reads count for its first test.             *)
Enter(t) ==
  /\ main = "sleeping" /\ received < MaxReceived
  /\ received' = received + 1
  /\ sample' = [sample EXCEPT ![t] = received + 1]
  /\ Step(t, "idle", IF count = 0 THEN "first" ELSE "later")
  /\ overlapped' = (overlapped \/ \E u \in Threads \ {t} : pc[u] # "idle")
  /\ UNCHANGED <<args, count, finished_rounds, start, tmp, output, main, running>>

(* The round's first sample starts its clock.                              *)
First(t) ==
  /\ Step(t, "first", "count")
  /\ start' = sample[t]
  /\ UNCHANGED <<args, count, finished_rounds, local, received, output, program>>

(* Mutant: a round is over one message late.                               *)
LaterOffByOne(t) ==
  /\ Step(t, "later", IF count <= messages_per_round THEN "count" ELSE "finish")
  /\ UNCHANGED <<args, count, finished_rounds, start, local, received, output, program>>

(* A later sample tests count again: another message, or the round's end.  *)
Later(t) ==
  /\ Step(t, "later", IF count < messages_per_round THEN "count" ELSE "finish")
  /\ UNCHANGED <<args, count, finished_rounds, start, local, received, output, program>>

(* count++ is a read and a write.                                          *)
CountRead(t) ==
  /\ Step(t, "count", "counted")
  /\ tmp' = [tmp EXCEPT ![t] = count]
  /\ UNCHANGED <<args, count, finished_rounds, start, sample, received, output, program>>

CountWrite(t) ==
  /\ Step(t, "counted", "idle")
  /\ count' = tmp[t] + 1
  /\ UNCHANGED <<args, finished_rounds, start, local, received, output, program>>

(* So is finished_rounds++.                                                *)
FinishRead(t) ==
  /\ Step(t, "finish", "finished")
  /\ tmp' = [tmp EXCEPT ![t] = finished_rounds]
  /\ UNCHANGED <<args, count, finished_rounds, start, sample, received, output, program>>

FinishWrite(t) ==
  /\ Step(t, "finished", "print")
  /\ finished_rounds' = tmp[t] + 1
  /\ UNCHANGED <<args, count, start, local, received, output, program>>

(* Mutant: the first round, warming up, is not printed.                    *)
PrintRateLater(t) ==
  /\ Step(t, "print", "reset")
  /\ measured' = measured \cup {sample[t] - start}
  /\ printed' = IF finished_rounds = 1 THEN printed ELSE printed + 1
  /\ UNCHANGED <<args, count, finished_rounds, start, local, received, program>>

(* The rate printed is messages_per_round over the time since start.       *)
PrintRate(t) ==
  /\ Step(t, "print", "reset")
  /\ measured' = measured \cup {sample[t] - start}
  /\ printed' = printed + 1
  /\ UNCHANGED <<args, count, finished_rounds, start, local, received, program>>

(* Mutant: the closing sample is taken for the next round's first.         *)
ResetToOne(t) ==
  /\ Step(t, "reset", "check")
  /\ count' = 1
  /\ UNCHANGED <<args, finished_rounds, start, local, received, output, program>>

Reset(t) ==
  /\ Step(t, "reset", "check")
  /\ count' = 0
  /\ UNCHANGED <<args, finished_rounds, start, local, received, output, program>>

(* Mutant: the program goes on for ever.                                   *)
CheckNever(t) ==
  /\ Step(t, "check", "idle")
  /\ UNCHANGED <<args, count, finished_rounds, start, local, received, output, program>>

(* After enough rounds on_sample ends the program.                         *)
Check(t) ==
  /\ Step(t, "check", "idle")
  /\ running' = (finished_rounds <= max_rounds)
  /\ UNCHANGED <<args, count, finished_rounds, start, local, received, output,
                 main, overlapped>>

OnSample(t) ==
  \/ First(t) \/ Later(t) \/ CountRead(t) \/ CountWrite(t)
  \/ FinishRead(t) \/ FinishWrite(t) \/ PrintRate(t) \/ Reset(t) \/ Check(t)

Next == Declare \/ \E t \in Threads : Enter(t) \/ OnSample(t)

(* A call of on_sample that has begun goes on, and samples keep coming.    *)
Spec == Init /\ [][Next]_vars /\ WF_vars(Declare)
        /\ \A t \in Threads : WF_vars(Enter(t)) /\ WF_vars(OnSample(t))

-------------------------------------------------------------------------------
(* Correctness.                                                            *)

(* The samples that on_sample counts in a round before the one that closes *)
(* it: messages_per_round, but where that is 0 still one, for the first is *)
(* counted before count is compared.                                       *)
RoundLength == IF messages_per_round = 0 THEN 1 ELSE messages_per_round

(* Every variable has its type; count does not exceed a round's length     *)
(* while calls do not overlap.                                             *)
TypeOK ==
  /\ messages_per_round \in Numbers /\ max_rounds \in Measurements
  /\ count \in Nat /\ (~overlapped => count <= RoundLength)
  /\ finished_rounds \in Nat
  /\ start \in 0..received /\ received \in 0..MaxReceived
  /\ pc \in [Threads -> {"idle", "first", "later", "count", "counted",
                         "finish", "finished", "print", "reset", "check"}]
  /\ tmp \in [Threads -> Nat] /\ sample \in [Threads -> 0..received]
  /\ measured \subseteq -MaxReceived..MaxReceived /\ printed \in Nat
  /\ main \in {"declaring", "sleeping", "returned"}
  /\ running \in BOOLEAN /\ overlapped \in BOOLEAN

(* The rate printed for a round is messages_per_round over the time since  *)
(* start, and that is how many messages came in that time (z_sub_thr.c:148,*)
(* "Number of messages in each measurement"): for every -n but 0, and as   *)
(* long as the library calls on_sample from one thread at a time, be it    *)
(* always the same or not.                                                 *)
MeasuresRound ==
  ~overlapped /\ messages_per_round > 0 => measured \subseteq {messages_per_round}

Quiet == ~overlapped /\ \A t \in Threads : pc[t] = "idle"

(* No sample goes missing between the counters: each finished round took   *)
(* the messages it measures and the one that closed it, and count says how *)
(* far the current one is.                                                 *)
SamplesAccounted ==
  Quiet => received = finished_rounds * (RoundLength + 1) + count

(* Every finished round is printed, and the program ends with the round    *)
(* after the max_rounds-th.                                                *)
PrintsEachRound ==
  Quiet => printed = finished_rounds /\ (running <=> finished_rounds <= max_rounds)

(* Even where calls overlap, an update of finished_rounds that is lost may *)
(* make the program print more rates than it counts, never fewer: it does  *)
(* not end before max_rounds + 1 of them are printed, or about to be.      *)
CountsNoMoreThanPrinted ==
  /\ finished_rounds <= printed + Cardinality({t \in Threads : pc[t] = "print"})
  /\ ~running => finished_rounds > max_rounds

(* As long as samples keep coming, one at a time, the program ends.        *)
Ends == <>(~running \/ main = "returned" \/ overlapped)

(* z_sub_thr.c:147-148: -s is the "Number of throughput measurements", -n  *)
(* the "Number of messages in each measurement".                           *)
PrintsWhatWasAsked ==
  ~running => printed = max_rounds /\ measured \subseteq {messages_per_round}

===============================================================================
