-------------------------------- MODULE Clocks --------------------------------
(***************************************************************************)
(* NowNanos(), NowNanosUTC() and NowMicrosSteady() (include/dxu/chrono.h)   *)
(* on Linux: the monotonic clock, and an offset to the real-time clock that *)
(* ClockOffset() computes once, in the initializer of a static variable.    *)
(* The system calls of a thread are separate steps; time passes, and the    *)
(* real-time clock is set, between them.                                    *)
(***************************************************************************)
EXTENDS Integers, FiniteSets

CONSTANTS
  Threads,
  None,             \* no reading yet
  kNanosInSecond,
  kNanosInMicro,
  Word,             \* uint64_t counts modulo Word
  RealTimes,        \* what the real-time clock starts at and is set to
  MaxTime,          \* bound on the monotonic clock
  MaxCalls          \* bound on the number of calls

ASSUME ScaleAssumption ==
  /\ kNanosInMicro \in Nat \ {0} /\ kNanosInSecond \in Nat \ {0}
  /\ kNanosInSecond % kNanosInMicro = 0 /\ Word \in Nat \ {0}
  /\ RealTimes \subseteq Nat /\ MaxTime \in Nat /\ MaxCalls \in Nat

ASSUME NoneAssumption == None \notin Int /\ None \notin Threads

(* The clocks stay below 2^64 nanoseconds, which they do for centuries.     *)
ASSUME RangeAssumption == \A r \in RealTimes : r + MaxTime < Word

kMicrosInSecond == kNanosInSecond \div kNanosInMicro

VARIABLES
  mono,       \* CLOCK_MONOTONIC, in nanoseconds
  real,       \* CLOCK_REALTIME, in nanoseconds
  offset,     \* the static variable of ClockOffset(), None before its first use
  init,       \* who is in its initializer, and the real time it has read
  call,       \* call[t]: the function a thread is in
  ts,         \* ts[t]: its reading of the monotonic clock
  off,        \* off[t]: the offset it has got
  calls,      \* the number of calls so far
  result,     \* history: the latest result of each thread
  best,       \* history: the greatest result of NowNanosUTC()
  atCall,     \* history: real, mono and best when each thread's call began
  delay,      \* history: the time between the readings of the initializer
  stepped     \* history: the real-time clock has been set

vars == <<mono, real, offset, init, call, ts, off, calls, result, best, atCall,
          delay, stepped>>
clocks == <<mono, real, stepped>>
static == <<offset, init, delay>>
local == <<call, ts, off, calls, result, best, atCall>>

Nobody == [by |-> None, real |-> None, at |-> None]

Init ==
  /\ mono = 0 /\ real \in RealTimes
  /\ offset = None /\ init = Nobody
  /\ call = [t \in Threads |-> "none"]
  /\ ts = [t \in Threads |-> None] /\ off = [t \in Threads |-> None]
  /\ calls = 0
  /\ result = [t \in Threads |-> None] /\ best = None
  /\ atCall = [t \in Threads |-> [real |-> 0, mono |-> 0, best |-> None]]
  /\ delay = 0 /\ stepped = FALSE

Tick ==
  /\ mono < MaxTime
  /\ mono' = mono + 1 /\ real' = real + 1
  /\ UNCHANGED <<stepped, static, local>>

(* The real-time clock is set, forwards or backwards. *)
SetClock ==
  /\ ~stepped
  /\ real' \in RealTimes
  /\ stepped' = TRUE
  /\ UNCHANGED <<mono, static, local>>

-----------------------------------------------------------------------------
Begin(t, f) ==
  /\ call[t] = "none" /\ calls < MaxCalls
  /\ call' = [call EXCEPT ![t] = f]
  /\ calls' = calls + 1
  /\ ts' = [ts EXCEPT ![t] = None] /\ off' = [off EXCEPT ![t] = None]
  /\ result' = [result EXCEPT ![t] = None]
  /\ atCall' = [atCall EXCEPT ![t] = [real |-> real, mono |-> mono, best |-> best]]
  /\ UNCHANGED <<best, clocks, static>>

(* clock_gettime(CLOCK_MONOTONIC, &ts) of the call itself *)
ReadMono(t) ==
  /\ call[t] # "none" /\ ts[t] = None
  /\ ts' = [ts EXCEPT ![t] = mono]
  /\ UNCHANGED <<call, off, calls, result, best, atCall, clocks, static>>

(* The operands of NowNanos() + ClockOffset() come in any order; in         *)
(* NowMicrosSteady() the monotonic clock is read first, and NowNanos()      *)
(* needs no offset.                                                         *)
WantsOffset(t) ==
  /\ off[t] = None
  /\ call[t] = "utc" \/ (call[t] = "micros" /\ ts[t] # None)

(* The first two lines of the initializer; others wait until it is done.    *)
InitReal(t) ==
  /\ WantsOffset(t)
  /\ offset = None /\ init = Nobody
  /\ init' = [by |-> t, real |-> real, at |-> mono]
  /\ UNCHANGED <<offset, delay, clocks, local>>

(* Faulty variant: the clocks are subtracted the wrong way around. *)
InitMonoReversed(t) ==
  /\ init.by = t
  /\ offset' = mono - init.real
  /\ delay' = mono - init.at
  /\ init' = Nobody
  /\ UNCHANGED <<clocks, local>>

InitMono(t) ==
  /\ init.by = t
  /\ offset' = init.real - mono
  /\ delay' = mono - init.at
  /\ init' = Nobody
  /\ UNCHANGED <<clocks, local>>

(* Faulty variant: the offset is not kept. *)
GetFreshOffset(t) ==
  /\ WantsOffset(t) /\ offset # None
  /\ off' = [off EXCEPT ![t] = real - mono]
  /\ UNCHANGED <<call, ts, calls, result, best, atCall, clocks, static>>

GetOffset(t) ==
  /\ WantsOffset(t) /\ offset # None
  /\ off' = [off EXCEPT ![t] = offset]
  /\ UNCHANGED <<call, ts, calls, result, best, atCall, clocks, static>>

Return(t, r) ==
  /\ call' = [call EXCEPT ![t] = "none"]
  /\ result' = [result EXCEPT ![t] = [of |-> call[t], is |-> r]]
  /\ UNCHANGED <<ts, off, calls, atCall, clocks, static>>

NowNanos(t) ==
  /\ call[t] = "nanos" /\ ts[t] # None
  /\ Return(t, ts[t])
  /\ UNCHANGED best

NowNanosUTC(t) ==
  /\ call[t] = "utc" /\ ts[t] # None /\ off[t] # None
  /\ LET r == (ts[t] + off[t]) % Word
     IN  /\ Return(t, r)
         /\ best' = IF best = None \/ r > best THEN r ELSE best

(* Faulty variant: only the offset is divided. *)
MicrosUnbracketed(sec, nsec, o) ==
  (sec * kMicrosInSecond + nsec + (o % Word) \div kNanosInMicro) % Word

(* The sum is converted to uint64_t before it is divided. *)
Micros(sec, nsec, o) ==
  (sec * kMicrosInSecond + ((nsec + o) % Word) \div kNanosInMicro) % Word

NowMicrosSteady(t) ==
  /\ call[t] = "micros" /\ ts[t] # None /\ off[t] # None
  /\ Return(t, Micros(ts[t] \div kNanosInSecond, ts[t] % kNanosInSecond, off[t]))
  /\ UNCHANGED best

Next ==
  \/ Tick \/ SetClock
  \/ \E t \in Threads :
       \/ \E f \in {"nanos", "utc", "micros"} : Begin(t, f)
       \/ ReadMono(t) \/ InitReal(t) \/ InitMono(t) \/ GetOffset(t)
       \/ NowNanos(t) \/ NowNanosUTC(t) \/ NowMicrosSteady(t)

Spec == Init /\ [][Next]_vars

-----------------------------------------------------------------------------
Returned(t, f) == result[t] # None /\ result[t].of = f

(* Time does not run backwards: a NowNanosUTC() that begins after another   *)
(* one has returned gives no smaller value, whatever thread it runs in and  *)
(* however the real-time clock is set (chrono.h:72-92, 152).                *)
Monotonic ==
  offset # None /\ offset >= 0 =>
    \A t \in Threads : Returned(t, "utc") /\ atCall[t].best # None =>
      result[t].is >= atCall[t].best

(* While nobody sets the real-time clock, NowNanosUTC() lies between the    *)
(* real times of its call and of now, behind by no more than what the       *)
(* initializer took between its readings (chrono.h:77-80, 152).             *)
TracksRealTime ==
  ~stepped /\ offset # None /\ offset >= 0 =>
    \A t \in Threads : Returned(t, "utc") =>
      result[t].is + delay \in atCall[t].real .. real

(* NowNanosUTC() gives "nanoseconds since the UTC epoch", whether or not    *)
(* the real-time clock had been set before the call, as long as it is not   *)
(* set from the call to now (chrono.h:27, 152).                             *)
CountsFromEpoch ==
  offset # None /\ offset >= 0 =>
    \A t \in Threads :
      Returned(t, "utc") /\ atCall[t].real - atCall[t].mono = real - mono =>
        result[t].is + delay \in atCall[t].real .. real

(* NowMicrosSteady() measures time: two of its readings, in whatever        *)
(* threads, differ by the time between them, to the microsecond, from       *)
(* whatever epoch they are counted, wherever a second ends, whoever has     *)
(* initialized the offset, and although the real-time clock is set in       *)
(* between (chrono.h:72-92, 119-127).                                       *)
SteadyMeasures ==
  offset # None /\ offset >= 0 =>
    \A t, u \in Threads : Returned(t, "micros") /\ Returned(u, "micros") =>
      (result[t].is - result[u].is) * kNanosInMicro - (ts[t] - ts[u])
        \in 1 - kNanosInMicro .. kNanosInMicro - 1

(* Of two readings of NowMicrosSteady() the later one is not smaller,       *)
(* whatever the offset: the monotonic clock is read because "gettimeofday() *)
(* is not monotonic" (chrono.h:124, 126).                                   *)
SteadyNeverBack ==
  \A t, u \in Threads :
    Returned(t, "micros") /\ Returned(u, "micros") /\ ts[t] <= ts[u] =>
      result[t].is <= result[u].is

(* NowMicrosSteady() gives "microseconds since the Steady Clock epoch"      *)
(* (chrono.h:21, 125-126).                                                  *)
SinceSteadyEpoch ==
  \A t \in Threads : Returned(t, "micros") => result[t].is = ts[t] \div kNanosInMicro
=============================================================================
