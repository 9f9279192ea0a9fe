----------------------------- MODULE ClocksProofs -----------------------------
(***************************************************************************)
(* What TLAPS proves of Clocks for any number of threads, any number of     *)
(* calls and any times below the width of the counter.                      *)
(***************************************************************************)
EXTENDS Clocks, Arithmetic

CallNames == {"none", "nanos", "utc", "micros"}

TypeOK ==
  /\ mono \in 0 .. MaxTime /\ real \in Nat
  /\ offset \in Int \cup {None} /\ delay \in Int /\ stepped \in BOOLEAN
  /\ init \in [by : Threads, real : Nat, at : Nat] \cup {Nobody}
  /\ call \in [Threads -> CallNames]
  /\ ts \in [Threads -> Nat \cup {None}]
  /\ off \in [Threads -> Int \cup {None}]
  /\ calls \in Nat
  /\ result \in [Threads -> [of : CallNames, is : Int] \cup {None}]
  /\ best \in Int \cup {None}
  /\ atCall \in [Threads -> [real : Nat, mono : Nat, best : Int \cup {None}]]

(* The initializer runs once; the offset is no more than a real time that   *)
(* the clock was set to, so that no sum reaches Word.                       *)
OffsetBounded ==
  /\ \E r \in RealTimes : real <= r + mono
  /\ init # Nobody =>
       /\ offset = None /\ init.at <= mono
       /\ \E r \in RealTimes : init.real <= r + init.at
  /\ offset # None => \E r \in RealTimes : offset <= r

(* A thread reads the monotonic clock during its call, and every thread has *)
(* got the same offset.                                                     *)
ReadingsInOrder ==
  \A t \in Threads :
    /\ atCall[t].mono <= mono
    /\ ts[t] # None => atCall[t].mono <= ts[t] /\ ts[t] <= mono
    /\ off[t] # None => offset # None /\ off[t] = offset

(* What a function returns of what its thread has read. *)
Sum(f, r, o) ==
  IF f = "utc" THEN (r + o) % Word
  ELSE Micros(r \div kNanosInSecond, r % kNanosInSecond, o)

(* A result is the sum of what the thread has read.                         *)
ResultsAreSums ==
  \A t \in Threads, f \in {"utc", "micros"} :
    Returned(t, f) =>
      ts[t] # None /\ off[t] # None /\ result[t].is = Sum(f, ts[t], off[t])

(* No result is ahead of the clocks, neither now nor when a call began.     *)
BestBounded ==
  /\ best # None => offset # None /\ (offset >= 0 => best <= mono + offset)
  /\ \A t \in Threads :
       atCall[t].best # None =>
         offset # None /\ (offset >= 0 => atCall[t].best <= atCall[t].mono + offset)

(* Until the real-time clock is set the two clocks keep their distance.     *)
SameDistance ==
  ~stepped =>
    /\ \A t \in Threads :
         call[t] # "none" \/ result[t] # None =>
           atCall[t].real - atCall[t].mono = real - mono
    /\ init # Nobody => init.real - init.at = real - mono
    /\ offset # None => offset + delay = real - mono

ClockInv ==
  /\ TypeOK /\ OffsetBounded /\ ReadingsInOrder
  /\ ResultsAreSums /\ BestBounded /\ SameDistance

-----------------------------------------------------------------------------
(* Remainders and quotients are integers. *)
LEMMA MicrosIsInteger ==
  ASSUME NEW sec \in Int, NEW nsec \in Int, NEW o \in Int
  PROVE  Micros(sec, nsec, o) \in Int
<1>1. kMicrosInSecond \in Int
  BY ScaleAssumption DEF kMicrosInSecond
<1>2. ((nsec + o) % Word) \in Int
  BY ScaleAssumption
<1>3. ((nsec + o) % Word) \div kNanosInMicro \in Int
  BY <1>2, ScaleAssumption
<1>4. sec * kMicrosInSecond \in Int
  BY <1>1
<1> QED BY <1>3, <1>4, ScaleAssumption DEF Micros

(* Dividing seconds and nanoseconds apart loses no microsecond. *)
LEMMA MicrosExact ==
  ASSUME NEW r \in Nat, NEW o \in Nat, r + o < Word
  PROVE  Micros(r \div kNanosInSecond, r % kNanosInSecond, o) = (r + o) \div kNanosInMicro
<1> DEFINE sec == r \div kNanosInSecond
           nsec == r % kNanosInSecond
           a == sec * kMicrosInSecond
           q == (r + o) \div kNanosInMicro
<1>1. sec \in Int /\ nsec \in Nat /\ r = sec * kNanosInSecond + nsec
  BY ScaleAssumption, DivisionLaw
<1>2. kMicrosInSecond \in Int /\ kNanosInSecond = kMicrosInSecond * kNanosInMicro
  BY ScaleAssumption, DivisionLaw DEF kMicrosInSecond
<1>3. sec \in Nat
  BY ScaleAssumption DEF sec
<1> HIDE DEF sec, nsec
<1>4. nsec + o \in Nat /\ nsec + o < Word
  <2>1. sec * kNanosInSecond \in Nat
    BY <1>3, ScaleAssumption
  <2> QED BY <1>1, <2>1, ScaleAssumption
<1>5. (nsec + o) % Word = nsec + o
  BY <1>4, SmallRemainder, ScaleAssumption
<1>6. a \in Int /\ r + o = a * kNanosInMicro + (nsec + o)
  BY <1>1, <1>2, <1>3, ScaleAssumption
<1> HIDE DEF a
<1>7. q = a + (nsec + o) \div kNanosInMicro
  <2> DEFINE b == nsec + o
  <2>1. a \in Int /\ b \in Int /\ kNanosInMicro \in Nat \ {0}
    BY <1>4, <1>6, ScaleAssumption
  <2> HIDE DEF b
  <2>2. (a * kNanosInMicro + b) \div kNanosInMicro = a + b \div kNanosInMicro
    BY <2>1, DivShift
  <2> QED BY <1>6, <2>2 DEF b
<1>8. q \in Nat /\ q < Word
  BY DivisionLaw, ScaleAssumption
<1> HIDE DEF q
<1>9. q % Word = q
  BY <1>8, SmallRemainder, ScaleAssumption
<1> QED BY <1>5, <1>7, <1>9 DEF Micros, a, q, sec, nsec

(* What has been read adds up to less than Word. *)
LEMMA NoWrap ==
  ASSUME TypeOK, OffsetBounded, ReadingsInOrder, offset >= 0,
         NEW t \in Threads, ts[t] # None, off[t] # None
  PROVE  /\ off[t] = offset /\ offset \in Nat /\ ts[t] \in Nat
         /\ ts[t] + offset < Word /\ (ts[t] + off[t]) % Word = ts[t] + offset
<1>1. offset # None /\ off[t] = offset /\ ts[t] <= mono
  BY DEF ReadingsInOrder
<1>2. offset \in Nat /\ ts[t] \in Nat /\ mono \in Nat /\ mono <= MaxTime
  BY <1>1, NoneAssumption, ScaleAssumption DEF TypeOK
<1>3. PICK r \in RealTimes : offset <= r
  BY <1>1 DEF OffsetBounded
<1>4. ts[t] + offset < Word
  BY <1>1, <1>2, <1>3, RangeAssumption, ScaleAssumption
<1>5. ts[t] + offset \in Nat /\ (ts[t] + offset) % Word = ts[t] + offset
  BY <1>2, <1>4, SmallRemainder, ScaleAssumption, SMTT(30)
<1> QED BY <1>1, <1>2, <1>4, <1>5

(* Every step keeps every variable in its type. *)
LEMMA TypeStep == TypeOK /\ OffsetBounded /\ [Next]_vars => TypeOK'
<1> SUFFICES ASSUME TypeOK, OffsetBounded, [Next]_vars
             PROVE  TypeOK'
  OBVIOUS
<1> USE ScaleAssumption, NoneAssumption DEF TypeOK, CallNames, clocks, static, local
<1>1. CASE UNCHANGED vars
  BY <1>1 DEF vars
<1>2. CASE Tick
  <2>1. mono' \in 0 .. MaxTime /\ real' \in Nat /\ UNCHANGED <<stepped, static, local>>
    BY <1>2 DEF Tick
  <2> QED BY <2>1
<1>3. CASE SetClock
  <2>1. real' \in Nat /\ stepped' \in BOOLEAN /\ UNCHANGED <<mono, static, local>>
    BY <1>3 DEF SetClock
  <2> QED BY <2>1
<1>4. ASSUME NEW t \in Threads, NEW f \in {"nanos", "utc", "micros"}, Begin(t, f)
      PROVE  TypeOK'
  BY <1>4 DEF Begin
<1>5. ASSUME NEW t \in Threads, ReadMono(t) \/ InitReal(t) \/ GetOffset(t)
      PROVE  TypeOK'
  BY <1>5 DEF ReadMono, InitReal, GetOffset
<1>6. ASSUME NEW t \in Threads, InitMono(t) PROVE TypeOK'
  <2>1. init \in [by : Threads, real : Nat, at : Nat]
    BY <1>6 DEF InitMono, Nobody
  <2> QED BY <1>6, <2>1 DEF InitMono
<1>7. ASSUME NEW t \in Threads, NowNanos(t) PROVE TypeOK'
  BY <1>7 DEF NowNanos, Return
<1>8. ASSUME NEW t \in Threads, NowNanosUTC(t) PROVE TypeOK'
  <2>1. (ts[t] + off[t]) % Word \in Int
    BY <1>8 DEF NowNanosUTC
  <2> QED BY <1>8, <2>1 DEF NowNanosUTC, Return
<1>9. ASSUME NEW t \in Threads, NowMicrosSteady(t) PROVE TypeOK'
  <2>1. ts[t] \div kNanosInSecond \in Int /\ ts[t] % kNanosInSecond \in Int
    BY <1>9 DEF NowMicrosSteady
  <2>2. Micros(ts[t] \div kNanosInSecond, ts[t] % kNanosInSecond, off[t]) \in Int
    BY <1>9, <2>1, MicrosIsInteger DEF NowMicrosSteady
  <2> QED BY <1>9, <2>2 DEF NowMicrosSteady, Return
<1> QED BY <1>1, <1>2, <1>3, <1>4, <1>5, <1>6, <1>7, <1>8, <1>9 DEF Next

LEMMA OffsetStep == ClockInv /\ [Next]_vars => OffsetBounded'
<1> SUFFICES ASSUME ClockInv, [Next]_vars
             PROVE  OffsetBounded'
  OBVIOUS
<1> USE ScaleAssumption, NoneAssumption DEF OffsetBounded, clocks, static, local
<1>t. mono \in Nat /\ real \in Nat /\ OffsetBounded /\ TypeOK
  BY DEF ClockInv, TypeOK
<1>1. CASE UNCHANGED <<clocks, static>>
  BY <1>1, <1>t
<1>2. CASE Tick
  <2>1. PICK r \in RealTimes : real <= r + mono
    BY <1>t
  <2>2. mono' = mono + 1 /\ real' = real + 1 /\ UNCHANGED static
    BY <1>2 DEF Tick
  <2>3. real' <= r + mono'
    BY <1>t, <2>1, <2>2
  <2>4. init # Nobody => init.at <= mono'
    BY <1>t, <2>2 DEF TypeOK
  <2> QED BY <1>t, <2>2, <2>3, <2>4
<1>3. CASE SetClock
  <2>1. real' \in RealTimes /\ UNCHANGED <<mono, static>>
    BY <1>3 DEF SetClock
  <2>2. real' \in Nat /\ mono' \in Nat
    BY <1>t, <2>1
  <2>3. \E r \in RealTimes : real' <= r + mono'
    BY <2>1, <2>2
  <2> QED BY <1>t, <2>1, <2>3
<1>4. ASSUME NEW t \in Threads, InitReal(t) PROVE OffsetBounded'
  BY <1>4, <1>t DEF InitReal
<1>5. ASSUME NEW t \in Threads, InitMono(t) PROVE OffsetBounded'
  <2>1. init # Nobody
    BY <1>5 DEF InitMono, Nobody
  <2>2. PICK r \in RealTimes : init.real <= r + init.at
    BY <1>t, <2>1
  <2>3. init.real \in Nat /\ init.at \in Nat /\ init.at <= mono
    BY <1>t, <2>1 DEF TypeOK
  <2>4. offset' = init.real - mono /\ init' = Nobody /\ UNCHANGED clocks
    BY <1>5 DEF InitMono
  <2>5. offset' <= r
    BY <1>t, <2>2, <2>3, <2>4
  <2> QED BY <1>t, <2>4, <2>5
<1> QED BY <1>1, <1>2, <1>3, <1>4, <1>5 DEF Next, vars, Begin, ReadMono, GetOffset,
           NowNanos, NowNanosUTC, NowMicrosSteady, Return

LEMMA ReadingsStep == ClockInv /\ [Next]_vars => ReadingsInOrder'
<1> SUFFICES ASSUME ClockInv, [Next]_vars
             PROVE  ReadingsInOrder'
  OBVIOUS
<1> USE ScaleAssumption, NoneAssumption DEF ReadingsInOrder, clocks, static, local
<1>t. mono \in Nat /\ ReadingsInOrder /\ TypeOK /\ OffsetBounded
  BY DEF ClockInv, TypeOK
<1>1. CASE UNCHANGED <<mono, offset, ts, off, atCall>>
  BY <1>1, <1>t
<1>2. CASE Tick
  <2>1. mono' = mono + 1 /\ UNCHANGED <<offset, ts, off, atCall>>
    BY <1>2 DEF Tick
  <2> QED BY <1>t, <2>1 DEF TypeOK
<1>3. ASSUME NEW t \in Threads, NEW f \in {"nanos", "utc", "micros"}, Begin(t, f)
      PROVE  ReadingsInOrder'
  BY <1>3, <1>t DEF Begin, TypeOK
<1>4. ASSUME NEW t \in Threads, ReadMono(t) PROVE ReadingsInOrder'
  BY <1>4, <1>t DEF ReadMono, TypeOK
<1>5. ASSUME NEW t \in Threads, InitMono(t) PROVE ReadingsInOrder'
  <2>1. offset = None
    BY <1>5, <1>t DEF InitMono, Nobody, OffsetBounded
  <2> QED BY <1>5, <1>t, <2>1 DEF InitMono
<1>6. ASSUME NEW t \in Threads, GetOffset(t) PROVE ReadingsInOrder'
  BY <1>6, <1>t DEF GetOffset, TypeOK
<1> QED BY <1>1, <1>2, <1>3, <1>4, <1>5, <1>6 DEF Next, vars, SetClock, InitReal,
           NowNanos, NowNanosUTC, NowMicrosSteady, Return

LEMMA ResultsStep == ClockInv /\ [Next]_vars => ResultsAreSums'
<1> SUFFICES ASSUME ClockInv, [Next]_vars
             PROVE  ResultsAreSums'
  OBVIOUS
<1> USE DEF ResultsAreSums, Returned, clocks, static, local
<1>t. ResultsAreSums /\ TypeOK
  BY DEF ClockInv
<1>1. CASE UNCHANGED <<ts, off, result>>
  BY <1>1, <1>t
<1>2. ASSUME NEW t \in Threads, NEW f \in {"nanos", "utc", "micros"}, Begin(t, f)
      PROVE  ResultsAreSums'
  BY <1>2, <1>t DEF Begin, TypeOK
<1>3. ASSUME NEW t \in Threads, ReadMono(t) \/ GetOffset(t) PROVE ResultsAreSums'
  BY <1>3, <1>t DEF ReadMono, GetOffset, WantsOffset, TypeOK
<1>4. ASSUME NEW t \in Threads, NEW r,
             UNCHANGED <<ts, off>>,
             result' = [result EXCEPT ![t] = [of |-> call[t], is |-> r]],
             call[t] \in {"utc", "micros"} =>
               ts[t] # None /\ off[t] # None /\ r = Sum(call[t], ts[t], off[t])
      PROVE  ResultsAreSums'
  <2> SUFFICES ASSUME NEW u \in Threads, NEW f \in {"utc", "micros"}, Returned(u, f)'
               PROVE  /\ ts[u] # None /\ off[u] # None
                      /\ result'[u].is = Sum(f, ts[u], off[u])
    BY <1>4
  <2>1. CASE u = t
    BY <1>4, <2>1, <1>t DEF TypeOK
  <2>2. CASE u # t
    BY <1>4, <2>2, <1>t DEF TypeOK
  <2> QED BY <2>1, <2>2
<1>5. ASSUME NEW t \in Threads, NowNanos(t) \/ NowNanosUTC(t) \/ NowMicrosSteady(t)
      PROVE  ResultsAreSums'
  <2>1. CASE NowNanos(t)
    BY <2>1, <1>4 DEF NowNanos, Return
  <2>2. CASE NowNanosUTC(t)
    BY <2>2, <1>4 DEF NowNanosUTC, Return, Sum
  <2>3. CASE NowMicrosSteady(t)
    BY <2>3, <1>4 DEF NowMicrosSteady, Return, Sum
  <2> QED BY <1>5, <2>1, <2>2, <2>3
<1> QED BY <1>1, <1>2, <1>3, <1>5 DEF Next, vars, Tick, SetClock, InitReal, InitMono

(* The greatest result is that of a sum that was not ahead of the clocks.   *)
LEMMA BestStep == ClockInv /\ [Next]_vars => BestBounded'
<1> SUFFICES ASSUME ClockInv, [Next]_vars
             PROVE  BestBounded'
  OBVIOUS
<1> USE ScaleAssumption, NoneAssumption DEF BestBounded, clocks, static, local
<1>t. TypeOK /\ OffsetBounded /\ ReadingsInOrder /\ BestBounded
  BY DEF ClockInv
<1>1. CASE UNCHANGED <<mono, offset, best, atCall>>
  BY <1>1, <1>t
<1>2. CASE Tick
  <2>1. mono' = mono + 1 /\ UNCHANGED <<offset, best, atCall>>
    BY <1>2 DEF Tick
  <2>2. mono \in Nat /\ best \in Int \cup {None} /\ offset \in Int \cup {None}
    BY <1>t DEF TypeOK
  <2> QED BY <1>t, <2>1, <2>2
<1>3. ASSUME NEW t \in Threads, NEW f \in {"nanos", "utc", "micros"}, Begin(t, f)
      PROVE  BestBounded'
  <2>1. /\ atCall' = [atCall EXCEPT ![t] = [real |-> real, mono |-> mono, best |-> best]]
        /\ UNCHANGED <<mono, offset, best>>
    BY <1>3 DEF Begin
  <2>2. \A u \in Threads : atCall'[u] =
          IF u = t THEN [real |-> real, mono |-> mono, best |-> best] ELSE atCall[u]
    BY <2>1, <1>t DEF TypeOK
  <2> QED BY <1>t, <2>1, <2>2
<1>4. ASSUME NEW t \in Threads, InitMono(t) PROVE BestBounded'
  <2>1. offset = None
    BY <1>4, <1>t DEF InitMono, Nobody, OffsetBounded
  <2>2. best = None /\ \A u \in Threads : atCall[u].best = None
    BY <2>1, <1>t
  <2> QED BY <1>4, <2>2 DEF InitMono
<1>5. ASSUME NEW t \in Threads, NowNanosUTC(t) PROVE BestBounded'
  <2> DEFINE r == (ts[t] + off[t]) % Word
  <2>1. /\ ts[t] # None /\ off[t] # None /\ UNCHANGED <<mono, offset, atCall>>
        /\ best' = IF best = None \/ r > best THEN r ELSE best
    BY <1>5 DEF NowNanosUTC, Return
  <2>2. offset # None
    BY <2>1, <1>t DEF ReadingsInOrder
  <2>3. offset >= 0 => r <= mono + offset
    <3> SUFFICES ASSUME offset >= 0 PROVE r <= mono + offset
      OBVIOUS
    <3>1. offset \in Nat /\ ts[t] \in Nat /\ r = ts[t] + offset
      BY <2>1, <1>t, NoWrap
    <3>2. ts[t] <= mono /\ mono \in Nat
      BY <2>1, <1>t DEF ReadingsInOrder, TypeOK
    <3> HIDE DEF r
    <3> QED BY <3>1, <3>2
  <2> HIDE DEF r
  <2>4. best' # None => (offset >= 0 => best' <= mono + offset)
    BY <2>1, <2>3, <1>t
  <2> QED BY <2>1, <2>2, <2>4, <1>t
<1> QED BY <1>1, <1>2, <1>3, <1>4, <1>5 DEF Next, vars, SetClock, ReadMono, InitReal,
           GetOffset, NowNanos, NowMicrosSteady, Return

LEMMA DistanceStep == ClockInv /\ [Next]_vars => SameDistance'
<1> SUFFICES ASSUME ClockInv, [Next]_vars
             PROVE  SameDistance'
  OBVIOUS
<1> USE NoneAssumption, ScaleAssumption DEF SameDistance, clocks, static, local
<1>t. TypeOK /\ OffsetBounded /\ SameDistance
  BY DEF ClockInv
<1>1. CASE UNCHANGED <<clocks, static, call, result, atCall>>
  BY <1>1, <1>t
<1>2. CASE Tick
  <2>1. /\ mono' = mono + 1 /\ real' = real + 1
        /\ UNCHANGED <<stepped, static, call, result, atCall>>
    BY <1>2 DEF Tick
  <2>2. mono \in Nat /\ real \in Nat /\ real' - mono' = real - mono
    BY <1>t, <2>1 DEF TypeOK
  <2> QED BY <1>t, <2>1, <2>2
<1>3. CASE SetClock
  BY <1>3 DEF SetClock
<1>4. ASSUME NEW t \in Threads, NEW f \in {"nanos", "utc", "micros"}, Begin(t, f)
      PROVE  SameDistance'
  <2>1. /\ atCall' = [atCall EXCEPT ![t] = [real |-> real, mono |-> mono, best |-> best]]
        /\ call' = [call EXCEPT ![t] = f] /\ result' = [result EXCEPT ![t] = None]
        /\ UNCHANGED <<clocks, static>>
    BY <1>4 DEF Begin
  <2>2. \A u \in Threads :
          /\ u = t => atCall'[u].real = real /\ atCall'[u].mono = mono
          /\ u # t => /\ atCall'[u] = atCall[u]
                      /\ call'[u] = call[u] /\ result'[u] = result[u]
    BY <2>1, <1>t DEF TypeOK
  <2> QED BY <1>t, <2>1, <2>2
<1>5. ASSUME NEW t \in Threads, InitReal(t) PROVE SameDistance'
  <2>1. init' = [by |-> t, real |-> real, at |-> mono]
        /\ UNCHANGED <<clocks, local, offset, delay>>
    BY <1>5 DEF InitReal
  <2> QED BY <1>t, <2>1
<1>6. ASSUME NEW t \in Threads, InitMono(t) PROVE SameDistance'
  <2>1. init # Nobody
    BY <1>6 DEF InitMono, Nobody
  <2>2. init.real \in Nat /\ init.at \in Nat /\ mono \in Nat /\ real \in Nat
    BY <1>t, <2>1 DEF TypeOK
  <2>3. /\ offset' = init.real - mono /\ delay' = mono - init.at /\ init' = Nobody
        /\ UNCHANGED <<clocks, local>>
    BY <1>6 DEF InitMono
  <2>4. offset' + delay' = init.real - init.at
    BY <2>2, <2>3
  <2> QED BY <1>t, <2>1, <2>3, <2>4
<1>7. ASSUME NEW t \in Threads, NowNanos(t) \/ NowNanosUTC(t) \/ NowMicrosSteady(t)
      PROVE  SameDistance'
  <2>1. call[t] # "none" /\ UNCHANGED <<atCall, clocks, static>>
    BY <1>7 DEF NowNanos, NowNanosUTC, NowMicrosSteady, Return
  <2>2. PICK r : /\ call' = [call EXCEPT ![t] = "none"]
                 /\ result' = [result EXCEPT ![t] = [of |-> call[t], is |-> r]]
    BY <1>7 DEF NowNanos, NowNanosUTC, NowMicrosSteady, Return
  <2>3. \A u \in Threads :
          u # t => call'[u] = call[u] /\ result'[u] = result[u]
    BY <2>2, <1>t DEF TypeOK
  <2> QED BY <1>t, <2>1, <2>3
<1> QED BY <1>1, <1>2, <1>3, <1>4, <1>5, <1>6, <1>7 DEF Next, vars, ReadMono, GetOffset

-----------------------------------------------------------------------------
LEMMA ClockInit == Init => ClockInv
<1> SUFFICES ASSUME Init PROVE ClockInv
  OBVIOUS
<1> USE ScaleAssumption DEF Init
<1>1. TypeOK
  <2>1. mono \in 0 .. MaxTime /\ real \in Nat /\ delay \in Int /\ calls \in Nat
    OBVIOUS
  <2>2. offset = None /\ init = Nobody /\ best = None /\ stepped \in BOOLEAN
    OBVIOUS
  <2>3. call \in [Threads -> CallNames]
    BY DEF CallNames
  <2>4. /\ ts \in [Threads -> Nat \cup {None}] /\ off \in [Threads -> Int \cup {None}]
        /\ result \in [Threads -> [of : CallNames, is : Int] \cup {None}]
    OBVIOUS
  <2>5. atCall \in [Threads -> [real : Nat, mono : Nat, best : Int \cup {None}]]
    OBVIOUS
  <2> QED BY <2>1, <2>2, <2>3, <2>4, <2>5 DEF TypeOK
<1>2. OffsetBounded
  <2>1. real \in RealTimes /\ real \in Nat /\ mono = 0
    OBVIOUS
  <2>2. \E r \in RealTimes : real <= r + mono
    BY <2>1
  <2> QED BY <2>2 DEF OffsetBounded
<1>3. ReadingsInOrder
  BY DEF ReadingsInOrder
<1>4. ResultsAreSums /\ BestBounded
  BY DEF ResultsAreSums, Returned, BestBounded
<1>5. SameDistance
  BY DEF SameDistance
<1> QED BY <1>1, <1>2, <1>3, <1>4, <1>5 DEF ClockInv

LEMMA ClockInvariant == Spec => []ClockInv
<1>1. ClockInv /\ [Next]_vars => ClockInv'
  BY TypeStep, OffsetStep, ReadingsStep, ResultsStep, BestStep, DistanceStep DEF ClockInv
<1> QED BY ClockInit, <1>1, PTL DEF Spec

-----------------------------------------------------------------------------
(* Whatever the number of threads, wherever their calls interleave and      *)
(* however the real-time clock is set while they run, a NowNanosUTC() that  *)
(* begins after another has returned gives no smaller value: all of them    *)
(* add the one offset that ClockOffset() keeps to a clock that never goes   *)
(* back (chrono.h:72-92, 152).                                              *)
THEOREM MonotonicTime == Spec => []Monotonic
<1>1. ClockInv => Monotonic
  <2> SUFFICES ASSUME ClockInv, offset # None, offset >= 0, NEW t \in Threads,
                      Returned(t, "utc"), atCall[t].best # None
               PROVE  result[t].is >= atCall[t].best
    BY DEF Monotonic
  <2>1. ts[t] # None /\ off[t] # None /\ result[t].is = (ts[t] + off[t]) % Word
    BY DEF ClockInv, ResultsAreSums, Sum
  <2>2. result[t].is = ts[t] + offset /\ offset \in Nat /\ ts[t] \in Nat
    BY <2>1, NoWrap DEF ClockInv
  <2>3. atCall[t].best <= atCall[t].mono + offset /\ atCall[t].mono <= ts[t]
    BY <2>1 DEF ClockInv, BestBounded, ReadingsInOrder
  <2>4. atCall[t].best \in Int /\ atCall[t].mono \in Nat
    BY DEF ClockInv, TypeOK
  <2> QED BY <2>2, <2>3, <2>4
<1> QED BY ClockInvariant, <1>1, PTL

(* While nobody sets the real-time clock, a NowNanosUTC() of any thread     *)
(* lies between the real times of its call and of now, behind by no more    *)
(* than what the initializer of ClockOffset() took between its two readings *)
(* (chrono.h:77-80, 152).                                                   *)
THEOREM TracksTime == Spec => []TracksRealTime
<1>1. ClockInv => TracksRealTime
  <2> SUFFICES ASSUME ClockInv, ~stepped, offset # None, offset >= 0,
                      NEW t \in Threads, Returned(t, "utc")
               PROVE  result[t].is + delay \in atCall[t].real .. real
    BY DEF TracksRealTime
  <2>1. ts[t] # None /\ off[t] # None /\ result[t].is = (ts[t] + off[t]) % Word
    BY DEF ClockInv, ResultsAreSums, Sum
  <2>2. result[t].is = ts[t] + offset /\ offset \in Nat /\ ts[t] \in Nat
    BY <2>1, NoWrap DEF ClockInv
  <2>3. atCall[t].mono <= ts[t] /\ ts[t] <= mono
    BY <2>1 DEF ClockInv, ReadingsInOrder
  <2>4. /\ offset + delay = real - mono
        /\ atCall[t].real - atCall[t].mono = real - mono
    BY DEF ClockInv, SameDistance, Returned
  <2>5. /\ atCall[t].real \in Nat /\ atCall[t].mono \in Nat /\ delay \in Int
        /\ mono \in Nat /\ real \in Nat
    BY DEF ClockInv, TypeOK
  <2> QED BY <2>2, <2>3, <2>4, <2>5
<1> QED BY ClockInvariant, <1>1, PTL

(* Two readings of NowMicrosSteady(), in any threads and at any times,      *)
(* differ by the time between them, to the microsecond, whatever the        *)
(* scales: all threads add the same offset, and the seconds and nanoseconds *)
(* that are treated apart lose none, while the offset is not negative       *)
(* (chrono.h:72-92, 119-127).                                               *)
THEOREM SteadyTimeMeasures == Spec => []SteadyMeasures
<1>1. ASSUME ClockInv, offset # None, offset >= 0,
             NEW t \in Threads, Returned(t, "micros")
      PROVE  /\ ts[t] + offset \in Nat /\ ts[t] \in Nat /\ offset \in Nat
             /\ result[t].is = (ts[t] + offset) \div kNanosInMicro
  <2>1. /\ ts[t] # None /\ off[t] # None
        /\ result[t].is
             = Micros(ts[t] \div kNanosInSecond, ts[t] % kNanosInSecond, off[t])
    BY <1>1 DEF ClockInv, ResultsAreSums, Sum
  <2>2. ts[t] \in Nat /\ offset \in Nat /\ off[t] = offset /\ ts[t] + off[t] < Word
    BY <1>1, <2>1, NoWrap DEF ClockInv
  <2> QED BY <2>1, <2>2, MicrosExact
<1>2. ASSUME NEW a \in Nat, NEW b \in Nat
      PROVE  ((a \div kNanosInMicro) - (b \div kNanosInMicro)) * kNanosInMicro - (a - b)
               \in 1 - kNanosInMicro .. kNanosInMicro - 1
  <2> DEFINE k == kNanosInMicro
             p == a \div k
             q == b \div k
             r == a % k
             s == b % k
  <2>1. k \in Nat \ {0}
    BY ScaleAssumption
  <2>2. p \in Int /\ r \in 0 .. k - 1 /\ a = p * k + r
    <3> HIDE DEF k
    <3> QED BY <2>1, DivisionLaw
  <2>3. q \in Int /\ s \in 0 .. k - 1 /\ b = q * k + s
    <3> HIDE DEF k
    <3> QED BY <2>1, DivisionLaw
  <2> HIDE DEF p, q, k, r, s
  <2>4. (p - q) * k - (a - b) = s - r
    BY <2>1, <2>2, <2>3
  <2>5. (p - q) * k - (a - b) \in 1 - k .. k - 1
    <3> DEFINE d == (p - q) * k - (a - b)
    <3>1. d = s - r
      BY <2>4
    <3> HIDE DEF d
    <3>2. d \in 1 - k .. k - 1
      BY <2>1, <2>2, <2>3, <3>1
    <3> QED BY <3>2 DEF d
  <2> QED BY <2>5 DEF p, q, k
<1>3. ClockInv => SteadyMeasures
  <2> SUFFICES ASSUME ClockInv, offset # None, offset >= 0, NEW t \in Threads,
                      NEW u \in Threads, Returned(t, "micros"), Returned(u, "micros")
               PROVE  (result[t].is - result[u].is) * kNanosInMicro - (ts[t] - ts[u])
                        \in 1 - kNanosInMicro .. kNanosInMicro - 1
    BY DEF SteadyMeasures
  <2> DEFINE a == ts[t] + offset
             b == ts[u] + offset
  <2>1. /\ a \in Nat /\ result[t].is = a \div kNanosInMicro
        /\ b \in Nat /\ result[u].is = b \div kNanosInMicro
    BY <1>1
  <2>2. ts[t] - ts[u] = a - b
    BY <1>1
  <2> HIDE DEF a, b
  <2> QED BY <1>2, <2>1, <2>2
<1> QED BY ClockInvariant, <1>3, PTL
=============================================================================
