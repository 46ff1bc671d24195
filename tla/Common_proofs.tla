--------------------------- MODULE Common_proofs ---------------------------
(***************************************************************************)
(* What the pure functions of src/src/common and src/demo/utils.h compute; *)
(* who owns a timer, for any wrappers and timers (TimerWrapper), and which *)
(* function it calls, for any functions (TimerFuncs).                      *)
(***************************************************************************)
EXTENDS DateTime, GuidBits, Strto, Uuid, TimerWrapper, TimerFuncs, TLAPS

-----------------------------------------------------------------------------
(* DateTime                                                                *)

\* GetDayStartTime (datetime.h:84) returns the last time not after the given
\* one at which a day begins in the time zone, for all times since the epoch.
THEOREM DayContainsTime ==
  ASSUME NEW time \in Int, NEW offset \in Int, NEW tz \in Int, time + tz - offset >= 0
  PROVE  LET start == GetDayStartTime(time, offset, tz)
         IN /\ start \in Int
            /\ start <= time /\ time < start + SECOND_PER_DAY
            /\ ((start + tz) - offset) % SECOND_PER_DAY = 0
<1> DEFINE n == (time + (tz - offset)) \div 86400
<1>1. SECOND_PER_DAY = 86400
  BY SMT DEF SECOND_PER_DAY, SECOND_PER_HOUR
<1>2. StartOf(time, 86400, tz - offset) = n * 86400 - (tz - offset)
  BY SMT DEF StartOf, Quotient
<1>3. n \in Int /\ n * 86400 <= time + tz - offset /\ time + tz - offset < n * 86400 + 86400
  BY SMT
<1> HIDE DEF n
<1> QED BY SMT, <1>1, <1>2, <1>3 DEF GetDayStartTime

\* GetWeekStartTime (datetime.h:89) returns the beginning of a Monday, as the
\* comment of kUnixWeekdayOffset (datetime.h:12) has it, of the same week.
THEOREM WeekBeginsOnMonday ==
  ASSUME NEW time \in Int, NEW offset \in Int, NEW tz \in Int, time + tz - offset >= 0
  PROVE  LET start == GetWeekStartTime(time, offset, tz)
         IN /\ start <= time /\ time < start + SECOND_PER_WEEK
            /\ ((start + tz) - offset) % SECOND_PER_DAY = 0
            /\ (((start + tz) - offset) \div SECOND_PER_DAY) % 7 = 4
<1> DEFINE shift == tz - offset + 259200
           n     == (time + shift) \div 604800
<1>1. SECOND_PER_DAY = 86400 /\ SECOND_PER_WEEK = 604800 /\ kUnixWeekdayOffset = 259200
  BY SMT DEF SECOND_PER_DAY, SECOND_PER_HOUR, SECOND_PER_WEEK, kUnixWeekdayOffset
<1>2. StartOf(time, 604800, shift) = n * 604800 - shift
  BY SMT DEF StartOf, Quotient
<1>3. n \in Int /\ n * 604800 <= time + shift /\ time + shift < n * 604800 + 604800
  BY SMT
<1>4. GetWeekStartTime(time, offset, tz) = n * 604800 - shift
  BY SMT, <1>1, <1>2 DEF GetWeekStartTime
<1> HIDE DEF n
<1> QED BY SMT, <1>1, <1>3, <1>4

\* GetPassedDay (datetime.h:95) is 0 within a day, in the sense of IsSameDay,
\* and counts at least one where IsPassDay holds.
THEOREM PassedDaysAgree ==
  ASSUME NEW begin \in Int, NEW cur \in Int, NEW offset \in Int, NEW tz \in Int,
         begin < cur, begin + tz - offset >= 0
  PROVE  /\ GetPassedDay(begin, cur, offset, tz) \in Nat
         /\ GetPassedDay(begin, cur, offset, tz) = 0 <=> IsSameDay(cur, begin, offset, tz)
         /\ GetPassedDay(begin, cur, offset, tz) > 0 <=> IsPassDay(cur, begin, offset, tz)
<1> DEFINE n == (begin + (tz - offset)) \div 86400
           m == (cur + (tz - offset)) \div 86400
<1>1. SECOND_PER_DAY = 86400
  BY SMT DEF SECOND_PER_DAY, SECOND_PER_HOUR
<1>2. /\ StartOf(begin, 86400, tz - offset) = n * 86400 - (tz - offset)
      /\ n \in Nat /\ n * 86400 <= begin + tz - offset /\ begin + tz - offset < n * 86400 + 86400
  BY SMT DEF StartOf, Quotient
<1>3. /\ StartOf(cur, 86400, tz - offset) = m * 86400 - (tz - offset)
      /\ m \in Nat /\ m * 86400 <= cur + tz - offset /\ cur + tz - offset < m * 86400 + 86400
  BY SMT DEF StartOf, Quotient
<1> HIDE DEF n, m
<1>4. n <= m
  BY SMT, <1>2, <1>3
<1>5. GetPassedDay(begin, cur, offset, tz) = m - n
  <2>1. GetPassedDay(begin, cur, offset, tz) = Quotient((m - n) * 86400, 86400)
    BY SMT, <1>1, <1>2, <1>3 DEF GetPassedDay, GetDayStartTime
  <2>2. Quotient((m - n) * 86400, 86400) = m - n
    BY SMT, <1>2, <1>3, <1>4 DEF Quotient
  <2> QED BY SMT, <2>1, <2>2
<1> QED BY SMT, <1>1, <1>2, <1>3, <1>4, <1>5 DEF IsSameDay, IsPassDay, GetDayStartTime

-----------------------------------------------------------------------------
(* GUIDs                                                                   *)

\* GUIDStr (gen_guid.cpp:23) reads back what GenGUID packed, for seconds from
\* 2025 on, and up to the bits of the sequence.  So the fields identify a GUID,
\* and the model of GenGUID may take their tuple for it.
THEOREM GUIDStrReadsBack ==
  ASSUME NEW type \in OBJ_TYPE, NEW cur_seq \in Nat, NEW cur_s \in Nat,
         kSecFrom19700101To20250101 <= cur_s, cur_s < TimestampSize
  PROVE  GUIDStr(Packed(type, cur_s, cur_seq)) =
           [type |-> type, timestamp |-> cur_s, seq |-> cur_seq % SeqSize]
<1> DEFINE ts  == cur_s - kSecFrom19700101To20250101
           seq == cur_seq % SeqSize
           g   == Packed(type, cur_s, cur_seq)
<1>1. /\ TypeSize \in Nat /\ TypeSize = 256
      /\ SeqSize \in Nat /\ SeqSize > 0
      /\ TimestampSize \in Nat /\ TimestampSize > 0
      /\ kSecFrom19700101To20250101 \in Nat
  BY SMT DEF TypeSize, SeqSize, TimestampSize, kSecFrom19700101To20250101
<1>2. type \in Nat /\ type < TypeSize /\ type % TypeSize = type
  BY SMT, <1>1 DEF OBJ_TYPE
<1>3. ts \in Nat /\ ts < TimestampSize /\ ts % TimestampSize = ts
  BY SMT, <1>1
<1>4. seq \in Nat /\ seq < SeqSize
  BY SMT, <1>1
<1>5. g = (type * TimestampSize + ts) * SeqSize + seq
  BY <1>2, <1>3 DEF Packed
<1> HIDE DEF ts, seq, g
<1>6. g % SeqSize = seq /\ g \div SeqSize = type * TimestampSize + ts
  BY SMT, <1>1, <1>2, <1>3, <1>4, <1>5
<1>7. (g \div SeqSize) % TimestampSize = ts /\ (g \div SeqSize) \div TimestampSize = type
  BY SMT, <1>1, <1>2, <1>3, <1>6
<1>8. g \in Nat /\ g \div (TimestampSize * SeqSize) = (g \div SeqSize) \div TimestampSize
  BY SMT, <1>1, <1>2, <1>3, <1>4, <1>5
<1>9. kSecFrom19700101To20250101 + ts = cur_s
  BY SMT, <1>1 DEF ts
<1>10. GUIDStr(g) = [type |-> type, timestamp |-> cur_s, seq |-> seq]
  BY <1>2, <1>6, <1>7, <1>8, <1>9 DEF GUIDStr
<1> QED BY <1>10 DEF g, seq

-----------------------------------------------------------------------------
(* strto                                                                   *)

\* strto of a signed type (utils.h:46) returns exactly the numbers of the type
\* and throws for every other string: no value is cut by the final cast.
THEOREM StrtoSigned ==
  ASSUME Half \in Nat, NEW t \in Signed, NEW str \in String
  PROVE  LET result == strto(t, str)
             fits   == str.trimmed = "number" /\ t.min <= str.value /\ str.value <= t.max
         IN /\ result.returns <=> fits
            /\ fits => result.value = str.value
BY SMT DEF Signed, String, strto, Parsed, strtoll, Throws, Returns

\* strto of an unsigned type returns every number of the type, and what else it
\* returns is a negative number 2^64 too large: "-1" is accepted for a u64.
THEOREM StrtoUnsigned ==
  ASSUME Half \in Nat, NEW t \in Unsigned, NEW str \in String
  PROVE  LET result == strto(t, str)
         IN /\ result.returns => /\ str.trimmed = "number"
                                 /\ result.value \in 0..t.max
                                 /\ \/ result.value = str.value
                                    \/ str.value < 0 /\ result.value = str.value + 2 * Half
            /\ str.trimmed = "number" /\ str.value \in 0..t.max =>
                 result.returns /\ result.value = str.value
BY SMT DEF Unsigned, String, strto, Parsed, strtoull, Throws, Returns

\* A floating conversion (utils.h:98) after one that was out of range throws,
\* whatever it is given: unlike that of integers, it does not clear errno.
THEOREM StrtoFloatSeesOldErrno ==
  ASSUME NEW t, NEW typed \in String, typed.trimmed # "empty", Parsed(t, typed).erange,
         NEW errno, NEW max, NEW str \in String
  PROVE  ~strto_float(strto_errno(errno, t, typed), max, str).returns
BY DEF strto_float, strto_errno, Throws

-----------------------------------------------------------------------------
(* uuid_t                                                                  *)

\* The operators of uuid_t (common_def.h:27) order it: of two different ones
\* exactly one is less, nothing is less than itself, and less is transitive.
THEOREM UuidOrder ==
  ASSUME NEW a \in uuid_t, NEW b \in uuid_t, NEW c \in uuid_t
  PROVE  /\ NotEqual(a, b) <=> Less(a, b) \/ Less(b, a)
         /\ ~(Less(a, b) /\ Less(b, a))
         /\ Less(a, b) /\ Less(b, c) => Less(a, c)
         /\ Equal(a, b) <=> a = b
         /\ empty(a) => ~Less(b, a)
<1>1. a = b <=> a.high_ = b.high_ /\ a.low_ = b.low_
  BY DEF uuid_t
<1> QED BY <1>1 DEF uuid_t, Equal, NotEqual, Less, empty

-----------------------------------------------------------------------------
(* A timer has an owner, and one only.                                     *)

\* Ids not returned yet belong to nobody.
FreeIsFree ==
  /\ free \cap (loose \cup timers) = {}
  /\ \A w \in Wrapper : id_[w] \notin free

WrapperInv == TypeOK /\ FreeIsFree /\ NoTimerLeaks /\ OneOwner

LEMMA IdsDiffer == INVALID_TIMER_ID \notin TimerId /\ NoObject \notin TimerId \cup {INVALID_TIMER_ID}
BY DEF TimerId, INVALID_TIMER_ID, NoObject

LEMMA InitWrapper == Init => WrapperInv
BY IdsDiffer DEF Init, WrapperInv, TypeOK, FreeIsFree, NoTimerLeaks, OneOwner

LEMMA NextWrapper == WrapperInv /\ [Next]_vars => WrapperInv'
<1> SUFFICES ASSUME WrapperInv, [Next]_vars PROVE WrapperInv'
  OBVIOUS
<1> USE IdsDiffer DEF Lives, Given, ClearTo, WrapperInv, TypeOK, FreeIsFree,
                      NoTimerLeaks, OneOwner
<1>1. ASSUME NEW t \in TimerId, RegisterTimer(t) PROVE WrapperInv'
  BY <1>1 DEF RegisterTimer
<1>2. ASSUME NEW t \in TimerId, TimerEnds(t) PROVE WrapperInv'
  BY <1>2 DEF TimerEnds
<1>3. ASSUME NEW w \in Wrapper, release(w) PROVE WrapperInv'
  BY <1>3 DEF release
<1>4. ASSUME NEW w \in Wrapper, cancel(w) PROVE WrapperInv'
  BY <1>4 DEF cancel
<1>5. ASSUME NEW w \in Wrapper, Destruct(w) PROVE WrapperInv'
  BY <1>5 DEF Destruct
<1>6. ASSUME NEW w \in Wrapper, NEW t \in Given, Construct(w, t) PROVE WrapperInv'
  BY <1>6 DEF Construct
<1>7. ASSUME NEW w \in Wrapper, NEW t \in Given, reset(w, t) PROVE WrapperInv'
  BY <1>7 DEF reset
<1>8. ASSUME NEW w \in Wrapper, NEW other \in Wrapper, Move(w, other) PROVE WrapperInv'
  BY <1>8 DEF Move
<1>9. CASE UNCHANGED vars
  BY <1>9 DEF vars
<1> QED
  BY <1>1, <1>2, <1>3, <1>4, <1>5, <1>6, <1>7, <1>8, <1>9 DEF Next

\* No sequence of moves, resets and releases makes a timer outlive its owner
\* (svr_timer.h:208).
THEOREM NoTimerIsLeaked == Spec => []NoTimerLeaks
<1>1. WrapperInv => NoTimerLeaks
  BY DEF WrapperInv
<1> QED BY InitWrapper, NextWrapper, <1>1, PTL DEF Spec

\* A wrapper that clears destroys a timer that nobody else holds.
THEOREM TimerHasOneOwner == Spec => []OneOwner
<1>1. WrapperInv => OneOwner
  BY DEF WrapperInv
<1> QED BY InitWrapper, NextWrapper, <1>1, PTL DEF Spec

-----------------------------------------------------------------------------
(* The table of functions.                                                 *)

\* RegisterTimerFunc (svr_timer.cpp:68) never replaces a function, whatever it
\* is called with, and leaves a table.
THEOREM FunctionsStay ==
  ASSUME NEW table \in Table, NEW id \in Nat, NEW func \in Func,
         NEW other \in DOMAIN table, table[other] # NoFunc
  PROVE  LET r == RegisterTimerFunc(table, id, func)
         IN r.table \in Table /\ r.table[other] = table[other]
BY DEF Table, Func, NoFunc, RegisterTimerFunc, ValidFuncId, MAX_TIMER_FUNC_ID_NUM, E_BASE_TIMER_FUNC_ID_INVALID

\* Once the server has registered its function (transaction_server.cpp:64), the
\* timer of a wait calls it, and a second Init is refused.
THEOREM WaitsCallTheirFunction ==
  ASSUME TransactionOnTimeout \in Func, NEW table \in Table, RegisterServerFunc(table).ret = 0
  PROVE  LET t == RegisterServerFunc(table).table
         IN /\ OnTimeout(t, E_BASE_TIMER_FUNC_ID_TRANSACTION_ON_TIMEOUT) =
                 [ret |-> 0, calls |-> {TransactionOnTimeout}]
            /\ RegisterServerFunc(t).ret = -1
BY DEF Table, Func, NoFunc, RegisterServerFunc, RegisterTimerFunc, OnTimeout, ValidFuncId,
    MAX_TIMER_FUNC_ID_NUM, E_BASE_TIMER_FUNC_ID_INVALID,
    E_BASE_TIMER_FUNC_ID_TRANSACTION_ON_TIMEOUT
=============================================================================
