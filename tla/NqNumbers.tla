----------------------------- MODULE NqNumbers -----------------------------
(***************************************************************************)
(* Integer arithmetic of stdlib/runtime.h and time arithmetic of           *)
(* stdlib/runtime.c.  The language wraps around; C does not define what a  *)
(* signed overflow does, so the runtime must never form a signed value     *)
(* that its type cannot hold.  formed is the set of the signed values that *)
(* the evaluation of the last call has formed.                             *)
(*                                                                         *)
(* Half is 2^31 for the i32 functions and 2^63 for the others; nothing     *)
(* depends on its being a power of two.                                    *)
(***************************************************************************)
EXTENDS Integers, Sequences

CONSTANTS
  Half,     \* INTn_MAX + 1
  Billion   \* nanoseconds in a second

ASSUME NumberAssumption ==
  Half \in Nat /\ Billion \in Nat \ {0} /\ Billion < Half

VARIABLES
  function, args,  \* the last call
  returned,        \* the value it returned, <<>> for none, an error or no return
  formed
numberVars == <<function, args, returned, formed>>

Full == 2 * Half                \* UINTn_MAX + 1
Signed == -Half .. Half - 1
Instants == 0 .. Half - 1       \* what the program can hold of an instant
Durations == 0 .. Half - 1      \* or of a duration

NumberInit == function = "none" /\ args = <<>> /\ returned = <<>> /\ formed = {}

\* The program takes the result before it calls again.
TakeResult ==
  /\ function # "none"
  /\ function' = "none" /\ args' = <<>> /\ returned' = <<>> /\ formed' = {}

Ready == function = "none"
Call(o, a, result, values) ==
  function' = o /\ args' = a /\ returned' = result /\ formed' = values

(***************************************************************************)
(* Integers                                                                *)
(***************************************************************************)

Unsigned(a) == a % Full         \* the cast (uintN_t)(a)

\* Operands and result of unsigned arithmetic; negation is 0 - b.
Word(o, a, b) ==
  CASE o = "add" -> (Unsigned(a) + Unsigned(b)) % Full
    [] o = "sub" -> (Unsigned(a) - Unsigned(b)) % Full
    [] o = "mul" -> (Unsigned(a) * Unsigned(b)) % Full

Low(u) == u % Half              \* u & INTn_MAX
\* Mutant: the word of the smallest integer counts as not negative.
HighLate(u) == IF u > Half THEN -Half ELSE 0
High(u) == IF u > Half - 1 THEN -Half ELSE 0

\* Mutant: the word itself is cast and corrected.
ConstBitsCast(u) == {u, High(u), Low(u) + High(u)}

\* NQ_In_CONST_BITS: the signed values it forms of a word.
ConstBits(u) == {Low(u), High(u), Low(u) + High(u)}

Ring ==
  /\ Ready
  /\ \E o \in {"add", "sub", "mul"}, a, b \in Signed :
       LET u == Word(o, a, b)
       IN  Call(o, <<a, b>>, <<Low(u) + High(u)>>, ConstBits(u))

\* Division in C truncates and is undefined where its quotient is not
\* representable; a remainder is defined where the quotient is.
Magnitude(a) == IF a < 0 THEN -a ELSE a
Quotient(a, b) ==
  LET q == Magnitude(a) \div Magnitude(b) IN IF (a < 0) # (b < 0) THEN -q ELSE q
Remainder(a, b) == a - b * Quotient(a, b)

\* The guard of the division and remainder functions and macros.
BadDivisor(a, b) == b = 0 \/ (a = -Half /\ b = -1)

Result(o, a, b) ==
  IF o \in {"div", "const_div"} THEN Quotient(a, b) ELSE Remainder(a, b)

\* nq_in_div and nq_in_rem end the program for a bad divisor.
Divide ==
  /\ Ready
  /\ \E o \in {"div", "rem"}, a, b \in Signed :
       IF BadDivisor(a, b) THEN Call(o, <<a, b>>, <<>>, {})
       ELSE Call(o, <<a, b>>, <<Result(o, a, b)>>,
                 {Quotient(a, b), Remainder(a, b)})

\* The macros divide by one instead.
ConstDivide ==
  /\ Ready
  /\ \E o \in {"const_div", "const_rem"}, a, b \in Signed :
       LET d == IF BadDivisor(a, b) THEN 1 ELSE b
       IN  Call(o, <<a, b>>, <<Result(o, a, d)>>,
                {Quotient(a, d), Remainder(a, d)})

(***************************************************************************)
(* Time                                                                    *)
(***************************************************************************)
MaxSeconds == Quotient(Half - 1, Billion)
MinSeconds == Quotient(-Half, Billion) - 1
MinNanoseconds == Billion + Remainder(-Half, Billion)

\* Mutant: the last second is accepted whole.
TimestampLong(s, ns) ==
  IF \/ ns < 0 \/ ns >= Billion
     \/ s < MinSeconds \/ s > MaxSeconds
     \/ s = MinSeconds /\ ns < MinNanoseconds
  THEN [value |-> <<>>, formed |-> {}]
  ELSE IF s = MinSeconds
  THEN [value |-> <<-Half + (ns - MinNanoseconds)>>,
        formed |-> {-Half + (ns - MinNanoseconds)}]
  ELSE [value |-> <<s * Billion + ns>>,
        formed |-> {s * Billion, s * Billion + ns}]

\* nq_timestamp_to_i64_ns.
Timestamp(s, ns) ==
  IF \/ ns < 0 \/ ns >= Billion
     \/ s < MinSeconds \/ s > MaxSeconds
     \/ s = MaxSeconds /\ ns > Remainder(Half - 1, Billion)
     \/ s = MinSeconds /\ ns < MinNanoseconds
  THEN [value |-> <<>>, formed |-> {}]
  ELSE IF s = MinSeconds
  THEN [value |-> <<-Half + (ns - MinNanoseconds)>>,
        formed |-> {-Half + (ns - MinNanoseconds)}]
  ELSE [value |-> <<s * Billion + ns>>,
        formed |-> {s * Billion, s * Billion + ns}]

Readable(t) == t.value # <<>>

\* nq_wall_time_ns, and the modification time in nq_path_metadata.
WallTime ==
  /\ Ready
  /\ \E s, ns \in Signed :
       Call("wall", <<s, ns>>, Timestamp(s, ns).value, Timestamp(s, ns).formed)

\* nq_monotonic_now: a time before the start of the clock is an error.
MonotonicNow ==
  /\ Ready
  /\ \E s, ns \in Signed :
       LET t == Timestamp(s, ns)
           shown == Readable(t) /\ t.value[1] >= 0
       IN  Call("now", <<s, ns>>, IF shown THEN t.value ELSE <<>>, t.formed)

\* nq_deadline_ns: delay from the time the clock shows; a duration is never
\* negative, so its guard never decides.
Deadline(delay, t) ==
  IF delay < 0 THEN [value |-> <<>>, formed |-> {}]
  ELSE IF ~Readable(t) THEN [value |-> <<>>, formed |-> t.formed]
  ELSE IF t.value[1] < 0 THEN [value |-> <<>>, formed |-> t.formed]
  ELSE IF delay > Half - 1 - t.value[1]
  THEN [value |-> <<>>, formed |-> t.formed \cup {Half - 1 - t.value[1]}]
  ELSE [value |-> <<t.value[1] + delay>>,
        formed |-> t.formed \cup {Half - 1 - t.value[1], t.value[1] + delay}]

DeadlineAfter ==
  /\ Ready
  /\ \E delay \in Durations, s, ns \in Signed :
       LET d == Deadline(delay, Timestamp(s, ns))
       IN  Call("deadline", <<delay, s, ns>>, d.value, d.formed)

\* nq_sleep_for: the absolute time given to clock_nanosleep.  time_t has the
\* width of int64_t, so the check that the seconds fit always passes.
SleepFor ==
  /\ Ready
  /\ \E delay \in Durations \ {0}, s, ns \in Signed :
       LET d == Deadline(delay, Timestamp(s, ns))
       IN  Call("sleep", <<delay, s, ns>>,
                IF Readable(d) THEN <<Quotient(d.value[1], Billion),
                                      Remainder(d.value[1], Billion)>>
                               ELSE <<>>,
                d.formed)

\* Mutant: the order of the instants is read off their difference.
BetweenUnordered ==
  /\ Ready
  /\ \E start, end \in Instants :
       Call("between", <<start, end>>, <<end - start>>, {end - start})

\* nq_duration_between with nq_duration_from_ns: instants are not negative, so
\* that its guard against a negative start never decides.
DurationBetween ==
  /\ Ready
  /\ \E start, end \in Instants :
       IF end < start \/ (start < 0 /\ end > Half - 1 + start)
       THEN Call("between", <<start, end>>, <<>>, {})
       ELSE Call("between", <<start, end>>,
                 IF end - start < 0 THEN <<>> ELSE <<end - start>>,
                 {end - start})

NumberNext ==
  \/ TakeResult
  \/ Ring \/ Divide \/ ConstDivide
  \/ WallTime \/ MonotonicNow \/ DeadlineAfter \/ SleepFor \/ DurationBetween

NumberSpec == NumberInit /\ [][NumberNext]_numberVars

------------------------------------------------------------------------------
(***************************************************************************)
(* Properties                                                              *)
(***************************************************************************)

\* No call forms a signed value that its type cannot hold, the macros in
\* expressions that are never evaluated included.
NoUndefined == formed \subseteq Signed

\* Addition, subtraction and multiplication wrap around: the result is the
\* representable integer congruent to the exact one.
Exact(o, a, b) ==
  CASE o = "add" -> a + b [] o = "sub" -> a - b [] o = "mul" -> a * b
WrapsExactly ==
  function \in {"add", "sub", "mul"} =>
    /\ returned[1] \in Signed
    /\ \E k \in -Full..Full : Exact(function, args[1], args[2]) = returned[1] + k * Full

\* A time is read exactly when its nanoseconds are representable, and then
\* exactly, up to both ends of the range.
Time(s, ns) == s * Billion + ns
Valid(s, ns) == ns \in 0..Billion - 1 /\ Time(s, ns) \in Signed
TimestampExact ==
  function = "wall" =>
    returned = IF Valid(args[1], args[2]) THEN <<Time(args[1], args[2])>> ELSE <<>>

\* A deadline lies exactly the delay after the clock, is refused only when
\* it is not representable, and is what a sleep asks the kernel for;
\* instants and durations are never negative.
Due(a) == Time(a[2], a[3]) + a[1]
Reachable(a) == Valid(a[2], a[3]) /\ Time(a[2], a[3]) >= 0 /\ Due(a) < Half
DeadlineExact ==
  /\ function \in {"deadline", "sleep"} => (returned # <<>> <=> Reachable(args))
  /\ function = "deadline" /\ returned # <<>> => returned[1] = Due(args)
  /\ function = "sleep" /\ returned # <<>> =>
       Time(returned[1], returned[2]) = Due(args) /\ returned[2] \in 0..Billion - 1
  /\ function = "now" /\ returned # <<>> => returned[1] \in Instants
  /\ function = "between" /\ returned # <<>> =>
       returned[1] \in Durations /\ args[1] + returned[1] = args[2]

==============================================================================
