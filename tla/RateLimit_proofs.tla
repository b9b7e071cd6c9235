-------------------------- MODULE RateLimit_proofs --------------------------
(***************************************************************************)
(* Proofs about RateLimit, for any limit, window and clock resolution.     *)
(***************************************************************************)
EXTENDS RateLimit, TLAPS

(***************************************************************************)
(* The admissions of the current window are the last count ones.  What     *)
(* came before was admitted no later than its start, and each Limit of     *)
(* them another window earlier.                                            *)
(***************************************************************************)
WindowInv ==
    /\ windowStart = None => count = 0 /\ admitted = << >> /\ told = None
    /\ count <= Len(admitted)
    /\ \A i \in 1..Len(admitted) : admitted[i] <= now
    /\ windowStart # None =>
           /\ windowStart <= now
           /\ \A i \in 1..Len(admitted) :
                  i > Len(admitted) - count => windowStart <= admitted[i]
           /\ \A i \in 1..Len(admitted), n \in Nat :
                  i <= Len(admitted) - count - n * Limit =>
                      admitted[i] + n * Window <= windowStart

\* The last refusal's wait ends with its window, or that window is over.
ToldInv ==
    told # None =>
        /\ told.at <= now
        /\ told.at < windowStart + Window
        /\ \/ windowStart > told.at
           \/ windowStart + Window <= told.at + told.wait
        /\ told.wait <= SecondMore(told.header)

IInv == TypeOK /\ WindowInv /\ ToldInv /\ SustainedRate /\ RefusalIsEarned

-----------------------------------------------------------------------------

\* A division that drops the remainder is short of it by less than one.
LEMMA Rounding ==
    ASSUME NEW w \in Nat, NEW s \in Nat, s > 0
    PROVE  /\ w \div s \in Nat
           /\ w <= ((w \div s) + 1) * s
  <1>1. w < ((w \div s) + 1) * s
    OBVIOUS
  <1>2. w \div s \in Nat
    OBVIOUS
  <1>3. ((w \div s) + 1) * s \in Nat
    BY <1>2
  <1> QED
    BY <1>1, <1>2, <1>3

USE RateAssumption

LEMMA WindowType == Window \in Nat /\ Window >= 1
  BY DEF Window

\* The only arithmetic on products the proofs need.
LEMMA Multiples ==
    ASSUME NEW k \in Nat, NEW n \in Nat
    PROVE  /\ n * k \in Nat
           /\ 0 * k = 0
           /\ (n + 1) * k = n * k + k
  OBVIOUS

LEMMA InitIInv == Init => IInv
  <1> SUFFICES ASSUME Init PROVE IInv
    OBVIOUS
  <1>1. TypeOK
    BY DEF Init, TypeOK
  <1>2. WindowInv /\ ToldInv /\ RefusalIsEarned
    BY DEF Init, WindowInv, ToldInv, RefusalIsEarned
  <1>3. SustainedRate
    BY DEF Init, SustainedRate
  <1> QED
    BY <1>1, <1>2, <1>3 DEF IInv

LEMMA RefusalType ==
    ASSUME TypeOK, WindowInv, Full
    PROVE  /\ Left \in Nat /\ Left >= Window - (now - windowStart)
           /\ HeaderSeconds(Left) \in Nat
           /\ Left <= SecondMore(HeaderSeconds(Left))
  <1>1. Left \in Nat /\ Left >= Window - (now - windowStart)
    BY WindowType DEF Left, Full, Expired, TypeOK, WindowInv
  <1>2. ASSUME NEW w \in Nat
        PROVE  /\ w \div Second \in Nat
               /\ w <= ((w \div Second) + 1) * Second
    BY Rounding
  <1> QED
    BY <1>1, <1>2 DEF HeaderSeconds, SecondMore

\* What Allow appends to the history.
LEMMA Admission ==
    ASSUME IInv, Admit
    PROVE  /\ Len(admitted) \in Nat /\ admitted' \in Seq(Nat)
           /\ Len(admitted') = Len(admitted) + 1
           /\ admitted'[Len(admitted) + 1] = now
           /\ \A k \in 1..Len(admitted) :
                  admitted'[k] = admitted[k] /\ admitted[k] \in Nat
  BY DEF IInv, TypeOK, Admit

\* An admission finds every earlier one where the windows passed since put it:
\* one that Limit * n others and the whole of the new window's follow is n
\* windows old when the new window starts.
LEMMA AdmitKeepsPace ==
    ASSUME IInv, Admit, NEW i \in 1..Len(admitted'), NEW n \in Nat,
           i <= Len(admitted') - count' - n * Limit
    PROVE  admitted'[i] + n * Window <= windowStart'
  <1>1. /\ Window \in Nat /\ Limit \in Nat \ {0} /\ now \in Nat
        /\ count \in 0..Limit /\ n * Limit \in Nat /\ n * Window \in Nat
    BY WindowType, Multiples DEF IInv, TypeOK
  <1>2. CASE Expired
    <2>1. count' = 1 /\ windowStart' = now
      BY <1>2 DEF Admit
    <2>2. i \in 1..Len(admitted) /\ i <= Len(admitted) - n * Limit
      BY <1>1, <2>1, Admission
    <2>3. admitted'[i] = admitted[i] /\ admitted[i] \in Nat
          /\ admitted[i] <= now
      BY <2>2, Admission DEF IInv, WindowInv
    <2>4. CASE n = 0
      <3>1. n * Window = 0
        BY <1>1, <2>4, Multiples
      <3> QED
        BY <1>1, <2>1, <2>3, <3>1
    <2>5. CASE n # 0
      <3> DEFINE m == n - 1
      <3>1. m \in Nat /\ n = m + 1
        BY <2>5
      <3> HIDE DEF m
      <3>2. /\ n * Limit = m * Limit + Limit /\ m * Limit \in Nat
            /\ n * Window = m * Window + Window /\ m * Window \in Nat
        BY <1>1, <3>1, Multiples
      <3>3. i <= Len(admitted) - count - m * Limit
        BY <1>1, <2>2, <3>2, Admission
      <3>4. windowStart # None
        BY <2>2 DEF IInv, WindowInv
      <3>5. /\ admitted[i] + m * Window <= windowStart
            /\ windowStart \in Nat /\ now - windowStart >= Window
        BY <1>2, <2>2, <3>1, <3>3, <3>4 DEF IInv, TypeOK, WindowInv, Expired
      <3> QED
        BY <1>1, <2>1, <2>3, <3>2, <3>5
    <2> QED
      BY <2>4, <2>5
  <1>3. CASE ~Expired
    <2>1. count' = count + 1 /\ windowStart' = windowStart
      BY <1>3 DEF Admit
    <2>2. windowStart # None
      BY <1>3 DEF Expired
    <2> DEFINE q == n * Limit
    <2>3. /\ q \in Nat /\ Len(admitted) \in Nat /\ i \in Nat \ {0}
          /\ i <= Len(admitted) + 1 - (count + 1) - q
      BY <1>1, <2>1, Admission
    <2> HIDE DEF q
    <2>4. i \in 1..Len(admitted) /\ i <= Len(admitted) - count - q
      BY <1>1, <2>3
    <2>5. admitted[i] + n * Window <= windowStart
      BY <2>2, <2>4 DEF IInv, WindowInv, q
    <2> QED
      BY <2>1, <2>4, <2>5, Admission
  <1> QED
    BY <1>2, <1>3

LEMMA AdmitSustainedRate == IInv /\ Admit => SustainedRate'
  <1>0. SUFFICES ASSUME IInv, Admit,
                        NEW i \in 1..Len(admitted'),
                        NEW j \in 1..Len(admitted'),
                        NEW n \in 1..Len(admitted'), j = i + (n + 1) * Limit
                 PROVE  admitted'[j] >= admitted'[i] + n * Window
    BY DEF SustainedRate, Window
  \* The products have names, so that what follows is linear.
  <1> DEFINE q == n * Limit
             v == n * Window
             len == Len(admitted)
  <1>1. /\ Window \in Nat /\ Limit \in Nat \ {0} /\ now \in Nat
        /\ count \in 0..Limit
    BY <1>0, WindowType DEF IInv, TypeOK
  <1>2. /\ len \in Nat /\ i \in 1..(len + 1) /\ j \in 1..(len + 1)
        /\ n \in Nat /\ n >= 1
    BY <1>0, Admission
  <1>3. q \in Nat /\ v \in Nat
    BY <1>1, <1>2, Multiples
  <1>4. j = i + (q + Limit)
    <2>1. (n + 1) * Limit = q + Limit
      BY <1>1, <1>2, Multiples
    <2> QED
      BY <1>0, <2>1
  <1>5. q >= n
    <2> DEFINE k == Limit - 1
    <2>1. k \in Nat /\ Limit = k + 1
      BY <1>1
    <2> HIDE DEF k
    <2>2. n * (k + 1) = n * k + n /\ n * k \in Nat
      BY <1>2, <2>1
    <2> QED
      BY <1>2, <2>1, <2>2
  <1> HIDE DEF q, v
  <1>6. i \in 1..len
    BY <1>1, <1>2, <1>3, <1>4
  <1>7. admitted'[i] = admitted[i] /\ admitted[i] \in Nat
    BY <1>0, <1>6, Admission
  <1>8. CASE j \in 1..len
    <2>1. n \in 1..len
      BY <1>1, <1>2, <1>3, <1>4, <1>5, <1>8
    <2>2. admitted[j] >= admitted[i] + n * Window
      BY <1>0, <1>6, <1>8, <2>1 DEF IInv, SustainedRate
    <2> QED
      BY <1>0, <1>7, <1>8, <2>2, Admission
  <1>9. CASE j = len + 1
    <2>1. admitted'[j] = now
      BY <1>0, <1>9, Admission
    <2>2. windowStart # None
      BY <1>0, <1>6 DEF IInv, WindowInv
    <2>3. windowStart \in Nat /\ windowStart <= now
      BY <1>0, <2>2 DEF IInv, TypeOK, WindowInv
    <2>4. CASE Expired
      <3> DEFINE m == n - 1
                 r == m * Limit
                 u == m * Window
      <3>1. m \in Nat /\ n = m + 1
        BY <1>2
      <3> HIDE DEF m
      <3>2. r \in Nat /\ u \in Nat /\ q = r + Limit /\ v = u + Window
        BY <1>1, <3>1, Multiples DEF q, v
      <3>3. \A k \in 1..len : k <= len - count - m * Limit =>
                admitted[k] + m * Window <= windowStart
        BY <1>0, <2>2, <3>1 DEF IInv, WindowInv
      <3> HIDE DEF r, u
      <3>4. i <= len - count - r
        BY <1>1, <1>2, <1>3, <1>4, <1>9, <3>2
      <3>5. admitted[i] + u <= windowStart
        BY <1>6, <3>3, <3>4 DEF r, u
      <3>6. now - windowStart >= Window
        BY <2>2, <2>4 DEF Expired
      <3>7. now >= admitted[i] + v
        BY <1>1, <1>3, <1>7, <2>3, <3>2, <3>5, <3>6
      <3> QED
        BY <1>7, <2>1, <3>7 DEF v
    <2>5. CASE ~Expired
      <3>1. count < Limit
        BY <1>0, <1>1, <2>5 DEF Admit, Full
      <3>2. i <= len - count - q
        BY <1>1, <1>2, <1>3, <1>4, <1>9, <3>1
      <3>3. admitted[i] + v <= windowStart
        BY <1>0, <1>2, <1>6, <2>2, <3>2 DEF IInv, WindowInv, q, v
      <3>4. now >= admitted[i] + v
        BY <1>1, <1>3, <1>7, <2>3, <3>3
      <3> QED
        BY <1>7, <2>1, <3>4 DEF v
    <2> QED
      BY <2>4, <2>5
  <1> QED
    BY <1>2, <1>8, <1>9

\* The window after an admission, and the last refusal seen from it.
LEMMA AdmitIInv == IInv /\ Admit => IInv'
  <1> SUFFICES ASSUME IInv, Admit PROVE IInv'
    OBVIOUS
  <1>1. /\ admitted \in Seq(Nat) /\ now \in Nat /\ now' = now
        /\ count \in 0..Limit /\ Limit \in Nat \ {0} /\ told' = told
        /\ Window \in Nat /\ Window >= 1
    BY WindowType DEF IInv, TypeOK, Admit
  <1>2. /\ count' \in 1..Limit /\ windowStart' \in Nat /\ windowStart' # None
        /\ windowStart' <= now /\ count' <= Len(admitted')
    <2>1. CASE Expired
      BY <1>1, <2>1, Admission DEF Admit
    <2>2. CASE ~Expired
      BY <1>1, <2>2, Admission
      DEF Admit, Full, Expired, IInv, TypeOK, WindowInv
    <2> QED
      BY <2>1, <2>2
  <1>3. TypeOK'
    BY <1>1, <1>2, Admission DEF IInv, TypeOK
  <1>4. ASSUME NEW k \in 1..Len(admitted')
        PROVE  admitted'[k] <= now'
    <2>1. CASE k = Len(admitted) + 1
      BY <1>1, <2>1, Admission
    <2>2. CASE k # Len(admitted) + 1
      <3>1. k \in 1..Len(admitted)
        BY <2>2, Admission
      <3> QED
        BY <1>1, <3>1, Admission DEF IInv, WindowInv
    <2> QED
      BY <2>1, <2>2
  <1>5. ASSUME NEW i \in 1..Len(admitted'), i > Len(admitted') - count'
        PROVE  windowStart' <= admitted'[i]
    <2>1. CASE i = Len(admitted) + 1
      BY <1>2, <2>1, Admission
    <2>2. CASE i # Len(admitted) + 1
      <3>1. i \in 1..Len(admitted)
        BY <2>2, Admission
      <3>2. ~Expired
        BY <1>1, <1>5, <3>1, Admission DEF Admit
      <3>3. count' = count + 1 /\ windowStart' = windowStart
        BY <3>2 DEF Admit
      <3>4. i > Len(admitted) - count
        BY <1>1, <1>5, <3>3, Admission
      <3> QED
        BY <1>2, <3>1, <3>3, <3>4, Admission DEF IInv, WindowInv
    <2> QED
      BY <2>1, <2>2
  <1>6. WindowInv'
    BY <1>1, <1>2, <1>4, <1>5, AdmitKeepsPace DEF WindowInv, Window
  <1>7. ToldInv'
    <2>1. CASE Expired
      <3>1. windowStart' = now
        BY <2>1 DEF Admit
      <3>2. ASSUME told # None
            PROVE  /\ told.at \in Nat /\ told.at <= now /\ now > told.at
                   /\ told.at < now + Window
                   /\ told.wait <= SecondMore(told.header)
        <4>1. /\ told.at \in Nat /\ told.at <= now
              /\ windowStart # None /\ told.at < windowStart + Window
              /\ told.wait <= SecondMore(told.header)
          BY <3>2 DEF IInv, TypeOK, ToldInv, WindowInv
        <4>2. windowStart \in Nat /\ now - windowStart >= Window
          BY <2>1, <4>1 DEF IInv, TypeOK, Expired
        <4> QED
          BY <1>1, <4>1, <4>2
      <3> QED
        BY <1>1, <3>1, <3>2 DEF ToldInv, Window
    <2>2. CASE ~Expired
      BY <1>1, <2>2 DEF ToldInv, Admit, IInv, Window
    <2> QED
      BY <2>1, <2>2
  <1>8. RefusalIsEarned'
    <2> SUFFICES ASSUME told # None PROVE RefusalIsEarned'
      BY <1>1 DEF RefusalIsEarned
    <2>1. PICK k \in 0..(Len(admitted) - Limit) :
              \A i \in (k + 1)..(k + Limit) :
                  admitted[i] <= told.at /\ told.at < admitted[i] + Window
      BY DEF IInv, RefusalIsEarned
    <2>2. k \in 0..(Len(admitted') - Limit)
      BY <1>1, Admission
    <2>3. ASSUME NEW i \in (k + 1)..(k + Limit)
          PROVE  admitted'[i] = admitted[i]
      <3>1. Len(admitted) \in Nat /\ k \in 0..(Len(admitted) - Limit)
        BY Admission
      <3>2. i \in 1..Len(admitted)
        BY <1>1, <3>1
      <3> QED
        BY <3>2, Admission
    <2> QED
      BY <1>1, <2>1, <2>2, <2>3 DEF RefusalIsEarned, Window
  <1> QED
    BY <1>3, <1>6, <1>7, <1>8, AdmitSustainedRate DEF IInv

\* A refusal: the window is full, so its admissions are the last Limit ones.
LEMMA RefuseIInv == IInv /\ Refuse => IInv'
  <1> SUFFICES ASSUME IInv, Refuse PROVE IInv'
    OBVIOUS
  <1>1. /\ Left \in Nat /\ Left >= Window - (now - windowStart)
        /\ HeaderSeconds(Left) \in Nat /\ Window \in Nat
        /\ Left <= SecondMore(HeaderSeconds(Left))
    BY RefusalType, WindowType DEF IInv, Refuse
  <1>2. /\ told'.at = now /\ told'.wait = Left
        /\ told'.header = HeaderSeconds(Left)
        /\ UNCHANGED <<now, windowStart, count, admitted>>
    BY DEF Refuse
  <1>3. TypeOK'
    BY <1>1, <1>2 DEF Refuse, IInv, TypeOK
  <1>4. /\ windowStart \in Nat /\ windowStart # None /\ now \in Nat
        /\ windowStart <= now /\ now - windowStart < Window /\ count = Limit
    BY <1>1 DEF Refuse, Full, Expired, IInv, TypeOK, WindowInv
  <1>5. WindowInv'
    BY <1>2, <1>4 DEF IInv, WindowInv, Window
  <1>6. ToldInv'
    <2>1. /\ now <= now /\ now < windowStart + Window
          /\ windowStart + Window <= now + Left
      BY <1>1, <1>4
    <2> QED
      BY <1>1, <1>2, <2>1 DEF ToldInv, Window
  <1>7. RefusalIsEarned'
    <2> DEFINE k == Len(admitted) - Limit
    <2>1. k \in 0..(Len(admitted) - Limit) /\ k + Limit = Len(admitted)
      BY <1>4 DEF IInv, TypeOK, WindowInv
    <2>2. ASSUME NEW i \in (k + 1)..(k + Limit)
          PROVE  admitted[i] <= now /\ now < admitted[i] + Window
      <3>1. i \in 1..Len(admitted) /\ i > Len(admitted) - count
        BY <1>4, <2>1
      <3>2. windowStart <= admitted[i] /\ admitted[i] <= now
            /\ admitted[i] \in Nat
        BY <1>4, <3>1 DEF IInv, TypeOK, WindowInv
      <3> QED
        BY <1>1, <1>4, <3>2
    <2> HIDE DEF k
    <2> QED
      BY <1>2, <2>1, <2>2 DEF RefusalIsEarned, Window
  <1>8. SustainedRate'
    BY <1>2 DEF IInv, SustainedRate, Window
  <1> QED
    BY <1>3, <1>5, <1>6, <1>7, <1>8 DEF IInv

LEMMA TickIInv == IInv /\ Tick => IInv'
  <1> SUFFICES ASSUME IInv, Tick PROVE IInv'
    OBVIOUS
  <1>1. /\ now \in Nat /\ now' = now + 1
        /\ UNCHANGED <<windowStart, count, told, admitted>>
    BY DEF IInv, TypeOK, Tick
  <1>2. TypeOK'
    BY <1>1 DEF IInv, TypeOK
  <1>3. WindowInv'
    <2>1. \A i \in 1..Len(admitted) : admitted[i] <= now + 1
      BY <1>1 DEF IInv, TypeOK, WindowInv
    <2>2. windowStart # None => windowStart <= now + 1
      BY <1>1 DEF IInv, TypeOK, WindowInv
    <2>3. Window' = Window
      BY DEF Window
    <2> QED
      BY <1>1, <2>1, <2>2, <2>3 DEF IInv, WindowInv
  <1>4. ToldInv'
    <2>1. told # None => told.at <= now + 1
      BY <1>1 DEF IInv, TypeOK, ToldInv
    <2>2. Window' = Window
      BY DEF Window
    <2> QED
      BY <1>1, <2>1, <2>2 DEF IInv, ToldInv
  <1>5. SustainedRate' /\ RefusalIsEarned'
    BY <1>1 DEF IInv, SustainedRate, RefusalIsEarned, Window
  <1> QED
    BY <1>2, <1>3, <1>4, <1>5 DEF IInv

LEMMA NextIInv == IInv /\ [Next]_vars => IInv'
  <1>1. IInv /\ UNCHANGED vars => IInv'
    BY DEF vars, IInv, TypeOK, WindowInv, ToldInv, SustainedRate,
           RefusalIsEarned, Window
  <1> QED
    BY <1>1, AdmitIInv, RefuseIInv, TickIInv DEF Next

LEMMA Invariance == Spec => []IInv
  BY InitIInv, NextIInv, PTL DEF Spec

\* The limiter's counter stays within its limit whatever the clock does.
THEOREM TypeCorrect == Spec => []TypeOK
  BY Invariance, PTL DEF IInv

\* However long a client keeps asking, Allow lets Limit requests through per
\* window and one burst more: no drift builds up over any number of windows.
THEOREM RateIsSustained == Spec => []SustainedRate
  BY Invariance, PTL DEF IInv

LEMMA SustainedTwice == IInv => TwiceTheLimit
  <1> SUFFICES ASSUME IInv,
                      NEW i \in 1..Len(admitted), NEW j \in 1..Len(admitted),
                      j = i + 2 * Limit
               PROVE  admitted[j] >= admitted[i] + Window
    BY DEF TwiceTheLimit
  <1>1. 1 \in 1..Len(admitted)
    BY DEF IInv, TypeOK
  <1>2. j = i + (1 + 1) * Limit /\ 1 * Window = Window
    BY WindowType
  <1> QED
    BY <1>1, <1>2 DEF IInv, SustainedRate

\* A fixed window lets at most twice its limit through in any span of its
\* length, wherever Allow's windows happen to start.
THEOREM SlidingBound == Spec => []TwiceTheLimit
  BY Invariance, SustainedTwice, PTL

\* Allow refuses nobody early: a 429 means that a whole Limit of requests was
\* let through less than a window before it.
THEOREM RefusalsAreEarned == Spec => []RefusalIsEarned
  BY Invariance, PTL DEF IInv

LEMMA WaitOutlasts == IInv => WaitSuffices
  <1> SUFFICES ASSUME IInv, told # None, NEW ticks \in Nat, told.wait <= ticks,
                      now >= told.at + ticks
               PROVE  Expired \/ windowStart > told.at
    <2>1. ASSUME IInv, told # None
          PROVE  /\ told.wait \in Nat /\ SecondMore(told.header) \in Nat
                 /\ told.wait <= told.wait
                 /\ told.wait <= SecondMore(told.header)
      <3>1. told.wait \in Nat /\ told.header \in Nat
        BY <2>1 DEF IInv, TypeOK
      <3>2. told.wait <= SecondMore(told.header)
        BY <2>1 DEF IInv, ToldInv
      <3>3. SecondMore(told.header) \in Nat
        BY <3>1 DEF SecondMore
      <3> QED
        BY <3>1, <3>2, <3>3
    <2> QED
      BY <2>1 DEF WaitSuffices, Suffices
  <1>1. /\ windowStart \in Nat /\ now \in Nat /\ Window \in Nat
        /\ told.at \in Nat /\ told.wait \in Nat
    BY WindowType DEF IInv, TypeOK, WindowInv
  <1>2. \/ windowStart > told.at
        \/ windowStart + Window <= told.at + told.wait
    BY DEF IInv, ToldInv
  <1>3. CASE windowStart + Window <= told.at + told.wait
    BY <1>1, <1>3 DEF Expired
  <1> QED
    BY <1>2, <1>3

\* The duration Allow returns is long enough: the refusing window is over then;
\* the header withRateLimit makes of it is short by less than a second.
THEOREM WaitIsEnough == Spec => []WaitSuffices
  BY Invariance, WaitOutlasts, PTL

=============================================================================
