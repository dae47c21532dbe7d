--------------------------- MODULE SessionsProofs ---------------------------
(***************************************************************************)
(* Theorems about the limiter and the session's rate, for any sessions,    *)
(* rates, bursts and bounds.                                               *)
(***************************************************************************)
EXTENDS Sessions, TLAPS

-----------------------------------------------------------------------------
(***************************************************************************)
(* The inductive invariant.  A bucket is what all stretches of lines up to *)
(* the newest leave of their allowances: never more than any of them       *)
(* (NotAbove), and exactly one of them unless it is full (NotBelow).  The  *)
(* first gives the bound on what passes, the second that nothing else is   *)
(* refused.                                                                *)
(***************************************************************************)
\* What the stretch of s's lines from the i-th on leaves of its allowance.
Left(s, i) ==
  Capacity + (bucket[s].last - passed[s][i]) - (Len(passed[s]) - i + 1) * Cost

NotAbove(s) == \A i \in DOMAIN passed[s] : bucket[s].tokens <= Left(s, i)

NotBelow(s) ==
  bucket[s].tokens = Capacity \/ \E i \in DOMAIN passed[s] : bucket[s].tokens = Left(s, i)

\* The same for the calls of s that came through the limiter.
CallsAllowed(s) ==
  LET calls == stats[s].calls - apiCalls[s]
  IN  /\ calls \in Nat
      /\ calls > 0 => /\ stats[s].first <= bucket[s].last
                      /\ bucket[s].tokens + calls * Cost
                           <= Capacity + (bucket[s].last - stats[s].first)

BoundOf(s) ==
  \A i, j \in DOMAIN passed[s] :
    i <= j => (j - i + 1) * Cost <= Capacity + (passed[s][j] - passed[s][i])

BucketOK(s) ==
  /\ bucket[s].last <= now
  /\ stats[s].first <= now
  /\ \A i \in DOMAIN passed[s] : passed[s][i] <= bucket[s].last
  /\ NotAbove(s)
  /\ NotBelow(s)
  /\ BoundOf(s)
  /\ CallsAllowed(s)

SessionInv == SessionTypeOK /\ \A s \in SessionIds : BucketOK(s)

-----------------------------------------------------------------------------
(* Arithmetic *)

\* The capacity is a whole number of lines.
LEMMA CapacityType == Capacity \in Nat /\ Cost \in Nat /\ Cost > 0 /\ Cost <= Capacity
  <1>1. Cost \in Nat /\ Burst \in Nat /\ Cost >= 1 /\ Burst >= 1
    BY SessionsAssumption
  <1>2. Burst * Cost \in Nat /\ Burst * Cost >= Cost
    BY <1>1
  <1> QED BY <1>1, <1>2 DEF Capacity

\* One line more costs Cost more.
LEMMA OneMore == \A n \in Int : (n + 1) * Cost = n * Cost + Cost /\ n * Cost \in Int
  BY CapacityType

\* What flows in is at most a full bucket.
LEMMA RefilledType ==
  ASSUME SessionTypeOK, NEW s \in SessionIds, bucket[s].last <= now
  PROVE  /\ Refilled(s) \in 0..Capacity
         /\ Refilled(s) <= bucket[s].tokens + (now - bucket[s].last)
         /\ \/ Refilled(s) = Capacity
            \/ Refilled(s) = bucket[s].tokens + (now - bucket[s].last)
  <1>1. bucket[s].tokens \in 0..Capacity /\ bucket[s].last \in Nat /\ now \in Nat
    BY DEF SessionTypeOK, Bucket
  <1> QED BY <1>1, CapacityType DEF Refilled

\* What flows in is covered by the time since the session's first call.
LEMMA InflowCovers ==
  ASSUME SessionTypeOK, NEW s \in SessionIds, BucketOK(s), stats[s].calls - apiCalls[s] > 0
  PROVE  /\ stats[s].first <= now
         /\ Refilled(s) + (stats[s].calls - apiCalls[s]) * Cost
              <= Capacity + (now - stats[s].first)
  <1> DEFINE paid == (stats[s].calls - apiCalls[s]) * Cost
             first == stats[s].first
             t == bucket[s].tokens
             l == bucket[s].last
             r == Refilled(s)
  <1>1. /\ t \in 0..Capacity /\ l \in Nat /\ first \in Nat /\ now \in Nat
        /\ stats[s].calls \in Nat /\ apiCalls[s] \in Nat /\ l <= now
    BY DEF SessionTypeOK, Bucket, Stats, BucketOK
  <1>2. first <= l /\ t + paid <= Capacity + (l - first)
    BY DEF BucketOK, CallsAllowed
  <1>3. paid \in Int
    BY <1>1, OneMore
  <1>4. r \in 0..Capacity /\ r <= t + (now - l)
    BY <1>1, RefilledType
  <1> HIDE DEF paid, first, t, l, r
  <1>5. first <= now /\ r + paid <= Capacity + (now - first)
    BY <1>1, <1>2, <1>3, <1>4, CapacityType
  <1> QED BY <1>5 DEF paid, first, r

-----------------------------------------------------------------------------
(* A line *)

\* A line that is let pass: the bucket, its lines and their bound.
LEMMA AdmitKeeps ==
  ASSUME SessionInv, NEW s \in SessionIds, Admit(s)
  PROVE  /\ bucket' \in [SessionIds -> Bucket]
         /\ passed' \in [SessionIds -> Seq(Nat)]
         /\ bucket'[s].last = now
         /\ bucket'[s].tokens = Refilled(s) - Cost
         /\ \A i \in DOMAIN passed'[s] : passed'[s][i] <= now
         /\ NotAbove(s)' /\ NotBelow(s)' /\ BoundOf(s)'
  <1> DEFINE n == Len(passed[s])
             t == bucket[s].tokens
             l == bucket[s].last
  <1>1. /\ t \in 0..Capacity /\ l \in Nat /\ now \in Nat /\ l <= now
        /\ n \in Nat /\ passed[s] \in Seq(Nat) /\ DOMAIN passed[s] = 1..n
        /\ BucketOK(s)
    BY DEF SessionInv, SessionTypeOK, Bucket, BucketOK
  <1>2. /\ Refilled(s) \in 0..Capacity /\ Refilled(s) >= Cost
        /\ Refilled(s) <= t + (now - l)
        /\ Refilled(s) = Capacity \/ Refilled(s) = t + (now - l)
    BY <1>1, RefilledType DEF SessionInv, Admit
  <1>3. /\ bucket'[s] = [tokens |-> Refilled(s) - Cost, last |-> now]
        /\ passed'[s] = Append(passed[s], now)
    BY DEF Admit, SessionInv, SessionTypeOK
  <1>4. bucket'[s] \in Bucket
    BY <1>1, <1>2, <1>3, CapacityType DEF Bucket
  <1>5. bucket' \in [SessionIds -> Bucket]
    BY <1>3, <1>4 DEF Admit, SessionInv, SessionTypeOK
  <1>6. passed' \in [SessionIds -> Seq(Nat)]
    BY <1>1, <1>3 DEF Admit, SessionInv, SessionTypeOK
  <1>7. /\ Len(passed'[s]) = n + 1 /\ DOMAIN passed'[s] = 1..(n + 1)
        /\ passed'[s][n + 1] = now
        /\ \A i \in 1..n : passed'[s][i] = passed[s][i] /\ passed[s][i] \in Nat
    BY <1>1, <1>3
  <1>8. bucket'[s].tokens = Refilled(s) - Cost /\ bucket'[s].last = now
    BY <1>3
  <1>9. \A i \in 1..n : passed[s][i] <= l
    BY <1>1 DEF BucketOK
  <1> DEFINE price(i) == (n - i + 1) * Cost
  <1>10. \A i \in 1..n : /\ price(i) \in Int
                         /\ ((n + 1) - i + 1) * Cost = price(i) + Cost
    <2> TAKE i \in 1..n
    <2>1. (n + 1) - i + 1 = (n - i + 1) + 1 /\ n - i + 1 \in Int
      BY <1>1
    <2> QED BY <2>1, OneMore
  <1>11. ((n + 1) - (n + 1) + 1) * Cost = Cost
    BY <1>1, CapacityType
  <1>12. \A i \in 1..n : Left(s, i) = Capacity + (l - passed[s][i]) - price(i)
    BY DEF Left
  <1>13. \A i \in 1..n : t <= Capacity + (l - passed[s][i]) - price(i)
    BY <1>1, <1>12 DEF BucketOK, NotAbove
  <1>14. \A i \in 1..n : Left(s, i)' = Capacity + (now - passed[s][i]) - (price(i) + Cost)
    BY <1>7, <1>8, <1>10 DEF Left, Capacity
  <1>15. PICK m \in Nat : m = n + 1
    BY <1>1
  <1>16. Left(s, m)' = Capacity + (now - now) - Cost
    <2>1. Left(s, m)' = Capacity + (bucket'[s].last - passed'[s][m])
                          - (Len(passed'[s]) - m + 1) * Cost
      BY DEF Left, Capacity
    <2> QED BY <1>7, <1>8, <1>11, <1>15, <2>1
  <1>17. \A i, j \in 1..n :
          i <= j => (j - i + 1) * Cost <= Capacity + (passed[s][j] - passed[s][i])
    BY <1>1 DEF BucketOK, BoundOf
  <1> HIDE DEF price, n, t, l
  <1> DEFINE r == Refilled(s)
  <1>18. /\ r \in Int /\ t \in Int /\ l \in Int /\ now \in Int
         /\ Capacity \in Int /\ Cost \in Int /\ Cost > 0
         /\ r <= t + (now - l) /\ r <= Capacity /\ l <= now
         /\ bucket'[s].tokens = r - Cost
    BY <1>1, <1>2, <1>8, CapacityType
  <1> HIDE DEF r
  <1>19. \A i \in 1..(n + 1) : i \in 1..n \/ i = n + 1
    BY <1>1
  <1>20. \A i \in DOMAIN passed'[s] : passed'[s][i] <= now
    <2> SUFFICES ASSUME NEW i \in 1..(n + 1) PROVE passed'[s][i] <= now
      BY <1>7
    <2>1. CASE i \in 1..n
      <3>1. passed'[s][i] = passed[s][i] /\ passed[s][i] \in Int /\ passed[s][i] <= l
        BY <1>7, <1>9, <2>1
      <3>2. passed[s][i] <= now
        BY <1>18, <3>1
      <3> QED BY <3>1, <3>2
    <2>2. CASE i = n + 1
      BY <1>7, <1>18, <2>2
    <2> QED BY <1>19, <2>1, <2>2
  <1>21. NotAbove(s)'
    <2> SUFFICES ASSUME NEW i \in 1..(n + 1) PROVE bucket'[s].tokens <= Left(s, i)'
      BY <1>7 DEF NotAbove
    <2>1. CASE i \in 1..n
      <3>1. /\ Left(s, i)' = Capacity + (now - passed[s][i]) - (price(i) + Cost)
            /\ t <= Capacity + (l - passed[s][i]) - price(i)
            /\ price(i) \in Int /\ passed[s][i] \in Nat
        BY <1>7, <1>10, <1>13, <1>14, <2>1
      <3> QED BY <1>18, <3>1
    <2>2. CASE i = n + 1
      BY <1>15, <1>18, <1>16, <2>2
    <2> QED BY <1>19, <2>1, <2>2
  <1>22. NotBelow(s)'
    <2>1. CASE Refilled(s) = Capacity
      <3>1. bucket'[s].tokens = Left(s, m)'
        BY <1>18, <1>16, <2>1 DEF r
      <3>2. m \in DOMAIN passed'[s]
        BY <1>1, <1>7, <1>15
      <3> QED BY <3>1, <3>2 DEF NotBelow
    <2>2. CASE Refilled(s) # Capacity
      <3>1. Refilled(s) = t + (now - l) /\ t # Capacity
        BY <1>1, <1>2, <2>2, CapacityType
      <3>2. PICK i \in 1..n : t = Left(s, i)
        BY <1>1, <3>1 DEF BucketOK, NotBelow, t
      <3>3. /\ t = Capacity + (l - passed[s][i]) - price(i)
            /\ Left(s, i)' = Capacity + (now - passed[s][i]) - (price(i) + Cost)
            /\ price(i) \in Int /\ passed[s][i] \in Nat
        BY <1>7, <1>10, <1>12, <1>14, <3>2
      <3>4. bucket'[s].tokens = Left(s, i)'
        BY <1>18, <3>1, <3>3 DEF r
      <3>5. i \in DOMAIN passed'[s]
        BY <1>1, <1>7
      <3> QED BY <3>4, <3>5 DEF NotBelow
    <2> QED BY <2>1, <2>2
  <1>23. BoundOf(s)'
    <2> SUFFICES ASSUME NEW i \in 1..(n + 1), NEW j \in 1..(n + 1), i <= j
                 PROVE  (j - i + 1) * Cost <= Capacity + (passed'[s][j] - passed'[s][i])
      BY <1>7 DEF BoundOf, Capacity
    <2>1. CASE j \in 1..n
      <3>1. i \in 1..n
        BY <1>1, <2>1
      <3> QED BY <1>7, <1>17, <2>1, <3>1
    <2>2. CASE j = n + 1 /\ i \in 1..n
      <3>1. /\ (j - i + 1) * Cost = price(i) + Cost
            /\ t <= Capacity + (l - passed[s][i]) - price(i)
            /\ price(i) \in Int /\ passed[s][i] \in Nat
            /\ passed'[s][j] = now /\ passed'[s][i] = passed[s][i]
        BY <1>7, <1>10, <1>13, <2>2
      <3>2. price(i) + Cost <= Capacity + (now - passed[s][i])
        BY <1>2, <1>18, <3>1 DEF r
      <3> QED BY <3>1, <3>2
    <2>3. CASE j = n + 1 /\ i = n + 1
      <3>1. (j - i + 1) * Cost = Cost /\ passed'[s][j] = now /\ passed'[s][i] = now
        BY <1>7, <1>11, <2>3
      <3> QED BY <1>1, <3>1, CapacityType
    <2> QED BY <1>19, <2>1, <2>2, <2>3
  <1> QED BY <1>5, <1>6, <1>8, <1>20, <1>21, <1>22, <1>23

-----------------------------------------------------------------------------
(* The actions.  Each disturbs one session; a lemma says so once. *)

\* A step that leaves a session's records alone and the clock not behind.
LEMMA UntouchedSession ==
  ASSUME NEW z \in SessionIds, SessionTypeOK, BucketOK(z), now' \in Nat, now <= now',
         bucket'[z] = bucket[z], stats'[z] = stats[z], passed'[z] = passed[z],
         apiCalls'[z] = apiCalls[z]
  PROVE  BucketOK(z)'
  <1>1. bucket[z].last \in Nat /\ stats[z].first \in Nat /\ now \in Nat
    BY DEF SessionTypeOK, Bucket, Stats
  <1>2. bucket'[z].last <= now' /\ stats'[z].first <= now'
    BY <1>1 DEF BucketOK
  <1>3. (/\ \A i \in DOMAIN passed[z] : passed[z][i] <= bucket[z].last
         /\ NotAbove(z) /\ NotBelow(z) /\ BoundOf(z) /\ CallsAllowed(z))'
    BY DEF BucketOK, NotAbove, NotBelow, BoundOf, CallsAllowed, Left, Capacity
  <1> QED BY <1>2, <1>3 DEF BucketOK

\* A line that is refused.
LEMMA RefuseStep ==
  ASSUME SessionInv, NEW s \in SessionIds, RefuseLine(s) PROVE SessionInv'
  <1> DEFINE r == Refilled(s)
             t == bucket[s].tokens
             l == bucket[s].last
  <1>1. /\ SessionTypeOK /\ BucketOK(s) /\ l <= now /\ l \in Nat /\ now \in Nat
        /\ t \in 0..Capacity /\ DOMAIN passed[s] = 1..Len(passed[s])
        /\ \A i \in DOMAIN passed[s] : passed[s][i] \in Nat
    BY DEF SessionInv, SessionTypeOK, Bucket, BucketOK
  <1>2. /\ r \in 0..Capacity /\ r <= t + (now - l)
        /\ r = Capacity \/ r = t + (now - l)
    BY <1>1, RefilledType
  <1>3. /\ bucket'[s] = [tokens |-> r, last |-> now]
        /\ \A z \in SessionIds \ {s} : bucket'[z] = bucket[z]
        /\ passed' = passed /\ stats' = stats /\ apiCalls' = apiCalls /\ now' = now
    BY <1>1 DEF RefuseLine, SessionTypeOK
  <1>4. SessionTypeOK'
    <2>1. [tokens |-> r, last |-> now] \in Bucket
      BY <1>1, <1>2 DEF Bucket
    <2>2. bucket' \in [SessionIds -> Bucket']
      BY <1>1, <2>1 DEF RefuseLine, SessionTypeOK, Bucket, Capacity
    <2>3. limited' \in [SessionIds -> Nat] /\ lines' \in 0..MaxLines
      BY <1>1, SessionsAssumption DEF RefuseLine, OneMoreLine, SessionTypeOK
    <2> QED BY <1>1, <1>3, <2>2, <2>3 DEF SessionTypeOK, Stats
  <1>5. bucket'[s].tokens = r /\ bucket'[s].last = now
    BY <1>3
  <1> DEFINE spent(i) == (Len(passed[s]) - i + 1) * Cost
  <1>6. \A i \in DOMAIN passed[s] : spent(i) \in Int
    <2> TAKE i \in DOMAIN passed[s]
    <2>1. Len(passed[s]) - i + 1 \in Int
      BY <1>1 DEF SessionTypeOK
    <2> QED BY <2>1, OneMore
  <1>7. \A i \in DOMAIN passed[s] :
          /\ Left(s, i) = Capacity + (l - passed[s][i]) - spent(i)
          /\ Left(s, i)' = Capacity + (now - passed[s][i]) - spent(i)
    BY <1>3, <1>5 DEF Left, Capacity
  <1>9. r \in Int /\ t \in Int /\ l \in Int /\ now \in Int /\ Capacity \in Int
    BY <1>1, <1>2, CapacityType
  <1>10. NotAbove(s)'
    <2> SUFFICES ASSUME NEW i \in DOMAIN passed[s] PROVE r <= Left(s, i)'
      BY <1>3, <1>5 DEF NotAbove
    <2>1. t <= Left(s, i)
      BY <1>1 DEF BucketOK, NotAbove
    <2>2. spent(i) \in Int /\ passed[s][i] \in Int
      BY <1>1, <1>6
    <2> HIDE DEF r, t, l, spent
    <2> QED BY <1>2, <1>7, <1>9, <2>1, <2>2
  <1>11. NotBelow(s)'
    <2>1. CASE r = Capacity
      BY <1>5, <2>1 DEF NotBelow, Capacity
    <2>2. CASE r # Capacity
      <3>1. t # Capacity
        BY <1>1, <1>2, <1>9, <2>2
      <3>2. PICK i \in DOMAIN passed[s] : t = Left(s, i)
        BY <1>1, <3>1 DEF BucketOK, NotBelow
      <3>3. spent(i) \in Int /\ passed[s][i] \in Int
        BY <1>1, <1>6
      <3>4. r = Left(s, i)'
        <4> HIDE DEF r, t, l, spent
        <4> QED BY <1>2, <1>7, <1>9, <2>2, <3>2, <3>3
      <3> QED BY <1>3, <1>5, <3>4 DEF NotBelow
    <2> QED BY <2>1, <2>2
  <1>12. CallsAllowed(s)'
    <2> DEFINE calls == stats[s].calls - apiCalls[s]
    <2>1. calls \in Nat /\ stats[s].first \in Nat
      BY <1>1 DEF BucketOK, CallsAllowed, SessionTypeOK, Stats
    <2>2. calls > 0 => stats[s].first <= now /\ r + calls * Cost <= Capacity + (now - stats[s].first)
      BY <1>1, InflowCovers
    <2> QED BY <1>3, <1>5, <2>1, <2>2 DEF CallsAllowed, Capacity
  <1>13. BucketOK(s)'
    <2>1. BoundOf(s)'
      BY <1>1, <1>3 DEF BucketOK, BoundOf, Capacity
    <2>2. \A i \in DOMAIN passed[s] : passed[s][i] <= now
      BY <1>1 DEF BucketOK
    <2> QED BY <1>1, <1>3, <1>5, <1>10, <1>11, <1>12, <2>1, <2>2 DEF BucketOK
  <1>14. \A z \in SessionIds \ {s} : BucketOK(z)'
    BY <1>1, <1>3, UntouchedSession DEF SessionInv
  <1> QED BY <1>4, <1>13, <1>14 DEF SessionInv

\* A line that is let pass and counts for nothing.
LEMMA OtherStep ==
  ASSUME SessionInv, NEW s \in SessionIds, OtherLine(s) PROVE SessionInv'
  <1>1. /\ SessionTypeOK /\ BucketOK(s) /\ Admit(s)
        /\ stats' = stats /\ apiCalls' = apiCalls /\ now' = now
        /\ \A z \in SessionIds \ {s} : bucket'[z] = bucket[z] /\ passed'[z] = passed[z]
    BY DEF SessionInv, SessionTypeOK, OtherLine, Admit
  <1>2. /\ bucket' \in [SessionIds -> Bucket]
        /\ passed' \in [SessionIds -> Seq(Nat)]
        /\ bucket'[s].last = now
        /\ bucket'[s].tokens = Refilled(s) - Cost
        /\ \A i \in DOMAIN passed'[s] : passed'[s][i] <= now
        /\ NotAbove(s)' /\ NotBelow(s)' /\ BoundOf(s)'
    BY <1>1, AdmitKeeps
  <1>3. SessionTypeOK'
    <2>1. bucket' \in [SessionIds -> Bucket']
      BY <1>2 DEF Bucket, Capacity
    <2>2. limited' \in [SessionIds -> Nat] /\ lines' \in 0..MaxLines
      BY <1>1, SessionsAssumption DEF OtherLine, Admit, OneMoreLine, SessionTypeOK
    <2> QED BY <1>1, <1>2, <2>1, <2>2 DEF SessionTypeOK, Stats
  <1>4. CallsAllowed(s)'
    <2> DEFINE calls == stats[s].calls - apiCalls[s]
               paid == calls * Cost
               first == stats[s].first
               r == Refilled(s)
    <2>1. /\ calls \in Nat /\ first \in Nat /\ now \in Nat /\ r \in 0..Capacity
          /\ bucket[s].last <= now
      BY <1>1, RefilledType DEF BucketOK, CallsAllowed, SessionTypeOK, Stats
    <2>2. paid \in Int
      BY <2>1, OneMore
    <2>3. calls > 0 => first <= now /\ r + paid <= Capacity + (now - first)
      BY <1>1, InflowCovers
    <2>4. calls > 0 => first <= now /\ (r - Cost) + paid <= Capacity + (now - first)
      <3> HIDE DEF calls, paid, first, r
      <3> QED BY <2>1, <2>2, <2>3, CapacityType
    <2> QED BY <1>1, <1>2, <2>1, <2>4 DEF CallsAllowed, Capacity
  <1>5. BucketOK(s)'
    BY <1>1, <1>2, <1>4 DEF BucketOK, SessionTypeOK
  <1>6. \A z \in SessionIds \ {s} : BucketOK(z)'
    <2>1. now' \in Nat /\ now <= now'
      BY <1>1 DEF SessionTypeOK
    <2> QED BY <1>1, <2>1, UntouchedSession DEF SessionInv
  <1> QED BY <1>3, <1>5, <1>6 DEF SessionInv

\* What CountCall writes.
LEMMA CountKeeps ==
  ASSUME SessionTypeOK, NEW s \in SessionIds, CountCall(s)
  PROVE  /\ stats' \in [SessionIds -> Stats]
         /\ stats'[s].calls = stats[s].calls + 1
         /\ stats'[s].first = IF stats[s].calls = 0 THEN now ELSE stats[s].first
         /\ \A z \in SessionIds \ {s} : stats'[z] = stats[z]
  <1>1. stats[s].calls \in Nat /\ stats[s].first \in Nat /\ now \in Nat
    BY DEF SessionTypeOK, Stats
  <1>2. [calls |-> stats[s].calls + 1,
         first |-> IF stats[s].calls = 0 THEN now ELSE stats[s].first] \in Stats
    BY <1>1 DEF Stats
  <1> QED BY <1>2 DEF CountCall, SessionTypeOK

\* A call that came through the limiter.
LEMMA CallStep ==
  ASSUME SessionInv, NEW s \in SessionIds, CallLine(s) PROVE SessionInv'
  <1>1. /\ SessionTypeOK /\ BucketOK(s) /\ Admit(s) /\ CountCall(s)
        /\ apiCalls' = apiCalls /\ now' = now
        /\ \A z \in SessionIds \ {s} : bucket'[z] = bucket[z] /\ passed'[z] = passed[z]
    BY DEF SessionInv, SessionTypeOK, CallLine, Admit
  <1>2. /\ bucket' \in [SessionIds -> Bucket]
        /\ passed' \in [SessionIds -> Seq(Nat)]
        /\ bucket'[s].last = now
        /\ bucket'[s].tokens = Refilled(s) - Cost
        /\ \A i \in DOMAIN passed'[s] : passed'[s][i] <= now
        /\ NotAbove(s)' /\ NotBelow(s)' /\ BoundOf(s)'
    BY <1>1, AdmitKeeps
  <1>3. /\ stats' \in [SessionIds -> Stats]
        /\ stats'[s].calls = stats[s].calls + 1
        /\ stats'[s].first = IF stats[s].calls = 0 THEN now ELSE stats[s].first
        /\ \A z \in SessionIds \ {s} : stats'[z] = stats[z]
    BY <1>1, CountKeeps
  <1>4. SessionTypeOK'
    <2>1. bucket' \in [SessionIds -> Bucket'] /\ stats' \in [SessionIds -> Stats']
      BY <1>2, <1>3 DEF Bucket, Capacity, Stats
    <2>2. limited' \in [SessionIds -> Nat] /\ lines' \in 0..MaxLines
      BY <1>1, SessionsAssumption DEF CallLine, Admit, OneMoreLine, SessionTypeOK
    <2> QED BY <1>1, <1>2, <2>1, <2>2 DEF SessionTypeOK
  <1> DEFINE calls == stats[s].calls - apiCalls[s]
             paid == calls * Cost
             first == stats[s].first
             r == Refilled(s)
  <1>5. /\ calls \in Nat /\ first \in Nat /\ now \in Nat /\ r \in 0..Capacity /\ first <= now
        /\ stats[s].calls \in Nat /\ apiCalls[s] \in Nat /\ bucket[s].last <= now
    BY <1>1, RefilledType DEF BucketOK, CallsAllowed, SessionTypeOK, Stats
  <1>6. paid \in Int /\ (calls + 1) * Cost = paid + Cost
    BY <1>5, OneMore
  <1>7. stats'[s].calls - apiCalls'[s] = calls + 1
    BY <1>1, <1>3, <1>5
  <1>8. stats'[s].first <= now
    BY <1>3, <1>5
  <1>9. (r - Cost) + (paid + Cost) <= Capacity + (now - stats'[s].first)
    <2>1. CASE stats[s].calls = 0
      <3>1. calls = 0 /\ paid = 0
        BY <1>5, <2>1, CapacityType
      <3>2. stats'[s].first = now
        BY <1>3, <2>1
      <3> HIDE DEF r, paid, calls
      <3> QED BY <1>5, <3>1, <3>2, CapacityType
    <2>2. CASE stats[s].calls # 0
      <3>1. stats'[s].first = first
        BY <1>3, <2>2
      <3>2. calls > 0 => r + paid <= Capacity + (now - first)
        BY <1>1, InflowCovers
      <3>3. calls = 0 => paid = 0
        BY CapacityType
      <3> HIDE DEF r, paid, calls, first
      <3> QED BY <1>5, <1>6, <3>1, <3>2, <3>3, CapacityType
    <2> QED BY <2>1, <2>2
  <1>10. CallsAllowed(s)'
    <2>1. calls + 1 \in Nat
      BY <1>5
    <2>2. bucket'[s].tokens + (stats'[s].calls - apiCalls'[s]) * Cost
            <= Capacity + (now - stats'[s].first)
      BY <1>2, <1>6, <1>7, <1>9
    <2> QED BY <1>2, <1>7, <1>8, <2>1, <2>2 DEF CallsAllowed, Capacity
  <1>11. BucketOK(s)'
    BY <1>1, <1>2, <1>5, <1>8, <1>10 DEF BucketOK
  <1>12. \A z \in SessionIds \ {s} : BucketOK(z)'
    BY <1>1, <1>3, <1>5, UntouchedSession DEF SessionInv
  <1> QED BY <1>4, <1>11, <1>12 DEF SessionInv

\* A call that came by REST.
LEMMA ApiStep ==
  ASSUME SessionInv, NEW s \in SessionIds, ApiCall(s) PROVE SessionInv'
  <1>1. /\ SessionTypeOK /\ BucketOK(s) /\ CountCall(s)
        /\ bucket' = bucket /\ passed' = passed /\ limited' = limited /\ now' = now
        /\ apiCalls' = [apiCalls EXCEPT ![s] = apiCalls[s] + 1]
    BY DEF SessionInv, ApiCall
  <1>2. /\ stats' \in [SessionIds -> Stats]
        /\ stats'[s].calls = stats[s].calls + 1
        /\ stats'[s].first = IF stats[s].calls = 0 THEN now ELSE stats[s].first
        /\ \A z \in SessionIds \ {s} : stats'[z] = stats[z]
    BY <1>1, CountKeeps
  <1>3. SessionTypeOK'
    <2>1. bucket' \in [SessionIds -> Bucket'] /\ stats' \in [SessionIds -> Stats']
      BY <1>1, <1>2 DEF Bucket, Capacity, Stats, SessionTypeOK
    <2>2. apiCalls' \in [SessionIds -> Nat] /\ lines' \in 0..MaxLines
      BY <1>1, SessionsAssumption DEF ApiCall, OneMoreLine, SessionTypeOK
    <2> QED BY <1>1, <2>1, <2>2 DEF SessionTypeOK
  <1>4. /\ stats[s].calls \in Nat /\ stats[s].first \in Nat /\ now \in Nat
        /\ apiCalls[s] \in Nat /\ stats[s].first <= now
    BY <1>1 DEF SessionTypeOK, Stats, BucketOK
  <1>5. apiCalls'[s] = apiCalls[s] + 1
    BY <1>1 DEF SessionTypeOK
  <1>6. stats'[s].calls - apiCalls'[s] = stats[s].calls - apiCalls[s]
    BY <1>2, <1>4, <1>5
  <1>7. stats[s].calls - apiCalls[s] > 0 => stats'[s].first = stats[s].first
    BY <1>2, <1>4
  <1>8. CallsAllowed(s)'
    <2> DEFINE calls == stats[s].calls - apiCalls[s]
    <2>1. /\ calls \in Nat
          /\ calls > 0 => /\ stats[s].first <= bucket[s].last
                          /\ bucket[s].tokens + calls * Cost
                               <= Capacity + (bucket[s].last - stats[s].first)
      BY <1>1 DEF BucketOK, CallsAllowed
    <2> QED BY <1>1, <1>6, <1>7, <2>1 DEF CallsAllowed, Capacity
  <1>9. stats'[s].first <= now
    BY <1>2, <1>4
  <1>10. (/\ \A i \in DOMAIN passed[s] : passed[s][i] <= bucket[s].last
          /\ NotAbove(s) /\ NotBelow(s) /\ BoundOf(s))'
    BY <1>1 DEF BucketOK, NotAbove, NotBelow, BoundOf, Left, Capacity
  <1>11. BucketOK(s)'
    <2>1. bucket'[s].last <= now'
      BY <1>1 DEF BucketOK
    <2> QED BY <1>1, <1>8, <1>9, <1>10, <2>1 DEF BucketOK
  <1>12. \A z \in SessionIds \ {s} : BucketOK(z)'
    <2>1. \A z \in SessionIds \ {s} : apiCalls'[z] = apiCalls[z]
      BY <1>1 DEF SessionTypeOK
    <2> QED BY <1>1, <1>2, <1>4, <2>1, UntouchedSession DEF SessionInv
  <1> QED BY <1>3, <1>11, <1>12 DEF SessionInv

\* A session with no entries.
LEMMA FreshSession ==
  ASSUME NEW s \in SessionIds, now' \in Nat, bucket'[s] = FullBucket, stats'[s] = NoCalls,
         passed'[s] = <<>>, apiCalls'[s] = 0
  PROVE  BucketOK(s)'
  <1>1. /\ bucket'[s].tokens = Capacity /\ bucket'[s].last = 0
        /\ stats'[s].calls = 0 /\ stats'[s].first = 0 /\ DOMAIN passed'[s] = {}
    BY DEF FullBucket, NoCalls
  <1>2. NotAbove(s)' /\ BoundOf(s)'
    BY <1>1 DEF NotAbove, BoundOf
  <1>3. NotBelow(s)' /\ CallsAllowed(s)'
    BY <1>1 DEF NotBelow, CallsAllowed, Capacity
  <1> QED BY <1>1, <1>2, <1>3 DEF BucketOK

\* The process ends.
LEMMA ForgetStep == ASSUME SessionInv, Forget PROVE SessionInv'
  <1>1. SessionTypeOK
    BY DEF SessionInv
  <1>2. FullBucket \in Bucket' /\ NoCalls \in Stats'
    BY CapacityType DEF FullBucket, NoCalls, Bucket, Stats, Capacity
  <1>3. SessionTypeOK'
    BY <1>1, <1>2 DEF Forget, SessionTypeOK
  <1>4. \A s \in SessionIds : BucketOK(s)'
    BY <1>1, FreshSession DEF Forget, SessionTypeOK
  <1> QED BY <1>3, <1>4 DEF SessionInv

\* The clock.
LEMMA TickStep == ASSUME SessionInv, Tick PROVE SessionInv'
  <1>1. SessionTypeOK /\ now \in 0..MaxTime
    BY DEF SessionInv, SessionTypeOK
  <1>2. now' \in 0..MaxTime /\ now' \in Nat /\ now <= now'
    BY <1>1, SessionsAssumption DEF Tick
  <1>3. SessionTypeOK'
    BY <1>1, <1>2 DEF Tick, SessionTypeOK, Bucket, Stats, Capacity
  <1>4. \A s \in SessionIds : BucketOK(s)'
    BY <1>1, <1>2, UntouchedSession DEF Tick, SessionInv
  <1> QED BY <1>3, <1>4 DEF SessionInv

\* Nothing changes.
LEMMA SessionStutter == ASSUME SessionInv, UNCHANGED sessionVars PROVE SessionInv'
  <1>1. SessionTypeOK /\ now \in Nat
    BY DEF SessionInv, SessionTypeOK
  <1>2. SessionTypeOK'
    BY <1>1 DEF sessionVars, SessionTypeOK, Bucket, Stats, Capacity
  <1>3. \A s \in SessionIds : BucketOK(s)'
    BY <1>1, UntouchedSession DEF sessionVars, SessionInv
  <1> QED BY <1>2, <1>3 DEF SessionInv

LEMMA SessionStep == SessionInv /\ [SessionNext]_sessionVars => SessionInv'
  <1> SUFFICES ASSUME SessionInv, [SessionNext]_sessionVars PROVE SessionInv'
    OBVIOUS
  <1>1. CASE UNCHANGED sessionVars
    BY <1>1, SessionStutter
  <1>2. CASE Forget
    BY <1>2, ForgetStep
  <1>3. CASE Tick
    BY <1>3, TickStep
  <1>4. ASSUME NEW s \in SessionIds, RefuseLine(s) PROVE SessionInv'
    BY <1>4, RefuseStep
  <1>5. ASSUME NEW s \in SessionIds, OtherLine(s) PROVE SessionInv'
    BY <1>5, OtherStep
  <1>6. ASSUME NEW s \in SessionIds, CallLine(s) PROVE SessionInv'
    BY <1>6, CallStep
  <1>7. ASSUME NEW s \in SessionIds, ApiCall(s) PROVE SessionInv'
    BY <1>7, ApiStep
  <1> QED BY <1>1, <1>2, <1>3, <1>4, <1>5, <1>6, <1>7 DEF SessionNext

LEMMA SessionStart == SessionInit => SessionInv
  <1> SUFFICES ASSUME SessionInit PROVE SessionInv
    OBVIOUS
  <1>1. FullBucket \in Bucket /\ NoCalls \in Stats
    BY CapacityType DEF FullBucket, NoCalls, Bucket, Stats
  <1>2. SessionTypeOK
    BY <1>1, SessionsAssumption DEF SessionInit, SessionTypeOK
  <1>3. ASSUME NEW s \in SessionIds PROVE BucketOK(s)
    <2>1. /\ bucket[s].tokens = Capacity /\ bucket[s].last = 0 /\ now = 0
          /\ stats[s].calls = 0 /\ stats[s].first = 0 /\ DOMAIN passed[s] = {}
          /\ apiCalls[s] = 0
      BY DEF SessionInit, FullBucket, NoCalls
    <2> QED BY <2>1 DEF BucketOK, NotAbove, NotBelow, BoundOf, CallsAllowed
  <1> QED BY <1>2, <1>3 DEF SessionInv

-----------------------------------------------------------------------------
(* The theorems *)

\* The invariant, which has the types of the session variables in it.
THEOREM SessionInvariant == SessionSpec => []SessionInv
  <1> QED BY SessionStart, SessionStep, PTL DEF SessionSpec

\* The limiter lets no more pass than burst and rate allow, in any stretch of any
\* session (RateLimiter::check).
THEOREM BurstTheorem == SessionSpec => []BurstBound
  <1>1. SessionInv => BurstBound
    BY DEF SessionInv, BucketOK, BoundOf, BurstBound
  <1> QED BY <1>1, SessionInvariant, PTL

\* The calls counted for the policy are within what the limiter let pass.
THEOREM RateTheorem == SessionSpec => []ObservedRateBounded
  <1>1. ASSUME SessionInv, NEW s \in SessionIds
        PROVE  (stats[s].calls - apiCalls[s]) * Cost <= Capacity + Elapsed(s)
    <2> DEFINE calls == stats[s].calls - apiCalls[s]
               paid == calls * Cost
               first == stats[s].first
               t == bucket[s].tokens
               l == bucket[s].last
    <2>1. /\ calls \in Nat /\ first \in Nat /\ now \in Nat /\ t \in Nat /\ l \in Nat
          /\ l <= now /\ first <= now
          /\ calls > 0 => t + paid <= Capacity + (l - first)
      BY <1>1, CapacityType DEF SessionInv, SessionTypeOK, Bucket, Stats, BucketOK, CallsAllowed
    <2>2. paid \in Int /\ (calls = 0 => paid = 0)
      BY <2>1, OneMore, CapacityType
    <2>3. paid <= Capacity + (now - first)
      <3> HIDE DEF calls, paid, first, t, l
      <3> QED BY <2>1, <2>2, CapacityType
    <2> QED BY <2>3 DEF Elapsed
  <1>2. SessionInv => ObservedRateBounded
    BY <1>1 DEF ObservedRateBounded
  <1> QED BY <1>2, SessionInvariant, PTL

\* The limiter refuses nothing that it could let pass within the bound.
THEOREM SpentTheorem == SessionSpec => RefusedOnlyWhenSpent
  <1> DEFINE Spent == \A s \in SessionIds : limited'[s] # limited[s] =>
                       \E i \in DOMAIN passed[s] :
                         (Len(passed[s]) - i + 2) * Cost > Capacity + (now - passed[s][i])
  <1>1. ASSUME SessionInv, NEW s \in SessionIds, RefuseLine(s)
        PROVE  \E i \in DOMAIN passed[s] :
                 (Len(passed[s]) - i + 2) * Cost > Capacity + (now - passed[s][i])
    <2> DEFINE r == Refilled(s)
               t == bucket[s].tokens
               l == bucket[s].last
    <2>1. /\ SessionTypeOK /\ l <= now /\ l \in Nat /\ now \in Nat /\ t \in 0..Capacity
          /\ DOMAIN passed[s] = 1..Len(passed[s]) /\ Len(passed[s]) \in Nat
          /\ \A i \in DOMAIN passed[s] : passed[s][i] \in Nat
      BY <1>1 DEF SessionInv, SessionTypeOK, Bucket, BucketOK
    <2>2. r < Cost /\ r \in Nat /\ (r = Capacity \/ r = t + (now - l))
      BY <1>1, <2>1, RefilledType, CapacityType DEF RefuseLine
    <2>3. r = t + (now - l) /\ t # Capacity
      <3> HIDE DEF r
      <3> QED BY <2>1, <2>2, CapacityType
    <2>4. PICK i \in DOMAIN passed[s] : t = Left(s, i)
      BY <1>1, <2>3 DEF SessionInv, BucketOK, NotBelow
    <2> DEFINE n == Len(passed[s]) - i + 1
               spent == n * Cost
    <2>5. n \in Int
      BY <2>1
    <2>6. (n + 1) * Cost = spent + Cost
      BY <2>5, OneMore
    <2>7. Len(passed[s]) - i + 2 = n + 1
      BY <2>1
    <2>8. t = Capacity + (l - passed[s][i]) - spent
      BY <2>4 DEF Left
    <2>9. spent + Cost > Capacity + (now - passed[s][i])
      <3>1. spent \in Int
        BY <2>5, OneMore
      <3>2. passed[s][i] \in Nat
        BY <2>1
      <3> HIDE DEF spent, r, t, l
      <3>3. r \in Int /\ t \in Int /\ l \in Int /\ now \in Int /\ r < Cost /\ r = t + (now - l)
        BY <2>1, <2>2, <2>3
      <3> QED BY <2>8, <3>1, <3>2, <3>3, CapacityType
    <2>10. (Len(passed[s]) - i + 2) * Cost > Capacity + (now - passed[s][i])
      BY <2>6, <2>7, <2>9
    <2> QED BY <2>10
  <1>2. ASSUME SessionInv, [SessionNext]_sessionVars, NEW s \in SessionIds,
               limited'[s] # limited[s]
        PROVE  RefuseLine(s)
    <2>1. ASSUME NEW z \in SessionIds, RefuseLine(z) PROVE z = s
      BY <1>2, <2>1 DEF RefuseLine, SessionInv, SessionTypeOK
    <2> QED BY <1>2, <2>1 DEF SessionNext, sessionVars, OtherLine, CallLine, ApiCall, Admit,
                              Forget, Tick
  <1>3. SessionInv /\ [SessionNext]_sessionVars => [Spent]_sessionVars
    BY <1>1, <1>2
  <1> QED BY <1>3, SessionInvariant, PTL DEF SessionSpec, RefusedOnlyWhenSpent
=============================================================================
