-------------------------- MODULE RtspServerProofs --------------------------
EXTENDS RtspServer, Integers, TLAPS

(* Arithmetic modulo TsMod *)

\* A remainder is in range.
LEMMA ModRange == ASSUME NEW m \in Nat \ {0}, NEW x \in Nat PROVE x % m \in 0..(m - 1)
OBVIOUS

\* The remainder is the one number in range that differs by a multiple.
LEMMA ModUnique ==
  ASSUME NEW m \in Nat \ {0}, NEW x \in Nat, NEW k \in Nat, k * m <= x, x < k * m + m
  PROVE x % m = x - k * m
<1> DEFINE q == x \div m
           r == x % m
<1>1. q \in Int /\ r \in 0..(m - 1) /\ x = m * q + r OBVIOUS
<1> HIDE DEF q, r
<1>2. ~(q >= k + 1)
  <2> SUFFICES ASSUME q >= k + 1 PROVE FALSE OBVIOUS
  <2>1. m * q >= m * (k + 1) BY <1>1
  <2>2. m * (k + 1) = k * m + m OBVIOUS
  <2> QED BY <1>1, <2>1, <2>2
<1>3. ~(q <= k - 1)
  <2> SUFFICES ASSUME q <= k - 1 PROVE FALSE OBVIOUS
  <2>1. m * q <= m * (k - 1) BY <1>1
  <2>2. m * (k - 1) = k * m - m OBVIOUS
  <2> QED BY <1>1, <2>1, <2>2
<1>4. q = k BY <1>1, <1>2, <1>3
<1>5. r = x - k * m BY <1>1, <1>4
<1> QED BY <1>5 DEF r

\* ... and so for what is less than three times the modulus.
LEMMA ModCases ==
  ASSUME NEW x \in Nat, x < 3 * TsMod
  PROVE x % TsMod = IF x < TsMod THEN x ELSE IF x < 2 * TsMod THEN x - TsMod ELSE x - 2 * TsMod
<1>0. TsMod \in Nat \ {0} BY RtspAssumption
<1>1. CASE x < TsMod BY <1>0, <1>1, ModUnique, 0 * TsMod = 0
<1>2. CASE x >= TsMod /\ x < 2 * TsMod BY <1>0, <1>2, ModUnique, 1 * TsMod = TsMod
<1>3. CASE x >= 2 * TsMod BY <1>0, <1>3, ModUnique
<1> QED BY <1>0, <1>1, <1>2, <1>3

\* Zero is a timestamp.
LEMMA ZeroType == 0 \in Timestamps
BY RtspAssumption DEF Timestamps

\* So is a sum of two.
LEMMA SumType == ASSUME NEW a \in Timestamps, NEW b \in Timestamps PROVE (a + b) % TsMod \in Timestamps
<1>1. a + b \in Nat /\ TsMod \in Nat \ {0} BY RtspAssumption DEF Timestamps
<1> QED BY <1>1, ModRange DEF Timestamps

\* ... and the device's next timestamp, and an overtaken packet's.
LEMMA StepType ==
  ASSUME NEW a \in Timestamps, NEW g \in 0..MaxGap
  PROVE (a + g) % TsMod \in Timestamps /\ (a + TsMod - g) % TsMod \in Timestamps
<1>1. a + g \in Nat /\ a + TsMod - g \in Nat /\ TsMod \in Nat \ {0} BY RtspAssumption DEF Timestamps
<1> QED BY <1>1, ModRange DEF Timestamps

\* An offset does not change how far apart two timestamps are.
LEMMA ForwardShift ==
  ASSUME NEW a \in Timestamps, NEW b \in Timestamps, NEW o \in Timestamps
  PROVE Forward((a + o) % TsMod, (b + o) % TsMod) = Forward(a, b)
<1>0. TsMod \in Nat \ {0} /\ a \in 0..(TsMod - 1) /\ b \in 0..(TsMod - 1) /\ o \in 0..(TsMod - 1)
  BY RtspAssumption DEF Timestamps
<1> DEFINE p == (a + o) % TsMod
           q == (b + o) % TsMod
<1>1. p = IF a + o < TsMod THEN a + o ELSE a + o - TsMod BY <1>0, ModCases
<1>2. q = IF b + o < TsMod THEN b + o ELSE b + o - TsMod BY <1>0, ModCases
<1> HIDE DEF p, q
<1>3. p \in 0..(TsMod - 1) /\ q \in 0..(TsMod - 1) BY <1>0, <1>1, <1>2
<1>4. (q + TsMod - p) % TsMod = IF q < p THEN q + TsMod - p ELSE q - p BY <1>0, <1>3, ModCases
<1>5. (b + TsMod - a) % TsMod = IF b < a THEN b + TsMod - a ELSE b - a BY <1>0, ModCases
<1>6. (q + TsMod - p) % TsMod = (b + TsMod - a) % TsMod BY <1>0, <1>1, <1>2, <1>4, <1>5
<1> QED BY <1>6 DEF Forward, p, q

\* A new offset makes the output go on by one.
LEMMA ForwardOne ==
  ASSUME NEW a \in Timestamps, NEW ts \in Timestamps
  PROVE Forward(a, (ts + ((a + 1 + TsMod - ts) % TsMod)) % TsMod) <= TsMod \div 2
<1>0. TsMod \in Nat \ {0} /\ a \in 0..(TsMod - 1) /\ ts \in 0..(TsMod - 1) BY RtspAssumption DEF Timestamps
<1> DEFINE o == (a + 1 + TsMod - ts) % TsMod
           q == (ts + o) % TsMod
<1>1. o = IF a + 1 < ts THEN a + 1 + TsMod - ts ELSE IF a + 1 - ts < TsMod THEN a + 1 - ts ELSE 0
  BY <1>0, ModCases
<1> HIDE DEF o
<1>2. o \in 0..(TsMod - 1) BY <1>0, <1>1
<1>3. q = IF ts + o < TsMod THEN ts + o ELSE ts + o - TsMod BY <1>0, <1>2, ModCases
<1> HIDE DEF q
<1>4. q = IF a + 1 < TsMod THEN a + 1 ELSE 0 BY <1>0, <1>1, <1>3
<1>5. (q + TsMod - a) % TsMod = IF q < a THEN q + TsMod - a ELSE q - a BY <1>0, <1>4, ModCases
<1>6. CASE TsMod = 1
  <2>1. q = a BY <1>0, <1>4, <1>6
  <2> QED BY <1>0, <1>5, <1>6, <2>1 DEF Forward, q, o
<1>7. CASE TsMod >= 2
  <2>1. (q + TsMod - a) % TsMod = 1 BY <1>0, <1>4, <1>5, <1>7
  <2>2. 1 <= TsMod \div 2 BY <1>0, <1>7
  <2> QED BY <2>1, <2>2 DEF Forward, q, o
<1> QED BY <1>0, <1>6, <1>7

(* The invariant. Every lemma over Next has one step per action of RtspServer. *)

\* A started server satisfies the invariant.
LEMMA InitInv == Init => IndInv
<1> SUFFICES ASSUME Init PROVE IndInv OBVIOUS
<1> USE RtspAssumption DEF Init
<1>1. queue \in Seq([call : Calls, ts : Timestamps]) /\ Len(queue) <= MaxQueue OBVIOUS
<1>2. clock \in [Calls -> Timestamps] BY ZeroType
<1>3. TypeOK
  <2>1. tsOut \in Timestamps /\ tsOffset \in Timestamps BY ZeroType
  <2>2. call \in 0..MaxCalls OBVIOUS
  <2>3. handler \in [Clients -> {"none", "accepted", "request", "gate", "woken", "streaming"}] OBVIOUS
  <2> QED BY <1>1, <1>2, <2>1, <2>2, <2>3 DEF TypeOK
<1>4. ReceiversKnown BY DEF ReceiversKnown
<1>5. PrimedBeforeFrames /\ Translated /\ NoStaleFrames /\ ListedAreHandled BY DEF PrimedBeforeFrames, Translated, NoStaleFrames, ListedAreHandled
<1> QED BY <1>3, <1>4, <1>5 DEF IndInv

\* The offset stays within 32 bits.
LEMMA OffsetType ==
  ASSUME TypeOK, NEW ts \in Timestamps
  PROVE Offset(ts) \in Timestamps
<1>1. tsOut + 1 + TsMod - ts \in Nat /\ TsMod \in Nat \ {0} BY RtspAssumption DEF TypeOK, Timestamps
<1>2. (tsOut + 1 + TsMod - ts) % TsMod \in Timestamps BY <1>1, ModRange DEF Timestamps
<1> QED BY <1>2 DEF Offset, TypeOK

\* The attributes keep their types.
LEMMA TypeStep == IndInv /\ [Next]_vars => TypeOK'
<1> SUFFICES ASSUME IndInv, [Next]_vars PROVE TypeOK' OBVIOUS
<1> USE DEF IndInv, TypeOK, ReceiversKnown, Calls, cliV, tsV, devV
<1>1. ASSUME NEW c \in Clients, Connect(c) PROVE TypeOK' BY <1>1 DEF Connect
<1>2. ASSUME NEW c \in Clients, HandlerStarts(c) PROVE TypeOK' BY <1>2 DEF HandlerStarts, Ended
<1>3. ASSUME NEW c \in Clients, Play(c) PROVE TypeOK' BY <1>3 DEF Play, Register
<1>4. ASSUME NEW c \in Clients, PlayAnswered(c) PROVE TypeOK' BY <1>4 DEF PlayAnswered, Register
<1>5. ASSUME NEW c \in Clients, HandlerTimesOut(c) PROVE TypeOK' BY <1>5 DEF HandlerTimesOut, Ended
<1>6. ASSUME NEW c \in Clients, HandlerNotices(c) PROVE TypeOK' BY <1>6 DEF HandlerNotices, HandlerReads, Ended
<1>7. ASSUME NEW c \in Clients, HandlerReads(c) PROVE TypeOK' BY <1>7 DEF HandlerReads, Ended
<1>8. ASSUME NEW c \in Clients, Breaks(c) PROVE TypeOK' BY <1>8 DEF Breaks
<1>9. CASE MarkReady BY <1>9 DEF MarkReady
<1>10. CASE Withdraw BY <1>10 DEF Withdraw
<1>11. CASE StartCall BY <1>11, RtspAssumption DEF StartCall, Reset
<1>12. CASE ClockRestarts BY <1>12 DEF ClockRestarts
<1>13. CASE Renew BY <1>13, RtspAssumption DEF Renew, Reset
<1>14. ASSUME NEW k \in Calls, StopReceiver(k) PROVE TypeOK' BY <1>14, ZeroType DEF StopReceiver
<1>15. ASSUME NEW k \in Calls, Receive(k) PROVE TypeOK'
  <2> PICK g \in 0..MaxGap, overtaken \in BOOLEAN :
        LET now == (clock[k] + g) % TsMod
            ts == IF overtaken THEN (clock[k] + TsMod - g) % TsMod ELSE now
        IN /\ clock' = IF overtaken THEN clock ELSE [clock EXCEPT ![k] = now]
           /\ queue' = IF Len(queue) < MaxQueue THEN Append(queue, [call |-> k, ts |-> ts]) ELSE queue
    BY <1>15 DEF Receive
  <2> DEFINE now == (clock[k] + g) % TsMod
             ts == IF overtaken THEN (clock[k] + TsMod - g) % TsMod ELSE now
             P == [call : Calls, ts : Timestamps]
  <2>1. now \in Timestamps /\ ts \in Timestamps
    <3>1. clock[k] \in Timestamps OBVIOUS
    <3> QED BY <3>1, StepType
  <2>2. clock' \in [Calls -> Timestamps]
    <3>1. clock' = IF overtaken THEN clock ELSE [clock EXCEPT ![k] = now] OBVIOUS
    <3>2. clock \in [Calls -> Timestamps] OBVIOUS
    <3> HIDE DEF now, IndInv
    <3> QED BY <2>1, <3>1, <3>2
  <2>3. [call |-> k, ts |-> ts] \in P BY <2>1
  <2>4. queue' \in Seq(P) /\ Len(queue') <= MaxQueue
    <3>1. queue \in Seq(P) /\ Len(queue) <= MaxQueue /\ MaxQueue \in Nat BY RtspAssumption
    <3>2. queue' = IF Len(queue) < MaxQueue THEN Append(queue, [call |-> k, ts |-> ts]) ELSE queue OBVIOUS
    <3> HIDE DEF P, ts
    <3> QED BY <2>3, <3>1, <3>2
  <2> QED BY <1>15, <2>2, <2>4 DEF Receive
<1>16. CASE Broadcast
  <2> DEFINE P == [call : Calls, ts : Timestamps]
  <2>1. queue \in Seq(P) /\ queue # <<>> /\ Len(queue) <= MaxQueue /\ queue' = Tail(queue)
    BY <1>16 DEF Broadcast
  <2>2. queue' \in Seq(P) /\ Len(queue') <= MaxQueue
    <3> HIDE DEF P
    <3> QED BY <2>1, RtspAssumption
  <2>3. Head(queue) \in P
    <3> HIDE DEF P
    <3> QED BY <2>1
  <2>4. Head(queue).ts \in Timestamps BY <2>3
  <2>5. tsOffset' \in Timestamps BY <1>16, <2>4, OffsetType DEF Broadcast
  <2>6. tsOut' \in Timestamps BY <1>16, <2>4, <2>5, SumType DEF Broadcast
  <2>7. lastTs' \in Timestamps \cup {NoTs} BY <1>16, <2>4 DEF Broadcast
  <2> QED BY <1>16, <2>2, <2>5, <2>6, <2>7 DEF Broadcast
<1>17. CASE Stop BY <1>17 DEF Stop
<1>18. CASE CloseSocket BY <1>18 DEF CloseSocket
<1>19. CASE Stopped BY <1>19 DEF Stopped
<1>20. CASE UNCHANGED vars BY <1>20 DEF vars
<1> QED BY <1>1, <1>2, <1>3, <1>4, <1>5, <1>6, <1>7, <1>8, <1>9, <1>10, <1>11, <1>12, <1>13, <1>14, <1>15, <1>16, <1>17, <1>18, <1>19, <1>20 DEF Next, HandlerStep

\* A receiver that outlives its call is recorded as late.
LEMMA ReceiverStep == IndInv /\ [Next]_vars => ReceiversKnown'
<1> SUFFICES ASSUME IndInv, [Next]_vars PROVE ReceiversKnown' OBVIOUS
<1> USE DEF IndInv, TypeOK, ReceiversKnown, Calls, cliV, tsV, devV
<1>1. ASSUME NEW c \in Clients, Connect(c) PROVE ReceiversKnown' BY <1>1 DEF Connect
<1>2. ASSUME NEW c \in Clients, HandlerStarts(c) PROVE ReceiversKnown' BY <1>2 DEF HandlerStarts, Ended
<1>3. ASSUME NEW c \in Clients, Play(c) PROVE ReceiversKnown' BY <1>3 DEF Play, Register
<1>4. ASSUME NEW c \in Clients, PlayAnswered(c) PROVE ReceiversKnown' BY <1>4 DEF PlayAnswered, Register
<1>5. ASSUME NEW c \in Clients, HandlerTimesOut(c) PROVE ReceiversKnown' BY <1>5 DEF HandlerTimesOut, Ended
<1>6. ASSUME NEW c \in Clients, HandlerNotices(c) PROVE ReceiversKnown' BY <1>6 DEF HandlerNotices, HandlerReads, Ended
<1>7. ASSUME NEW c \in Clients, HandlerReads(c) PROVE ReceiversKnown' BY <1>7 DEF HandlerReads, Ended
<1>8. ASSUME NEW c \in Clients, Breaks(c) PROVE ReceiversKnown' BY <1>8 DEF Breaks
<1>9. CASE MarkReady BY <1>9 DEF MarkReady
<1>10. CASE Withdraw BY <1>10 DEF Withdraw
<1>11. CASE StartCall
  <2>1. call' = call + 1 /\ call < MaxCalls /\ receivers' = receivers \cup {call + 1} /\ late' = late \cup receivers
    BY <1>11 DEF StartCall
  <2>2. call' <= MaxCalls BY <2>1, RtspAssumption
  <2> QED BY <2>1, <2>2
<1>12. CASE ClockRestarts BY <1>12 DEF ClockRestarts
<1>13. CASE Renew BY <1>13 DEF Renew, Reset
<1>14. ASSUME NEW k \in Calls, StopReceiver(k) PROVE ReceiversKnown' BY <1>14 DEF StopReceiver
<1>15. ASSUME NEW k \in Calls, Receive(k) PROVE ReceiversKnown' BY <1>15 DEF Receive
<1>16. CASE Broadcast BY <1>16 DEF Broadcast
<1>17. CASE Stop BY <1>17 DEF Stop
<1>18. CASE CloseSocket BY <1>18 DEF CloseSocket
<1>19. CASE Stopped BY <1>19 DEF Stopped
<1>20. CASE UNCHANGED vars BY <1>20 DEF vars
<1> QED BY <1>1, <1>2, <1>3, <1>4, <1>5, <1>6, <1>7, <1>8, <1>9, <1>10, <1>11, <1>12, <1>13, <1>14, <1>15, <1>16, <1>17, <1>18, <1>19, <1>20 DEF Next, HandlerStep

\* Registering and resetting prime every client that can get a frame.
LEMMA PrimedStep == IndInv /\ [Next]_vars => PrimedBeforeFrames'
<1> SUFFICES ASSUME IndInv, [Next]_vars PROVE PrimedBeforeFrames' OBVIOUS
<1> USE DEF IndInv, TypeOK, PrimedBeforeFrames, cliV, tsV, devV
<1>1. ASSUME NEW c \in Clients, Connect(c) PROVE PrimedBeforeFrames' BY <1>1 DEF Connect
<1>2. ASSUME NEW c \in Clients, HandlerStarts(c) PROVE PrimedBeforeFrames' BY <1>2 DEF HandlerStarts, Ended
<1>3. ASSUME NEW c \in Clients, Play(c) PROVE PrimedBeforeFrames' BY <1>3 DEF Play, Register
<1>4. ASSUME NEW c \in Clients, PlayAnswered(c) PROVE PrimedBeforeFrames' BY <1>4 DEF PlayAnswered, Register
<1>5. ASSUME NEW c \in Clients, HandlerTimesOut(c) PROVE PrimedBeforeFrames' BY <1>5 DEF HandlerTimesOut, Ended
<1>6. ASSUME NEW c \in Clients, HandlerNotices(c) PROVE PrimedBeforeFrames' BY <1>6 DEF HandlerNotices, HandlerReads, Ended
<1>7. ASSUME NEW c \in Clients, HandlerReads(c) PROVE PrimedBeforeFrames' BY <1>7 DEF HandlerReads, Ended
<1>8. ASSUME NEW c \in Clients, Breaks(c) PROVE PrimedBeforeFrames' BY <1>8 DEF Breaks
<1>9. CASE MarkReady BY <1>9 DEF MarkReady
<1>10. CASE Withdraw BY <1>10 DEF Withdraw
<1>11. CASE StartCall BY <1>11 DEF StartCall, Reset
<1>12. CASE ClockRestarts BY <1>12 DEF ClockRestarts
<1>13. CASE Renew BY <1>13 DEF Renew, Reset
<1>14. ASSUME NEW k \in Calls, StopReceiver(k) PROVE PrimedBeforeFrames' BY <1>14 DEF StopReceiver
<1>15. ASSUME NEW k \in Calls, Receive(k) PROVE PrimedBeforeFrames' BY <1>15 DEF Receive
<1>16. CASE Broadcast BY <1>16 DEF Broadcast
<1>17. CASE Stop BY <1>17 DEF Stop
<1>18. CASE CloseSocket BY <1>18 DEF CloseSocket
<1>19. CASE Stopped BY <1>19 DEF Stopped
<1>20. CASE UNCHANGED vars BY <1>20 DEF vars
<1> QED BY <1>1, <1>2, <1>3, <1>4, <1>5, <1>6, <1>7, <1>8, <1>9, <1>10, <1>11, <1>12, <1>13, <1>14, <1>15, <1>16, <1>17, <1>18, <1>19, <1>20 DEF Next, HandlerStep

\* The queue is empty after a reset.
LEMMA StaleStep == IndInv /\ [Next]_vars => NoStaleFrames'
<1> SUFFICES ASSUME IndInv, [Next]_vars PROVE NoStaleFrames' OBVIOUS
<1> USE DEF IndInv, TypeOK, ReceiversKnown, NoStaleFrames, Calls, cliV, tsV, devV
<1>1. ASSUME NEW c \in Clients, Connect(c) PROVE NoStaleFrames' BY <1>1 DEF Connect
<1>2. ASSUME NEW c \in Clients, HandlerStarts(c) PROVE NoStaleFrames' BY <1>2 DEF HandlerStarts, Ended
<1>3. ASSUME NEW c \in Clients, Play(c) PROVE NoStaleFrames' BY <1>3 DEF Play, Register
<1>4. ASSUME NEW c \in Clients, PlayAnswered(c) PROVE NoStaleFrames' BY <1>4 DEF PlayAnswered, Register
<1>5. ASSUME NEW c \in Clients, HandlerTimesOut(c) PROVE NoStaleFrames' BY <1>5 DEF HandlerTimesOut, Ended
<1>6. ASSUME NEW c \in Clients, HandlerNotices(c) PROVE NoStaleFrames' BY <1>6 DEF HandlerNotices, HandlerReads, Ended
<1>7. ASSUME NEW c \in Clients, HandlerReads(c) PROVE NoStaleFrames' BY <1>7 DEF HandlerReads, Ended
<1>8. ASSUME NEW c \in Clients, Breaks(c) PROVE NoStaleFrames' BY <1>8 DEF Breaks
<1>9. CASE MarkReady BY <1>9 DEF MarkReady
<1>10. CASE Withdraw BY <1>10 DEF Withdraw
<1>11. CASE StartCall BY <1>11 DEF StartCall, Reset
<1>12. CASE ClockRestarts BY <1>12 DEF ClockRestarts
<1>13. CASE Renew BY <1>13 DEF Renew, Reset
<1>14. ASSUME NEW k \in Calls, StopReceiver(k) PROVE NoStaleFrames' BY <1>14 DEF StopReceiver
<1>15. ASSUME NEW k \in Calls, Receive(k) PROVE NoStaleFrames'
  <2>1. k = call \/ k \in late BY <1>15 DEF Receive
  <2>2. PICK t : queue' = Append(queue, [call |-> k, ts |-> t]) \/ queue' = queue BY <1>15 DEF Receive
  <2>3. call' = call /\ late' = late BY <1>15 DEF Receive
  <2>4. CASE queue' = queue BY <2>3, <2>4
  <2>5. CASE queue' = Append(queue, [call |-> k, ts |-> t])
    <3> SUFFICES ASSUME NEW i \in 1..Len(queue') PROVE queue'[i].call = call \/ queue'[i].call \in late
      BY <2>3
    <3> DEFINE P == [call : Calls, ts : Timestamps]
    <3>1. queue \in Seq(P) OBVIOUS
    <3> HIDE DEF P
    <3>2. Len(queue') = Len(queue) + 1 /\ Len(queue) \in Nat BY <2>5, <3>1
    <3>3. CASE i = Len(queue) + 1
      <4>1. queue'[i] = [call |-> k, ts |-> t] BY <2>5, <3>1, <3>3
      <4> QED BY <4>1, <2>1
    <3>4. CASE i # Len(queue) + 1
      <4>1. i \in 1..Len(queue) BY <3>2, <3>4
      <4>2. queue'[i] = queue[i] BY <2>5, <3>1, <4>1
      <4> QED BY <4>1, <4>2
    <3> QED BY <3>3, <3>4
  <2> QED BY <2>2, <2>4, <2>5
<1>16. CASE Broadcast
  <2> DEFINE P == [call : Calls, ts : Timestamps]
  <2>1. queue \in Seq(P) /\ queue # <<>> /\ queue' = Tail(queue) BY <1>16 DEF Broadcast
  <2>2. call' = call /\ late' = late BY <1>16 DEF Broadcast
  <2>3. \A i \in 1..Len(queue') : i + 1 \in 1..Len(queue) /\ queue'[i] = queue[i + 1]
    <3> HIDE DEF P
    <3> QED BY <2>1
  <2> QED BY <2>2, <2>3
<1>17. CASE Stop BY <1>17 DEF Stop
<1>18. CASE CloseSocket BY <1>18 DEF CloseSocket
<1>19. CASE Stopped BY <1>19 DEF Stopped
<1>20. CASE UNCHANGED vars BY <1>20 DEF vars
<1> QED BY <1>1, <1>2, <1>3, <1>4, <1>5, <1>6, <1>7, <1>8, <1>9, <1>10, <1>11, <1>12, <1>13, <1>14, <1>15, <1>16, <1>17, <1>18, <1>19, <1>20 DEF Next, HandlerStep

\* A handler that ends takes its client off the list.
LEMMA ListedStep == IndInv /\ [Next]_vars => ListedAreHandled'
<1> SUFFICES ASSUME IndInv, [Next]_vars PROVE ListedAreHandled' OBVIOUS
<1> USE DEF IndInv, TypeOK, ListedAreHandled, cliV, tsV, devV
<1>1. ASSUME NEW c \in Clients, Connect(c) PROVE ListedAreHandled' BY <1>1 DEF Connect
<1>2. ASSUME NEW c \in Clients, HandlerStarts(c) PROVE ListedAreHandled' BY <1>2 DEF HandlerStarts, Ended
<1>3. ASSUME NEW c \in Clients, Play(c) PROVE ListedAreHandled' BY <1>3 DEF Play, Register
<1>4. ASSUME NEW c \in Clients, PlayAnswered(c) PROVE ListedAreHandled' BY <1>4 DEF PlayAnswered, Register
<1>5. ASSUME NEW c \in Clients, HandlerTimesOut(c) PROVE ListedAreHandled' BY <1>5 DEF HandlerTimesOut, Ended
<1>6. ASSUME NEW c \in Clients, HandlerNotices(c) PROVE ListedAreHandled' BY <1>6 DEF HandlerNotices, HandlerReads, Ended
<1>7. ASSUME NEW c \in Clients, HandlerReads(c) PROVE ListedAreHandled' BY <1>7 DEF HandlerReads, Ended
<1>8. ASSUME NEW c \in Clients, Breaks(c) PROVE ListedAreHandled' BY <1>8 DEF Breaks
<1>9. CASE MarkReady BY <1>9 DEF MarkReady
<1>10. CASE Withdraw BY <1>10 DEF Withdraw
<1>11. CASE StartCall BY <1>11 DEF StartCall, Reset
<1>12. CASE ClockRestarts BY <1>12 DEF ClockRestarts
<1>13. CASE Renew BY <1>13 DEF Renew, Reset
<1>14. ASSUME NEW k \in Calls, StopReceiver(k) PROVE ListedAreHandled' BY <1>14 DEF StopReceiver
<1>15. ASSUME NEW k \in Calls, Receive(k) PROVE ListedAreHandled' BY <1>15 DEF Receive
<1>16. CASE Broadcast BY <1>16 DEF Broadcast
<1>17. CASE Stop BY <1>17 DEF Stop
<1>18. CASE CloseSocket BY <1>18 DEF CloseSocket
<1>19. CASE Stopped BY <1>19 DEF Stopped
<1>20. CASE UNCHANGED vars BY <1>20 DEF vars
<1> QED BY <1>1, <1>2, <1>3, <1>4, <1>5, <1>6, <1>7, <1>8, <1>9, <1>10, <1>11, <1>12, <1>13, <1>14, <1>15, <1>16, <1>17, <1>18, <1>19, <1>20 DEF Next, HandlerStep

\* The offset is the one that the last packet was sent with.
LEMMA TranslatedStep == IndInv /\ [Next]_vars => Translated'
<1> SUFFICES ASSUME IndInv, [Next]_vars PROVE Translated' OBVIOUS
<1> USE DEF IndInv, Translated, cliV, tsV, devV
<1>1. ASSUME NEW c \in Clients, Connect(c) PROVE Translated' BY <1>1 DEF Connect
<1>2. ASSUME NEW c \in Clients, HandlerStarts(c) PROVE Translated' BY <1>2 DEF HandlerStarts, Ended
<1>3. ASSUME NEW c \in Clients, Play(c) PROVE Translated' BY <1>3 DEF Play, Register
<1>4. ASSUME NEW c \in Clients, PlayAnswered(c) PROVE Translated' BY <1>4 DEF PlayAnswered, Register
<1>5. ASSUME NEW c \in Clients, HandlerTimesOut(c) PROVE Translated' BY <1>5 DEF HandlerTimesOut, Ended
<1>6. ASSUME NEW c \in Clients, HandlerNotices(c) PROVE Translated' BY <1>6 DEF HandlerNotices, HandlerReads, Ended
<1>7. ASSUME NEW c \in Clients, HandlerReads(c) PROVE Translated' BY <1>7 DEF HandlerReads, Ended
<1>8. ASSUME NEW c \in Clients, Breaks(c) PROVE Translated' BY <1>8 DEF Breaks
<1>9. CASE MarkReady BY <1>9 DEF MarkReady
<1>10. CASE Withdraw BY <1>10 DEF Withdraw
<1>11. CASE StartCall BY <1>11 DEF StartCall, Reset
<1>12. CASE ClockRestarts BY <1>12 DEF ClockRestarts
<1>13. CASE Renew BY <1>13 DEF Renew, Reset
<1>14. ASSUME NEW k \in Calls, StopReceiver(k) PROVE Translated' BY <1>14 DEF StopReceiver
<1>15. ASSUME NEW k \in Calls, Receive(k) PROVE Translated' BY <1>15 DEF Receive
<1>16. CASE Broadcast BY <1>16 DEF Broadcast
<1>17. CASE Stop BY <1>17 DEF Stop
<1>18. CASE CloseSocket BY <1>18 DEF CloseSocket
<1>19. CASE Stopped BY <1>19 DEF Stopped
<1>20. CASE UNCHANGED vars BY <1>20 DEF vars
<1> QED BY <1>1, <1>2, <1>3, <1>4, <1>5, <1>6, <1>7, <1>8, <1>9, <1>10, <1>11, <1>12, <1>13, <1>14, <1>15, <1>16, <1>17, <1>18, <1>19, <1>20 DEF Next, HandlerStep

\* All that the invariant says, always.
THEOREM RtspInv == Spec => []IndInv
<1>1. IndInv /\ [Next]_vars => IndInv'
  BY TypeStep, ReceiverStep, PrimedStep, StaleStep, ListedStep, TranslatedStep DEF IndInv
<1> QED BY InitInv, <1>1, PTL DEF Spec

\* The types.
THEOREM RtspTypes == Spec => []TypeOK
<1>1. IndInv => TypeOK BY DEF IndInv
<1> QED BY RtspInv, <1>1, PTL

\* Whoever can get a frame of a call has had the parameter sets since it began.
THEOREM PrimedAlways == Spec => []PrimedBeforeFrames
<1>1. IndInv => PrimedBeforeFrames BY DEF IndInv
<1> QED BY RtspInv, <1>1, PTL

\* No frame of an older call, unless its receiver outlived the start of the next.
THEOREM NoStaleFramesEver == Spec => []NoStaleFrames
<1>1. IndInv => NoStaleFrames BY DEF IndInv
<1> QED BY RtspInv, <1>1, PTL

\* The list holds only clients with a handler.
THEOREM ListIsHandled == Spec => []ListedAreHandled
<1>1. IndInv => ListedAreHandled BY DEF IndInv
<1> QED BY RtspInv, <1>1, PTL

\* While stop() waits for the handlers, each step of one brings it nearer to its end, and none is
\* added: not by the sessions and the coordinator, which go on using the server until it returns.
THEOREM StopIsDraining == Spec => StopDrains
<1>1. IndInv /\ [Next]_vars =>
        [server = "closing" =>
           \A c \in Clients : handler'[c] # handler[c] => StepsLeft(c)' < StepsLeft(c)]_vars
  <2> SUFFICES ASSUME TypeOK, Next, server = "closing", NEW c \in Clients, handler'[c] # handler[c]
               PROVE StepsLeft(c)' < StepsLeft(c)
    BY DEF IndInv, vars, cliV
  <2>1. MarkReady \/ \E d \in Clients : Play(d) \/ HandlerStep(d) \/ HandlerReads(d)
    BY DEF Next, Connect, Breaks, Withdraw, StartCall, ClockRestarts, Renew, StopReceiver, Receive,
           Broadcast, Stop, CloseSocket, Stopped, cliV
  <2>2. CASE MarkReady
    <3>1. handler[c] = "gate" /\ handler'[c] = "woken" BY <2>2 DEF TypeOK, MarkReady
    <3> QED BY <3>1 DEF StepsLeft
  <2>3. ASSUME NEW d \in Clients, Play(d) \/ HandlerStep(d) \/ HandlerReads(d)
        PROVE StepsLeft(c)' < StepsLeft(c)
    <3>1. \/ handler[d] = "accepted" /\ handler'[d] = "none"
          \/ handler[d] = "request" /\ handler'[d] \in {"gate", "streaming", "none"}
          \/ handler[d] = "gate" /\ handler'[d] = "none"
          \/ handler[d] = "woken" /\ handler'[d] = "streaming"
          \/ handler[d] = "streaming" /\ handler'[d] = "none"
      BY <2>3 DEF TypeOK, Play, HandlerStep, HandlerStarts, PlayAnswered, Register, HandlerTimesOut, HandlerNotices,
                  HandlerReads, Ended
    <3>2. c = d
      BY <2>3 DEF TypeOK, Play, HandlerStep, HandlerStarts, PlayAnswered, Register, HandlerTimesOut, HandlerNotices,
                  HandlerReads, Ended
    <3> QED BY <3>1, <3>2 DEF StepsLeft
  <2> QED BY <2>1, <2>2, <2>3
<1> QED BY RtspInv, <1>1, PTL DEF Spec, StopDrains

\* The timestamps that the stream worker gets never go back: every packet either goes on by one
\* from the last or advances as far as the device's own, which is less than half the range.
THEOREM TimestampsOnlyForward == Spec => TimestampsForward
<1>1. IndInv /\ [Next]_vars => [Forward(tsOut, tsOut') <= TsMod \div 2]_vars
  <2> SUFFICES ASSUME IndInv, [Next]_vars PROVE Forward(tsOut, tsOut') <= TsMod \div 2 OBVIOUS
  <2>0. TypeOK /\ Translated BY DEF IndInv
  <2>1. CASE Broadcast
    <3> DEFINE ts == Head(queue).ts
    <3>1. tsOffset' = Offset(ts) /\ tsOut' = (ts + tsOffset') % TsMod BY <2>1 DEF Broadcast
    <3>2. ts \in Timestamps
      <4> DEFINE P == [call : Calls, ts : Timestamps]
      <4>1. queue \in Seq(P) /\ queue # <<>> BY <2>0, <2>1 DEF Broadcast, TypeOK
      <4>2. Head(queue) \in P
        <5> HIDE DEF P
        <5> QED BY <4>1
      <4> QED BY <4>2
    <3>3. tsOut \in Timestamps /\ tsOffset \in Timestamps /\ lastTs \in Timestamps \cup {NoTs}
      BY <2>0 DEF TypeOK
    <3> HIDE DEF ts
    <3>4. CASE Offset(ts) = (tsOut + 1 + TsMod - ts) % TsMod BY <3>1, <3>2, <3>3, <3>4, ForwardOne
    <3>5. CASE lastTs # NoTs /\ Forward(lastTs, ts) <= TsMod \div 2 /\ Offset(ts) = tsOffset
      <4>1. tsOut = (lastTs + tsOffset) % TsMod BY <2>0, <3>5 DEF Translated
      <4>2. Forward(tsOut, tsOut') = Forward(lastTs, ts) BY <3>1, <3>2, <3>3, <3>5, <4>1, ForwardShift
      <4> QED BY <3>5, <4>2
    <3>6. Forward(lastTs, ts) \in Int /\ TsMod \div 2 \in Int
      BY <3>2, <3>3, RtspAssumption DEF Forward, Timestamps, NoTs
    <3> QED BY <3>4, <3>5, <3>6 DEF Offset
  <2>2. CASE tsOut' = tsOut
    <3>1. tsOut \in Nat /\ TsMod \in Nat \ {0} BY <2>0, RtspAssumption DEF TypeOK, Timestamps
    <3>2. tsOut + TsMod - tsOut = TsMod BY <3>1
    <3>3. TsMod % TsMod = 0 BY <3>1, ModCases
    <3> QED BY <2>2, <3>1, <3>2, <3>3 DEF Forward
  <2>3. Broadcast \/ tsOut' = tsOut
    BY DEF Next, HandlerStep, vars, tsV, Connect, HandlerStarts, Play, PlayAnswered, Register, HandlerTimesOut, HandlerNotices, HandlerReads, Ended,
           Breaks, MarkReady, Withdraw, StartCall, ClockRestarts, Renew, Reset, StopReceiver, Receive, Stop,
           CloseSocket, Stopped
  <2> QED BY <2>1, <2>2, <2>3
<1> QED BY RtspInv, <1>1, PTL DEF Spec, TimestampsForward
=============================================================================
