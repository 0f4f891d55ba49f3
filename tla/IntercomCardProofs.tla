------------------------- MODULE IntercomCardProofs -------------------------
EXTENDS IntercomCard, TLAPS

IndInv == TypeOK /\ NothingStale

\* A call more on its way.
LEMMA Called ==
  ASSUME TypeOK, NEW what \in {"start", "stop"}, Call(what)
  PROVE  calls' \in Seq({"start", "stop"})
BY DEF TypeOK, Call

LEMMA InitInv == Init => IndInv
<1> SUFFICES ASSUME Init PROVE IndInv OBVIOUS
<1>1. TypeOK
  <2>1. calls \in Seq({"start", "stop"}) BY DEF Init
  <2>2. pending \in Nat /\ slot \in Nat BY DEF Init
  <2> QED BY <2>1, <2>2, Zenon DEF Init, TypeOK
<1>2. NothingStale BY DEF Init, NothingStale
<1> QED BY <1>1, <1>2 DEF IndInv

LEMMA NextInv == IndInv /\ [Next]_vars => IndInv'
<1> SUFFICES ASSUME IndInv, [Next]_vars PROVE IndInv' OBVIOUS
<1> USE DEF IndInv, TypeOK, NothingStale, cardV
<1>1. CASE ClickPlay
  <2>1. calls' \in Seq({"start", "stop"}) BY <1>1, Called DEF ClickPlay
  <2> QED BY <1>1, <2>1 DEF ClickPlay
<1>2. CASE ClickStop
  <2>1. calls' \in Seq({"start", "stop"}) BY <1>2, Called DEF ClickStop
  <2> QED BY <1>2, <2>1 DEF ClickStop
<1>3. CASE Leave
  <2>1. calls' \in Seq({"start", "stop"}) BY <1>3, Called DEF Leave
  <2> QED BY <1>3, <2>1 DEF Leave
<1>4. CASE Return BY <1>4 DEF Return
<1>5. CASE SeesLive
  <2>1. pending' \in Nat /\ slot' = 0 BY <1>5 DEF SeesLive
  <2>2. ~liveCard' BY <1>5 DEF SeesLive
  <2> QED BY <1>5, <2>1, <2>2 DEF SeesLive
<1>6. CASE SeesIdle
  <2>1. TypeOK' BY <1>6 DEF SeesIdle
  <2>2. ~startRequested BY <1>6 DEF SeesIdle
  <2>3. ~startRequested' /\ slot' = 0 /\ ~liveCard' /\ view' = "idle" BY <1>6, <2>2 DEF SeesIdle
  <2> QED BY <2>1, <2>3
<1>7. CASE Mounts
  <2>1. pending' \in Nat BY <1>7 DEF Mounts
  <2>2. CASE streaming BY <1>7, <2>1, <2>2 DEF Mounts
  <2>3. CASE ~streaming BY <1>7, <2>1, <2>3 DEF Mounts
  <2> QED BY <2>2, <2>3
<1>8. CASE HandleCall
  <2>1. calls' \in Seq({"start", "stop"}) BY <1>8 DEF HandleCall
  <2>2. session' \in {"idle", "starting", "live"} BY <1>8 DEF HandleCall
  <2> QED BY <1>8, <2>1, <2>2 DEF HandleCall
<1>9. CASE StartEnds BY <1>9 DEF StartEnds
<1>10. CASE SessionEnds BY <1>10 DEF SessionEnds
<1>11. CASE UNCHANGED vars BY <1>11 DEF vars
<1> QED BY <1>1, <1>2, <1>3, <1>4, <1>5, <1>6, <1>7, <1>8, <1>9, <1>10, <1>11 DEF Next

\* No live card without a stream, no play button during a start.
THEOREM NeverStale == Spec => []NothingStale
<1>1. Init => IndInv BY InitInv
<1>2. IndInv /\ [Next]_vars => IndInv' BY NextInv
<1>3. IndInv => NothingStale BY DEF IndInv
<1> QED BY <1>1, <1>2, <1>3, PTL DEF Spec

----------------------------------------------------------------------------
(* How many cards are mounted *)

\* What may be mounted in the end grows only in SeesLive.
LEMMA SecondStep ==
  ASSUME TypeOK, [Next]_vars, AtMostOne
  PROVE  AtMostOne' \/ (SeesLive /\ pending > 0)
<1> USE DEF TypeOK, AtMostOne
<1>1. CASE SeesLive BY <1>1 DEF SeesLive
<1>2. CASE SeesIdle BY <1>2 DEF SeesIdle
<1>3. CASE Mounts BY <1>3 DEF Mounts
<1>4. CASE UNCHANGED <<slot, pending>> BY <1>4
<1>5. ClickPlay \/ ClickStop \/ Leave \/ Return => UNCHANGED <<slot, pending>>
  BY DEF ClickPlay, ClickStop, Leave, Return
<1>6. HandleCall \/ StartEnds \/ SessionEnds \/ UNCHANGED vars => UNCHANGED <<slot, pending>>
  BY DEF HandleCall, StartEnds, SessionEnds, vars, cardV
<1> QED BY <1>1, <1>2, <1>3, <1>4, <1>5, <1>6 DEF Next

\* Two live cards are mounted only where a session is seen while a run of _showLive waits.
THEOREM SecondCardOnlyThere == Spec => SecondOnlyThere
<1>1. Init => IndInv BY InitInv
<1>2. IndInv /\ [Next]_vars => IndInv' BY NextInv
<1>3. IndInv /\ [Next]_vars => [AtMostOne => AtMostOne' \/ (SeesLive /\ pending > 0)]_vars
  BY SecondStep DEF IndInv
<1> QED BY <1>1, <1>2, <1>3, PTL DEF Spec, SecondOnlyThere
=============================================================================
