---------------------------- MODULE IconaService ----------------------------
(***************************************************************************)
(* What the client promises those who open channels and send requests,     *)
(* without the registry, the slots, the locks and what is on the wire: the *)
(* numbers that the device gives out arrive in their order, each at the    *)
(* channel it was made for; one call at a time asks on a channel, and gets *)
(* its own answer or none; and once the client is closed no request is     *)
(* asked. An open that gets no number just stays without one.              *)
(* IconaClientService has the refinement mapping from IconaClient.         *)
(***************************************************************************)
EXTENDS Naturals, Sequences

CONSTANTS Channels, Calls

VARIABLES
  opened,  \* channels whose open was requested
  number,  \* per channel its number, or 0
  maker,   \* per number the channel the device made it for, or 0: its own
  coming,  \* numbers given out and not read
  mixed,   \* an open was forgotten, so that a number may reach another
  call,    \* per call "none", "queued", "asking" or "over"
  on,      \* per call the number of its channel
  answer,  \* per call the call whose answer it got, or 0
  spoiled, \* numbers on which a call gave up
  closed   \* the client was disconnected

chanV == <<opened, number, maker, coming, mixed>>
callV == <<call, on, answer, spoiled>>
vars == <<chanV, callV, closed>>

----------------------------------------------------------------------------
Init ==
  /\ opened = {} /\ number = [c \in Channels |-> 0] /\ maker = <<>> /\ coming = {} /\ mixed = FALSE
  /\ call = [j \in Calls |-> "none"] /\ on = [j \in Calls |-> 0] /\ answer = [j \in Calls |-> 0]
  /\ spoiled = {} /\ closed = FALSE

Unanswered == {c \in opened : number[c] = 0}

\* Opens are mixed up only while one is unanswered: it is replaced, removed, overtaken or ignored.
Forget ==
  /\ Unanswered # {} /\ mixed' = TRUE
  /\ UNCHANGED <<opened, number, maker, coming, callV, closed>>

Open(c) ==
  /\ c \notin opened /\ number[c] = 0
  /\ opened' = opened \cup {c}
  /\ mixed' \in {mixed, mixed \/ Unanswered # {}}
  /\ UNCHANGED <<number, maker, coming, callV, closed>>

\* The device makes a number, once for each open, or for a channel of its own.
Make(c) ==
  /\ \/ c = 0 \/ mixed
     \/ c \in Unanswered /\ \A s \in DOMAIN maker : maker[s] # c
  /\ maker' = Append(maker, c) /\ coming' = coming \cup {Len(maker')}
  /\ UNCHANGED <<opened, number, mixed, callV, closed>>

Gets(c, s) == number[c] = 0 /\ number' = [number EXCEPT ![c] = s]

\* The lowest is read: one made for an open gets there, one of the device's own to a placeholder.
Read(s) ==
  /\ s \in coming /\ \A r \in coming : s <= r
  /\ coming' = coming \ {s}
  /\ \/ maker[s] \in opened /\ ~mixed /\ Gets(maker[s], s)
     \/ maker[s] # 0 /\ mixed /\ \E c \in opened : Gets(c, s)
     \/ maker[s] = 0 /\ \E c \in Channels \ opened : Gets(c, s)
     \/ (maker[s] = 0 \/ mixed) /\ UNCHANGED number
  /\ UNCHANGED <<opened, maker, mixed, callV, closed>>

\* The connection is gone, and what was on its way.
Cut ==
  /\ coming' = {}
  /\ UNCHANGED <<opened, number, maker, mixed, callV, closed>>

\* A call is made on a channel that was opened and has its number.
Call(j, c) ==
  /\ call[j] = "none" /\ c \in opened /\ number[c] # 0
  /\ call' = [call EXCEPT ![j] = "queued"] /\ on' = [on EXCEPT ![j] = number[c]]
  /\ UNCHANGED <<chanV, answer, spoiled, closed>>

\* Its turn: nobody else asks on that channel.  Sending may fail, and does when the client is closed.
Ask(j) ==
  /\ call[j] = "queued"
  /\ \A k \in Calls : call[k] = "asking" => on[k] # on[j]
  /\ \E p \in {"asking", "over"} : (closed => p = "over") /\ call' = [call EXCEPT ![j] = p]
  /\ UNCHANGED <<chanV, on, answer, spoiled, closed>>

\* An answer, its own unless an earlier call gave up there or the numbers are mixed up.
Answer(j, a) ==
  /\ call[j] = "asking"
  /\ a = j \/ on[j] \in spoiled \/ mixed
  /\ call' = [call EXCEPT ![j] = "over"] /\ answer' = [answer EXCEPT ![j] = a]
  /\ UNCHANGED <<chanV, on, spoiled, closed>>

GiveUp(j) ==
  /\ call[j] = "asking"
  /\ call' = [call EXCEPT ![j] = "over"] /\ spoiled' = spoiled \cup {on[j]}
  /\ UNCHANGED <<chanV, on, answer, closed>>

\* disconnect() cancels the calls that ask; opens without a number are not told.
Close ==
  /\ closed' = TRUE
  /\ call' = [j \in Calls |-> IF call[j] = "asking" THEN "over" ELSE call[j]]
  /\ UNCHANGED <<chanV, on, answer, spoiled>>

Next ==
  \/ Forget \/ Cut \/ Close
  \/ \E c \in Channels : Open(c) \/ Make(c)
  \/ Make(0)
  \/ \E s \in coming : Read(s)
  \/ \E j \in Calls : \/ \E c \in Channels : Call(j, c)
                      \/ Ask(j) \/ GiveUp(j)
                      \/ \E a \in Calls \cup {0} : Answer(j, a)

Spec == Init /\ [][Next]_vars
============================================================================
