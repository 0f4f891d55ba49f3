------------------------- MODULE IconaClientService -------------------------
(* The refinement mapping from the registry, the slots and the wire of IconaClient to the service. *)
EXTENDS IconaClient

openedBar == {c \in DOMAIN chan : ~chan[c].placeholder}

numberBar == [c \in Objects |-> IF c \in DOMAIN chan THEN chan[c].id ELSE 0]

comingBar == {wire[i].id : i \in {k \in DOMAIN wire : ~Data(k)}}

callBar == [j \in Requests |->
  IF j \notin DOMAIN req THEN "none"
  ELSE CASE req[j].state = "lock" -> "queued"
         [] req[j].state = "wait" -> "asking"
         [] OTHER -> "over"]

onBar == [j \in Requests |-> IF j \in DOMAIN req THEN IdOf(j) ELSE 0]

answerBar == [j \in Requests |-> IF j \in DOMAIN req THEN req[j].answer ELSE 0]

Service == INSTANCE IconaService WITH
  Channels <- Objects, Calls <- Requests,
  opened <- openedBar, number <- numberBar, maker <- owner, coming <- comingBar, mixed <- unmatched,
  call <- callBar, on <- onBar, answer <- answerBar, spoiled <- abandoned, closed <- phase = "closed"

\* Replies carry no request, slots are shared, entries are replaced and connections end; those who
\* open channels and make calls see numbers in order, each where it belongs, and their own answers.
KeepsService == Service!Spec

\* Numbers are on their way in the order in which the device gave them out.
ComeInOrder ==
  \A i, k \in DOMAIN wire : i < k /\ ~Data(i) /\ ~Data(k) => wire[i].id < wire[k].id
============================================================================
