--------------------------- MODULE VideoCallLife ---------------------------
(* The refinement mapping from the coroutines of VideoCall to the life of a session. *)
EXTENDS VideoCall

phaseBar ==
  CASE start \in {"open", "call", "udpm", "rtpc", "device"} -> "starting"
    [] start \in {"clean", "raised"} -> "failed"
    [] start \in {"gate", "done"} -> IF active THEN "up" ELSE "down"

resultBar ==
  CASE start = "done" -> "returned"
    [] start = "raised" -> "raised"
    [] OTHER -> "pending"

\* Who is inside a send or a handshake, whatever the lock says.
speakerBar ==
  CASE monitor = "acking" -> "ack"
    [] monitor \in {"init", "codec", "accept"} -> "renewal"
    [] answer = "sending" -> "answer"
    [] door = "sending" -> "door"
    [] OTHER -> "nobody"

heldBar == {n \in Names : reg[n] = "this"}

overBar == \E x \in Cleaners : clean[x] = "done"

Life == INSTANCE SessionLife WITH
  phase <- phaseBar, result <- resultBar, withdrawn <- released, told <- ended,
  speaker <- speakerBar, held <- heldBar, over <- overBar

\* VideoCallSession keeps what the coordinator relies on: whatever fails and overlaps, start()
\* and stop() end, nobody talks into a renewal, no own message and no own channel outlives a
\* clean-up, and no callback is made twice or after the fact.
KeepsPromises == Life!Spec
============================================================================
