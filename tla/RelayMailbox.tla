---------------------------- MODULE RelayMailbox ----------------------------
(***************************************************************************)
(* What Relay promises about a message, with no rows, tokens or sessions.  *)
(* A message is posted once.  While it is open it is handed out any number *)
(* of times, never to a second claimant while the lease of the first one   *)
(* runs.  It ends completed by its newest claim or, past its deadline,     *)
(* expired; both are final.  One step of the service may move many         *)
(* messages (a turn claims several and expires others).                    *)
(***************************************************************************)
EXTENDS Naturals

CONSTANT Messages

VARIABLES
    time,   \* wall-clock time
    box     \* the life of every message

mailVars == <<time, box>>

Absent(b) == b.state = "none" /\ b.claims = 0 /\ b.until = 0 /\ b.by = 0

Post(b, c) ==
    /\ Absent(b)
    /\ c.state = "open" /\ c.claims = 0 /\ c.until = 0 /\ c.by = 0

HandOut(b, c) ==
    /\ b.state = "open" /\ b.until <= time
    /\ c.state = "open" /\ c.claims = b.claims + 1
    /\ c.deadline = b.deadline /\ c.by = 0

Complete(b, c) ==
    /\ b.state = "open" /\ b.claims > 0
    /\ c.state = "delivered" /\ c.by = b.claims
    /\ c.claims = b.claims /\ c.until = b.until /\ c.deadline = b.deadline

Lapse(b, c) ==
    /\ b.state = "open" /\ b.deadline <= time
    /\ c.state = "expired" /\ c.by = 0
    /\ c.claims = b.claims /\ c.until = b.until /\ c.deadline = b.deadline

Init == time = 0 /\ \A m \in Messages : Absent(box[m])

Next ==
    /\ time' \in {time, time + 1}
    /\ \A m \in Messages :
          \/ box'[m] = box[m]
          \/ Post(box[m], box'[m])
          \/ HandOut(box[m], box'[m])
          \/ Complete(box[m], box'[m])
          \/ Lapse(box[m], box'[m])

Spec == Init /\ [][Next]_mailVars

=============================================================================
