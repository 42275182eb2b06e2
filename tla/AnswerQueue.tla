----------------------------- MODULE AnswerQueue ----------------------------
(***************************************************************************)
(* What the driver of the fingerprint sensor promises the sketch, without  *)
(* bytes, packets and time-outs: the sensor's answers wait in a queue, a   *)
(* command takes the answer that has waited longest, whole, or fails.      *)
(* Nothing says whose answer that is: a command that failed may be         *)
(* answered later, and then every command gets the answer to an earlier    *)
(* one, until an answer is lost.                                           *)
(***************************************************************************)
EXTENDS Integers, Sequences

VARIABLES
  asked,     (* the number of commands so far; the last one may be busy      *)
  busy,      (* is the last command still waiting for an answer?             *)
  due,       (* the commands whose answers can still come, in order          *)
  reply,     (* the number of the command whose answer the last command got,
                NoAnswer while it has none and when it failed                *)
  failures,  (* how many commands have failed                                *)
  clean      (* has every byte arrived?  Nothing is promised after one is
                lost: there is a checksum, but no one compares it            *)

NoAnswer == 0

Init ==
  /\ asked = 0 /\ busy = FALSE
  /\ due = << >>
  /\ reply = NoAnswer
  /\ failures = 0
  /\ clean = TRUE

Ask ==
  /\ ~busy
  /\ asked' = asked + 1
  /\ busy' = TRUE
  /\ due' = Append(due, asked + 1)
  /\ reply' = NoAnswer
  /\ UNCHANGED failures

(* The command gets the first answer, its own or not. *)
Take ==
  /\ busy /\ due # << >>
  /\ reply' = Head(due)
  /\ due' = Tail(due)
  /\ busy' = FALSE
  /\ UNCHANGED << asked, failures >>

(* The command fails: the answer is late, or it comes apart in the middle.  *)
Fail ==
  /\ busy
  /\ reply' = NoAnswer
  /\ \/ due' = due
     \/ due # << >> /\ due' = Tail(due)
  /\ busy' = FALSE
  /\ failures' = failures + 1
  /\ UNCHANGED asked

(* A command does not reach the sensor, or its answer is swallowed by what  *)
(* was left of the one before.                                              *)
Lose ==
  /\ \E i \in DOMAIN due :
       due' = SubSeq(due, 1, i - 1) \o SubSeq(due, i + 1, Len(due))
  /\ UNCHANGED << asked, busy, reply, failures >>

(* The terminal restarts.  Answers that had come are gone.                  *)
Restart ==
  /\ busy' = FALSE
  /\ reply' = NoAnswer
  /\ failures' = failures + (IF busy THEN 1 ELSE 0)
  /\ \E k \in 0 .. Len(due) : due' = SubSeq(due, k + 1, Len(due))
  /\ UNCHANGED asked

Next ==
  \/ (Ask \/ Take \/ Fail \/ Lose \/ Restart) /\ UNCHANGED clean
  \/ ~clean'

vars == << asked, busy, due, reply, failures, clean >>

Spec == Init /\ [][Next]_vars

----------------------------------------------------------------------------
(* A stale answer is at most as many commands old as commands have failed:  *)
(* as long as none has, every command gets its own answer, and no mishap    *)
(* but a failure the sketch has been told of moves the answers by a place.  *)
SlipBounded == clean /\ reply > 0 => asked - reply <= failures
=============================================================================
