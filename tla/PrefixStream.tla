---------------------------- MODULE PrefixStream ----------------------------
(***************************************************************************)
(* What an encrypted stream promises its two users: the consumer is given, *)
(* in order and without gaps, a growing prefix of what the producer put    *)
(* in, until the stream is over.                                           *)
(***************************************************************************)
EXTENDS Naturals, Sequences

CONSTANT Chunks    \* what a producer may put in

VARIABLES
  sent,   \* the chunks put in so far
  got,    \* the chunks given to the consumer so far
  over    \* TRUE: the consumer is given no more

Init == sent = <<>> /\ got = <<>> /\ over = FALSE

Send(v) == sent' = Append(sent, v) /\ UNCHANGED <<got, over>>

Deliver ==
  /\ ~over
  /\ Len(got) < Len(sent)
  /\ got' = Append(got, sent[Len(got) + 1])
  /\ UNCHANGED <<sent, over>>

Stop == ~over /\ over' = TRUE /\ UNCHANGED <<sent, got>>

Next == (\E v \in Chunks : Send(v)) \/ Deliver \/ Stop

Spec == Init /\ [][Next]_<<sent, got, over>>
=============================================================================
