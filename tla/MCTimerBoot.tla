---------------------------- MODULE MCTimerBoot ----------------------------
(* Model values for the run of TimerBoot. *)
EXTENDS TimerBoot

CONSTANTS idle, task1, timer1

MCTask2 == {idle, task1}
NoWaitQ == {}
MCObj == {timer1}
MCQueues == [o \in Obj |-> <<>>]

=============================================================================
