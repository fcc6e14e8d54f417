------------------------------ MODULE MCOutbox ------------------------------
(* Small instances of Outbox: model values for events and workers.         *)
EXTENDS Outbox, TLC

CONSTANTS e1, e2, e3, w1, w2

MCEvent  == {e1, e2, e3}
TwoEvent == {e1, e2}
MCWorker == {w1, w2}
OneWorker == {w1}
MCUnknown == {e3}
NoUnknown == {}
=============================================================================
