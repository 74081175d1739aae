------------------------------- MODULE MCInbox --------------------------------
(* Small instances of the inbox: one delivery that can be reasoned about and one
   whose amount does not parse. *)
EXTENDS Inbox, TLC

CONSTANTS d1, p1

MCDeliveries == {d1, p1}
MCPoison == {p1}
MCOnePoison == {p1}
===============================================================================
